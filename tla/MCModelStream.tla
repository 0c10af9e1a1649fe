---------------------------- MODULE MCModelStream ----------------------------
(***************************************************************************)
(* Two instances of ModelStream for TLC: the journal of several            *)
(* invocations without a subscriber, and a Run of fewer invocations with a *)
(* subscriber beside the producer.                                         *)
(***************************************************************************)
EXTENDS ModelStream

CONSTANT MaxWatched   \* bound: invocations, and awaits that raise, of a Run
                      \* with a subscriber

VARIABLE part         \* the instance the behaviour is one of

PartInit == StreamInit /\ part \in {"journal", "watched"}

\* A stream is short when it ends at least one chunk before the bound.
Short ==
    \A s \in Streams :
        \/ Len(sent[s]) < MaxChunks - 1
        \/ Len(sent[s]) = MaxChunks - 1 /\ Last(sent[s]) \in Finishing

\* Bounds of the first instance: two invocations with a shorter stream each, or one
\* with a longer stream; one await that raises in either case, two in one short stream.
Twice ==
    /\ cur > 1 => Short
    /\ cur > 1 \/ ~Short => faults =< 1

\* Bounds of the second instance.
Watched == Short /\ cur =< MaxWatched /\ faults =< MaxWatched

PartNext ==
    /\ part' = part
    /\ \/ part = "journal" /\ StreamNext /\ sub' = sub /\ Twice'
       \/ part = "watched" /\ StreamNext /\ Watched'

\* StreamFairness, for the instance with the subscriber.
PartSpec ==
    /\ PartInit /\ [][PartNext]_<<vars, part>>
    /\ WF_vars(part = "watched" /\ (InvocationStep \/ RunStep) /\ Watched')
    /\ \A s \in Streams : WF_vars(part = "watched" /\ TimerStep(s))
    /\ \A w \in Subscribers : WF_vars(part = "watched" /\ (List(w) \/ Wake(w)))

\* SubscriberEnds of ModelStream for the instance that has one: a subscription
\* ends with the result, although what the tree cancels is never published.
WatchedEnds == part = "watched" => SubscriberEnds
=============================================================================
