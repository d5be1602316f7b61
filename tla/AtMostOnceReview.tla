-------------------------- MODULE AtMostOnceReview --------------------------
(***************************************************************************)
(* What a governed recovery attempt promises to whoever reads its result,  *)
(* without processes, claims, permits or crashes: the review steps are put *)
(* to the provider in order and each at most once, the response recorded   *)
(* for a step answers that very step and no response serves twice, and one *)
(* core is published, once, after every step has been recorded.            *)
(***************************************************************************)
EXTENDS Naturals, Sequences

CONSTANTS StepCount, Responses, Cores, None

VARIABLES
    asked,      \* how often each step was put to the provider
    record,     \* the completions recorded so far, in step order
    published   \* the published core, or None

reviewVars == <<asked, record, published>>

Init ==
    /\ asked = [s \in 0 .. StepCount - 1 |-> 0]
    /\ record = <<>>
    /\ published = None

Ask(s) ==
    /\ s = Len(record)
    /\ asked[s] = 0
    /\ asked' = [asked EXCEPT ![s] = 1]
    /\ UNCHANGED <<record, published>>

Record(r) ==
    /\ Len(record) < StepCount
    /\ asked[Len(record)] = 1
    /\ \A i \in DOMAIN record : record[i].response # r
    /\ record' = Append(record, [step |-> Len(record), response |-> r])
    /\ UNCHANGED <<asked, published>>

Publish(core) ==
    /\ Len(record) = StepCount
    /\ published = None
    /\ published' = core
    /\ UNCHANGED <<asked, record>>

Next ==
    \/ \E s \in 0 .. StepCount - 1 : Ask(s)
    \/ \E r \in Responses : Record(r)
    \/ \E core \in Cores : Publish(core)

Spec == Init /\ [][Next]_reviewVars
=============================================================================
