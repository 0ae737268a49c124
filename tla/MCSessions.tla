----------------------------- MODULE MCSessions -----------------------------
(* Instances of Sessions for TLC: one where children are asked, cancelled   *)
(* and read until the helper closes, and one with a retention sweep beside  *)
(* them, whose delete may fail after any number of branches went.  The      *)
(* initial states choose which of the two is explored.                      *)
EXTENDS Sessions

VARIABLE part

Sweeping == INSTANCE Sessions WITH
    Ops <- {"resume", "cancel", "keep", "sweep", "result"}

InWork(a) == part = "work" /\ a /\ UNCHANGED part
InSweep(a) == part = "sweep" /\ a /\ UNCHANGED part

InitOf == part \in {"work", "sweep"} /\ Init

\* Of the part without a sweep: each pending await settles, a fork, a runner,
\* the landing of its answer, and whoever listens looks again once woken.
FairSpec ==
    /\ InitOf
    /\ [][InWork(Next) \/ InSweep(Sweeping!Next)]_<<vars, part>>
    /\ \A n \in Names : WF_<<vars, part>>(InWork(Forked(n) \/ ForkRefused(n)))
    /\ \A t \in Run : WF_<<vars, part>>(InWork(Step(t)))
    /\ WF_<<vars, part>>(InWork(Answers)) /\ WF_<<vars, part>>(InWork(WaitLooks))
    /\ WF_<<vars, part>>(InWork(CloseEnds))

\* close() returns: every run in flight settles, the ones that queue for a
\* slot and the cancelled ones too. A wait is never slept through: it ends,
\* at the latest when nothing runs. While the helper is open, an answer that
\* landed is delivered to the listener, or read, replaced or swept: the
\* wakeup for it is never lost.
CallsReturn ==
    /\ []<>(closed # "closing")
    /\ []<>~waiting
    /\ \A t \in Run :
        []<>(part = "work" /\ t \in told =>
             t \in given \/ closed # "open" \/ (t <= minted /\ answer[job[t]] # t))

=============================================================================
