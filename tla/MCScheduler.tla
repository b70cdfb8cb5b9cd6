---------------------------- MODULE MCScheduler ----------------------------
(***************************************************************************)
(* The scheduler for TLC, and the properties of the pending-signal queue   *)
(* as a sequence.                                                          *)
(***************************************************************************)
EXTENDS Scheduler, SequencesExt

SignalsOf(queue, p) == LET of(e) == e.pid = p IN SelectSeq(queue, of)

NoneDies == \A o \in Ctx : ctx'[o].state = "terminated" => ctx[o].state = "terminated"

\* As long as no process dies, a step consumes the signals of one process at
\* most: deliverPending() puts everybody else's back, in order.
OthersKeepSignals ==
    [][NoneDies => \E p \in PIDs : \A q \in PIDs \ {p} :
          IsPrefix(SignalsOf(pending, q), SignalsOf(pending', q))]_vars

MaskedOf(queue, p, mask) ==
    LET held(e) == e.pid = p /\ e.sig \in mask IN SelectSeq(queue, held)

\* As long as no process dies, a masked signal stays pending, in order, however
\* often the delivery loop runs over it; it is delivered once unmasked.
MaskedStayPending ==
    [][NoneDies => \A p \in PIDs :
          IsPrefix(MaskedOf(pending, p, sigMasks'[p]), MaskedOf(pending', p, sigMasks'[p]))]_vars

-----------------------------------------------------------------------------
(* What the comments of signals.ts say, and the code does not do *)

\* signals.ts: queuing "allows multiple signals to accumulate correctly between
\* scheduler ticks": one process's death loses no signal of a live one.
SignalsAccumulate ==
    [][\A p \in PIDs : Alive(Now, p) /\ Alive(Now, p)' /\ p # GetPid(Now) /\ Tick
          => IsPrefix(SignalsOf(pending, p), SignalsOf(pending', p))]_vars
============================================================================
