---------------------------- MODULE ChannelGate -----------------------------
(***************************************************************************)
(* What a circuit breaker promises of one channel, without its windows,    *)
(* rates, probes or store: a gate that is shut for a bounded time.         *)
(*   - nobody passes a shut gate;                                          *)
(*   - only a request that passes, or one that passed and now takes its    *)
(*     leave, can shut it or keep it shut for longer, and never for more   *)
(*     than MaxShut from then on;                                          *)
(*   - time, and anyone, may open it earlier.                              *)
(* src/channel_breaker.go implements it: ChannelBreaker!ImplementsGate.    *)
(***************************************************************************)
EXTENDS Integers

CONSTANTS
    Requests,  \* the requests that use the channel
    MaxShut    \* the longest time the gate is shut at once

VARIABLES
    shutFor,   \* how long the gate stays shut if nothing happens
    inside     \* the requests that passed it and have not left

gateVars == <<shutFor, inside>>

GateInit ==
    /\ shutFor = 0
    /\ inside = {}

\* Time passes.
Pass ==
    /\ shutFor > 0
    /\ shutFor' = shutFor - 1
    /\ UNCHANGED inside

\* A request passes the open gate, and may shut it behind itself.
Enter(r) ==
    /\ r \notin inside
    /\ shutFor = 0
    /\ shutFor' \in 0..MaxShut
    /\ inside' = inside \cup {r}

\* A request leaves; what it saw may shut the gate, or open it.
Exit(r) ==
    /\ r \in inside
    /\ shutFor' \in 0..MaxShut
    /\ inside' = inside \ {r}

\* The gate is opened early: a reset, a cancelled probe, a whitelisted use.
Relent ==
    /\ shutFor' \in 0..(shutFor - 1)
    /\ UNCHANGED inside

GateNext ==
    \/ Pass \/ Relent
    \/ \E r \in Requests : Enter(r) \/ Exit(r)

GateSpec == GateInit /\ [][GateNext]_gateVars
=============================================================================
