------------------------------- MODULE Callers -------------------------------
(* What the models of the sinks share: the threads that call them, and the    *)
(* bounds of a behaviour.                                                     *)
EXTENDS Integers, Sequences, FiniteSets, Functions, SequencesExt

CONSTANTS
    Threads,      \* the threads that call the logger
    MaxCalls,     \* bound on the calls of a behaviour
    MaxFaults     \* bound on what fails in a behaviour

ASSUME CallersAssumption == Threads # {} /\ MaxCalls \in Nat /\ MaxFaults \in Nat

Elements(s) == {s[i] : i \in DOMAIN s}
=============================================================================
