------------------------------- MODULE Budget -------------------------------
(***************************************************************************)
(* The admission quota that every session shares (rust/session/src/        *)
(* budget.rs).  One mutex guards a message count and a byte count.         *)
(* Budget::reserve charges both or neither and returns a Lease; dropping   *)
(* the Lease gives back exactly what that reservation took.                *)
(*                                                                         *)
(* A Lease is an owned Rust value: it is dropped once and cannot be        *)
(* copied.  Here a lease is named by what it was taken for, an element of  *)
(* Lease, and `live' is the set of the leases that exist.                  *)
(***************************************************************************)
EXTENDS Naturals, FiniteSets

CONSTANTS Lease,            \* the bodies a reservation can be taken for
          Size,             \* Size[l]: the byte length reserved for l
          MaxMessages,      \* Limits.max_messages
          MaxBufferedBytes, \* Limits.max_buffered_bytes
          MaxMessageBytes   \* Limits.max_message_bytes

\* The largest limits of the initial profile.
ProfileMessages == 64
ProfileBytes == 1024 * 1024

\* Limits::validate, which Budget::new runs before a quota exists.
ASSUME LimitsValid ==
  /\ MaxMessages \in 1 .. ProfileMessages
  /\ MaxBufferedBytes \in 1 .. ProfileBytes
  /\ MaxMessageBytes \in 1 .. MaxBufferedBytes

\* A length is a usize.
ASSUME SizeIsLength == Size \in [Lease -> Nat]

VARIABLES live,   \* the leases not yet dropped
          usage   \* Inner.usage, the guarded pair of counters

budgetVars == <<live, usage>>

Usage == [messages : Nat, bytes : Nat]

BudgetTypeOK ==
  /\ live \subseteq Lease
  /\ usage \in Usage
-----------------------------------------------------------------------------
\* Mutant of Admits: one message more than the limit.
AdmitsOneMore(b) ==
  /\ b <= MaxMessageBytes
  /\ usage.messages <= MaxMessages
  /\ b <= MaxBufferedBytes - usage.bytes

\* The admission test of reserve.  It reads both counters under one lock.
Admits(b) ==
  /\ b <= MaxMessageBytes
  /\ usage.messages < MaxMessages
  /\ b <= MaxBufferedBytes - usage.bytes

Charge(b) == usage' = [messages |-> usage.messages + 1, bytes |-> usage.bytes + b]

Refund(b) == usage' = [messages |-> usage.messages - 1, bytes |-> usage.bytes - b]

BudgetInit ==
  /\ live = {}
  /\ usage = [messages |-> 0, bytes |-> 0]

\* Budget::reserve.  A refused reservation leaves the state as it is.
BudgetReserve(l) ==
  /\ l \notin live
  /\ Admits(Size[l])
  /\ Charge(Size[l])
  /\ live' = live \cup {l}

\* impl Drop for Lease.
LeaseDrop(l) ==
  /\ l \in live
  /\ Refund(Size[l])
  /\ live' = live \ {l}

BudgetNext == \E l \in Lease : BudgetReserve(l) \/ LeaseDrop(l)

BudgetSpec == BudgetInit /\ [][BudgetNext]_budgetVars
-----------------------------------------------------------------------------
\* One element for each byte that the leases of S reserve, so that the sum of
\* their sizes is a cardinality.
HeldBytes(S) == {p \in S \X (1 .. MaxMessageBytes) : p[2] <= Size[p[1]]}

\* Both counters are exactly what the live leases account for: a refused
\* reservation retains neither kind of capacity, a dropped lease returns both,
\* and the subtractions in Drop never wrap.
Accounted ==
  /\ usage.messages = Cardinality(live)
  /\ usage.bytes = Cardinality(HeldBytes(live))

\* The quota is never exceeded, so `max_buffered_bytes - usage.bytes' in
\* reserve does not underflow.
WithinLimits ==
  /\ usage.messages <= MaxMessages
  /\ usage.bytes <= MaxBufferedBytes
=============================================================================
