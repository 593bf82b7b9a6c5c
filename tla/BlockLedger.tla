---------------------------- MODULE BlockLedger ----------------------------
(***************************************************************************)
(* What a reserve provider promises about money, with no statuses, keys,   *)
(* failures or retries: a ledger of authorizations.  Money is authorized,  *)
(* then collected or handed back, and an authorization whose money is all  *)
(* accounted for never changes again.  MockReserveProvider implements it.  *)
(***************************************************************************)
EXTENDS Integers, Sequences

CONSTANTS
    Amounts,    \* positive amounts one operation may authorize or collect
    Ceiling     \* the largest total one authorization may reach, a natural

VARIABLE ledger     \* sequence of [authorized, debited, released]

Unused(entry) == entry.authorized - entry.debited - entry.released

Init == ledger = << >>

Open(a) ==
    ledger' = Append(ledger, [authorized |-> a, debited |-> 0, released |-> 0])

Extend(b, a) ==
    /\ Unused(ledger[b]) > 0
    /\ ledger[b].authorized + a <= Ceiling
    /\ ledger' = [ledger EXCEPT ![b].authorized = @ + a]

Collect(b, a) ==
    /\ a <= Unused(ledger[b])
    /\ ledger' = [ledger EXCEPT ![b].debited = @ + a]

\* The whole remainder goes back, never a part of it.
HandBack(b) ==
    /\ Unused(ledger[b]) > 0
    /\ ledger' = [ledger EXCEPT ![b].released = Unused(ledger[b])]

Next ==
    \/ \E a \in Amounts : Open(a)
    \/ \E b \in DOMAIN ledger :
          \/ \E a \in Amounts : Extend(b, a) \/ Collect(b, a)
          \/ HandBack(b)

Spec == Init /\ [][Next]_ledger
=============================================================================
