----------------------------- MODULE ToolLedger -----------------------------
(***************************************************************************)
(* What the durable tool ledger of an assistant run promises, with no      *)
(* leases, tokens or workers in it: a call is opened once, its side effect *)
(* begins only after it was opened, a fail-closed call begins at most once *)
(* ever, and a verdict, once written, is never written again.  ToolClaims  *)
(* is shown to implement it.                                               *)
(***************************************************************************)
EXTENDS Naturals

CONSTANTS
    Calls,        \* the idempotency keys of one round of tool calls
    FailClosed    \* the ones whose tool is not on the replay-safe allowlist

VARIABLES
    over,         \* the run has reached a terminal status
    entry,        \* the verdict of each call: "none", "open" or a final one
    begun         \* how often the side effect of each call was begun

ledgerVars == <<over, entry, begun>>

Verdicts == {"SUCCEEDED", "FAILED"}

LedgerInit ==
    /\ over = FALSE
    /\ entry = [c \in Calls |-> "none"]
    /\ begun = [c \in Calls |-> 0]

\* A call enters the ledger before anything is executed for it.
Open(c) ==
    /\ ~over
    /\ entry[c] = "none"
    /\ entry' = [entry EXCEPT ![c] = "open"]
    /\ UNCHANGED <<over, begun>>

\* The side effect of an opened call begins; that of a fail-closed call once.
Begin(c) ==
    /\ entry[c] # "none"
    /\ c \in FailClosed => begun[c] = 0
    /\ begun' = [begun EXCEPT ![c] = @ + 1]
    /\ UNCHANGED <<over, entry>>

\* A begun call gets its verdict while the run is still going.
Settle(c) ==
    /\ ~over
    /\ entry[c] = "open"
    /\ begun[c] > 0
    /\ \E v \in Verdicts : entry' = [entry EXCEPT ![c] = v]
    /\ UNCHANGED <<over, begun>>

\* A fail-closed call whose executor vanished is written off for good.
WriteOff(c) ==
    /\ ~over
    /\ c \in FailClosed
    /\ entry[c] = "open"
    /\ entry' = [entry EXCEPT ![c] = "UNKNOWN"]
    /\ UNCHANGED <<over, begun>>

Close ==
    /\ ~over
    /\ over' = TRUE
    /\ UNCHANGED <<entry, begun>>

LedgerNext ==
    \/ \E c \in Calls : Open(c) \/ Begin(c) \/ Settle(c) \/ WriteOff(c)
    \/ Close

LedgerSpec == LedgerInit /\ [][LedgerNext]_ledgerVars
=============================================================================
