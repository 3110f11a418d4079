------------------------------ MODULE GridSync ------------------------------
(***************************************************************************)
(* The grid-sync record and its methods (internal/domain/gridsync.go): one *)
(* switching operation from off-grid to on-grid.                           *)
(*                                                                         *)
(* A reading of the synchronizer is the set of parameters that are out of  *)
(* the operation's own band; the thresholds never change after creation.   *)
(* A method that can refuse has a guard named CanX beside it.              *)
(***************************************************************************)
EXTENDS Naturals

CONSTANTS
    BlackStarts,  \* IDs of the stored black starts
    Standalone,   \* the empty black-start ID
    NoReading     \* the zero measurement of an operation never verified

Parameters == {"voltage", "frequency", "phase"}

ASSUME NoReadingAssumption == \A m \in SUBSET Parameters : NoReading # m

FaultCodes ==
    {"SYNC_VOLTAGE_OUT_OF_BAND", "SYNC_FREQ_OUT_OF_BAND", "SYNC_PHASE_OUT_OF_BAND"}

NoFault == ""

GridSyncState ==
    {"off_grid", "syncing", "verified", "grid_connected", "sync_failed", "retesting"}

GridSyncRecord ==
    [blackStart        : BlackStarts \cup {Standalone},
     state             : GridSyncState,
     reading           : {NoReading} \cup SUBSET Parameters,
     faultCode         : FaultCodes \cup {NoFault},
     upperGridNotified : BOOLEAN,
     backupTieLine     : BOOLEAN,
     attempt           : Nat]

NewGridSync(b) ==
    [blackStart |-> b, state |-> "off_grid", reading |-> NoReading, faultCode |-> NoFault,
     upperGridNotified |-> FALSE, backupTieLine |-> FALSE, attempt |-> 0]

Within(m) == m = {}

\* The error of Within names the first parameter out of band, and its text
\* selects the code.
faultCodeFor(m) ==
    IF "voltage" \in m THEN "SYNC_VOLTAGE_OUT_OF_BAND"
    ELSE IF "frequency" \in m THEN "SYNC_FREQ_OUT_OF_BAND"
    ELSE "SYNC_PHASE_OUT_OF_BAND"

\* Mutant: a connected operation may be synchronized again.
CanBeginSyncingConnected(g) == g.state # "sync_failed"

CanBeginSyncing(g) == g.state \notin {"grid_connected", "sync_failed"}

BeginSyncing(g) == [g EXCEPT !.state = "syncing"]

\* Mutants: the fall-back keeps the tie-line open; no code fits the error.
FailWithoutTieLine(g, m) ==
    [g EXCEPT !.state = "sync_failed", !.faultCode = faultCodeFor(m),
              !.upperGridNotified = TRUE, !.attempt = @ + 1]

FailWithUnknownCode(g, m) ==
    [g EXCEPT !.state = "sync_failed", !.faultCode = "SYNC_UNKNOWN",
              !.upperGridNotified = TRUE, !.backupTieLine = TRUE, !.attempt = @ + 1]

\* Off-grid again on the backup tie-line, with the fault recorded and reported.
fail(g, m) ==
    [g EXCEPT !.state = "sync_failed", !.faultCode = faultCodeFor(m),
              !.upperGridNotified = TRUE, !.backupTieLine = TRUE, !.attempt = @ + 1]

CanVerify(g) == g.state \in {"syncing", "retesting"}

\* A refused Verify leaves the record alone.  A verified operation keeps its
\* tie-line until it connects.
Verify(g, m) ==
    IF ~CanVerify(g) THEN g
    ELSE IF Within(m) THEN [g EXCEPT !.reading = m, !.state = "verified", !.faultCode = NoFault]
    ELSE fail([g EXCEPT !.reading = m], m)

\* Mutant: the breaker asks for a reading, not for a good one.
CanConnectUnverified(g) == g.state \in {"verified", "sync_failed", "syncing"}

CanConnect(g) == g.state = "verified"

Connect(g) == [g EXCEPT !.state = "grid_connected", !.backupTieLine = FALSE]

CanBeginRetest(g) == g.state = "sync_failed"

\* Mutant: a retest is taken for a success.
BeginRetestVerified(g) == [g EXCEPT !.state = "verified"]

BeginRetest(g) == [g EXCEPT !.state = "retesting"]

IsTerminal(g) == g.state = "grid_connected"

=============================================================================
