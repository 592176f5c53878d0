------------------------------ MODULE MCLogger ------------------------------
(***************************************************************************)
(* The log as MCLibraries checks it and LibrariesProof proves it safe: the *)
(* module Logger, with its Init and Next under a name of their own.        *)
(***************************************************************************)
EXTENDS Naturals

CONSTANTS
    size_capacity_, time_capacity_, Expire, CheckPeriod, Faults, MaxSilence, MaxRate,
    MaxLines, MaxTime

VARIABLES
    now, up, dir, writer, written, lost, lines, rate, nFiles, doomed, checking, m_nCheckRunLogTime

loggerVars == <<now, up, dir, writer, written, lost, lines, rate, nFiles, doomed, checking,
                m_nCheckRunLogTime>>

L == INSTANCE Logger

ASSUME LoggerAssumption == L!BoundsOK

\* A line that the log's Write accepted and that has not expired is in some file of the
\* directory, whatever was moved, copied, reopened, deleted or restarted since, unless it was
\* in a file that was truncated after a Move and a Copy of it had both failed; and when a
\* check has ended, no backup is left that had expired when it began.
LogKeptAsConfigured == L!TypeOK /\ L!RecentLinesKept /\ L!ExpiredIsDeleted
=============================================================================
