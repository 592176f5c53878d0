------------------------------ MODULE Logger -------------------------------
(***************************************************************************)
(* The log file of the agent: LogWriter and Logger (utils/logger.cpp) over *)
(* the operations of File (utils/file.cpp).  Every line goes to one active *)
(* file, which is backed up under a name made of two times, with the       *)
(* resolution of a second (here: a tick), when it is too long or too old.  *)
(* The main loop deletes what has expired, without the lock of the writer. *)
(* The files for errors and performance are opened and never written, and  *)
(* the consoles keep nothing: they are left out.                           *)
(***************************************************************************)
EXTENDS Naturals, FiniteSets

CONSTANTS
    size_capacity_,     \* in lines
    time_capacity_,
    Expire,             \* expire_days_
    CheckPeriod,        \* an hour
    Faults,             \* which of move, copy, open may fail
    MaxSilence,         \* the running agent writes a line at least this often
    MaxRate,            \* bound on the lines written in a tick
    MaxLines,           \* bound on the lines
    MaxTime             \* bound on the time

\* What the constants have to satisfy.  Two files that fill up within one tick would be backed
\* up under one name: no more is written in a tick than fills one.
BoundsOK ==
    /\ {size_capacity_, time_capacity_, Expire, CheckPeriod} \subseteq Nat \ {0}
    /\ {MaxSilence, MaxRate, MaxLines, MaxTime} \subseteq Nat
    /\ MaxRate <= size_capacity_ + 1
    /\ MaxSilence < Expire
    /\ Faults \subseteq {"move", "copy", "open"}

VARIABLES
    now,
    up,                 \* is the agent running?
    dir,                \* the files of the log directory: name -> lines and time of the last change
    writer,             \* the LogWriter of the out file
    written,            \* the lines for which Write returned true, with their times
    lost,               \* history: the lines that fopen truncated when neither Move nor Copy
                        \* had brought them to a backup
    lines, rate,        \* lines asked for, in all and in this tick
    nFiles,             \* CheckExpiredLog: the names listed and their times, not yet looked at
    doomed,             \* the name it is about to delete, as a set
    checking,           \* the time CheckExpiredLog began, also after its end
    m_nCheckRunLogTime

vars == <<now, up, dir, writer, written, lost, lines, rate, nFiles, doomed, checking,
          m_nCheckRunLogTime>>

Active == <<>>              \* the name of the file that is written
Names  == {Active} \cup ((0 .. MaxTime) \X (0 .. MaxTime))
Line   == 1 .. MaxLines

\* file_ptr_ is open on the file of that name, open on a file with no name, or NULL.
Pointers == {"file", "unlinked", "NULL"}

TypeOK ==
    /\ now \in 0 .. MaxTime /\ up \in BOOLEAN
    /\ DOMAIN dir \subseteq Names
    /\ \A n \in DOMAIN dir : dir[n] \in [lines : SUBSET Line, size : Nat, changed : 0 .. now]
    /\ writer \in [file_ptr_ : Pointers, begin_time_ : 0 .. now, size_ : Nat]
    /\ written \in SUBSET [line : Line, at : 0 .. now] /\ lost \subseteq Line
    /\ lines \in 0 .. MaxLines /\ rate \in 0 .. MaxRate
    /\ nFiles \subseteq Names \X (0 .. now) /\ doomed \subseteq Names
    /\ checking \in 0 .. now /\ m_nCheckRunLogTime \in 0 .. now

Put(d, n, f)    == [m \in DOMAIN d \cup {n} |-> IF m = n THEN f ELSE d[m]]
Remove(d, N)    == [m \in DOMAIN d \ N |-> d[m]]
NewFile         == [lines |-> {}, size |-> 0, changed |-> now]

Init ==
    /\ now = 0 /\ up = FALSE /\ dir = [n \in {} |-> NewFile]
    /\ writer = [file_ptr_ |-> "NULL", begin_time_ |-> 0, size_ |-> 0]
    /\ written = {} /\ lost = {} /\ lines = 0 /\ rate = 0
    /\ nFiles = {} /\ doomed = {} /\ checking = 0 /\ m_nCheckRunLogTime = 0

(***************************************************************************)
(* File.                                                                   *)
(***************************************************************************)
\* Move: the rename replaces a file with the new name.
Move(d, from, to) == Remove(Put(d, to, [d[from] EXCEPT !.changed = now]), {from})

Copy(d, from, to) == Put(d, to, [d[from] EXCEPT !.changed = now])

\* A Copy that stops where the line l is to be written (the size of a backup is not read).
CopyUpTo(d, from, to, l) ==
    Put(d, to, [d[from] EXCEPT !.lines = {m \in @ : m < l}, !.changed = now])

\* GetFileList with the attributes of each file.
GetFileList == DOMAIN dir

\* Delete: a file that is open lives on without a name.
Delete(n) ==
    /\ dir' = Remove(dir, {n})
    /\ writer' = IF n = Active /\ writer.file_ptr_ = "file"
                 THEN [writer EXCEPT !.file_ptr_ = "unlinked"] ELSE writer

(***************************************************************************)
(* LogWriter, as functions of the directory d and the writer w: they give  *)
(* the set of the outcomes.                                                *)
(***************************************************************************)
\* Init, in append mode.  The create time is that of the last change of the inode.
LogWriterInit(d) ==
    LET e == IF Active \in DOMAIN d THEN d ELSE Put(d, Active, NewFile)
    IN  {[dir |-> e,
          writer |-> [file_ptr_ |-> "file", begin_time_ |-> e[Active].changed,
                      size_ |-> e[Active].size]]}
        \cup (IF "open" \in Faults
              THEN {[dir |-> d, writer |-> [file_ptr_ |-> "NULL", begin_time_ |-> 0, size_ |-> 0]]}
              ELSE {})

MustRotate(w) == w.size_ > size_capacity_ \/ w.begin_time_ + time_capacity_ <= now

BackupName(w) == <<w.begin_time_, now>>

\* Move, or Copy if it failed, whose result is not looked at: the directory, and the lines
\* that are in the active file alone.  With no such file both fail.
BackedUp(d, w) ==
    IF Active \notin DOMAIN d THEN {[dir |-> d, lost |-> {}]}
    ELSE LET to == BackupName(w)
             active == d[Active].lines
         IN  {[dir |-> Move(d, Active, to), lost |-> {}]}
             \cup (IF "move" \in Faults THEN {[dir |-> Copy(d, Active, to), lost |-> {}]} ELSE {})
             \cup (IF {"move", "copy"} \subseteq Faults
                   THEN {[dir |-> d, lost |-> active]}
                        \cup {[dir |-> CopyUpTo(d, Active, to, l), lost |-> {m \in active : m >= l}]
                              : l \in active}
                   ELSE {})

\* fopen "wb" truncates the file or makes a new one; the first line names the backup.
Reopened(b) ==
    {[dir |-> Put(b.dir, Active, [NewFile EXCEPT !.size = 1]), lost |-> b.lost,
      writer |-> [file_ptr_ |-> "file", begin_time_ |-> now, size_ |-> 1]]}
    \cup (IF "open" \in Faults
          THEN {[dir |-> b.dir, lost |-> {},
                 writer |-> [file_ptr_ |-> "NULL", begin_time_ |-> 0, size_ |-> 0]]}
          ELSE {})

Rotated(d, w) ==
    IF MustRotate(w) THEN UNION {Reopened(b) : b \in BackedUp(d, w)}
    ELSE {[dir |-> d, lost |-> {}, writer |-> w]}

\* The line l is appended and flushed.
Appended(s, l) ==
    [dir |-> IF s.writer.file_ptr_ = "file"
             THEN Put(s.dir, Active, [lines |-> s.dir[Active].lines \cup {l},
                                      size |-> s.dir[Active].size + 1, changed |-> now])
             ELSE s.dir,
     writer |-> [s.writer EXCEPT !.size_ = @ + 1]]

\* Write: the outcomes, with the lines that each loses, and whether it returns true.
Write(d, w, l) ==
    IF w.file_ptr_ = "NULL" THEN {[dir |-> d, lost |-> {}, writer |-> w, ok |-> FALSE]}
    ELSE {LET r == IF s.writer.file_ptr_ = "NULL" THEN s ELSE Appended(s, l)
          IN  [dir |-> r.dir, lost |-> s.lost, writer |-> r.writer, ok |-> s.writer.file_ptr_ # "NULL"]
          : s \in Rotated(d, w)}

(***************************************************************************)
(* Logger.                                                                 *)
(***************************************************************************)
\* LogStub, with the lock: the next line is written from the state d, w.
LogStub(d, w) ==
    /\ lines < MaxLines /\ rate < MaxRate
    /\ lines' = lines + 1 /\ rate' = rate + 1
    /\ \E r \in Write(d, w, lines + 1) :
          /\ dir' = r.dir /\ writer' = r.writer /\ lost' = lost \cup r.lost
          /\ written' = IF r.ok THEN written \cup {[line |-> lines + 1, at |-> now]} ELSE written

\* A LOG_ macro of some thread.
Log ==
    /\ up
    /\ LogStub(dir, writer)
    /\ UNCHANGED <<now, up, nFiles, doomed, checking, m_nCheckRunLogTime>>

\* Initialize, and the line main writes after it.
Initialize ==
    /\ ~up /\ up' = TRUE
    /\ \E s \in LogWriterInit(dir) : LogStub(s.dir, s.writer)
    /\ m_nCheckRunLogTime' = 0
    /\ UNCHANGED <<now, nFiles, doomed, checking>>

\* Exit, or the end of the process in any other way: each line was flushed.
Exit ==
    /\ up /\ up' = FALSE
    /\ writer' = [file_ptr_ |-> "NULL", begin_time_ |-> 0, size_ |-> 0]
    /\ nFiles' = {} /\ doomed' = {}
    /\ UNCHANGED <<now, dir, written, lost, lines, rate, checking, m_nCheckRunLogTime>>

Checking == nFiles # {} \/ doomed # {}

\* Mutant: the time of a backup is that of its first line.
GetBackupNameTimeFrom(n) == IF n = Active THEN dir[n].changed ELSE n[1]

\* The time in the name of a backup; the time of the last change for any other file.
GetBackupNameTime(n) == IF n = Active THEN dir[n].changed ELSE n[2]

\* CheckExpiredLog: the directory is listed.
CheckExpiredLog ==
    /\ up /\ ~Checking
    /\ m_nCheckRunLogTime = 0 \/ m_nCheckRunLogTime + CheckPeriod <= now
    /\ GetFileList # {}
    /\ nFiles' = {<<n, GetBackupNameTime(n)>> : n \in GetFileList}
    /\ checking' = now
    /\ UNCHANGED <<now, up, dir, writer, written, lost, lines, rate, doomed, m_nCheckRunLogTime>>

IsExpired(f) == f[2] + Expire < now

\* One file of the list: one that has expired is announced in the log first.
CheckFile ==
    /\ doomed = {}
    /\ \E f \in nFiles :
          /\ nFiles' = nFiles \ {f}
          /\ IF IsExpired(f)
             THEN LogStub(dir, writer) /\ doomed' = {f[1]} /\ UNCHANGED m_nCheckRunLogTime
             ELSE /\ m_nCheckRunLogTime' = IF nFiles' = {} THEN now ELSE m_nCheckRunLogTime
                  /\ UNCHANGED <<dir, writer, written, lost, lines, rate, doomed>>
    /\ UNCHANGED <<now, up, checking>>

\* The file is deleted under its name, whatever has that name by now; with no such
\* file an error is logged.
DeleteFile ==
    /\ doomed' = {}
    /\ \E n \in doomed :
          IF n \in DOMAIN dir THEN Delete(n) /\ UNCHANGED <<written, lost, lines, rate>>
                             ELSE LogStub(dir, writer)
    /\ m_nCheckRunLogTime' = IF nFiles = {} THEN now ELSE m_nCheckRunLogTime
    /\ UNCHANGED <<now, up, nFiles, checking>>

\* Time passes: a check takes at most a tick, and a running agent is never silent for long.
Tick ==
    /\ now < MaxTime
    /\ now' = now + 1 /\ rate' = 0
    /\ Checking => now = checking
    /\ up /\ writer.file_ptr_ # "NULL" => \E w \in written : now' <= w.at + MaxSilence
    /\ UNCHANGED <<up, dir, writer, written, lost, lines, nFiles, doomed, checking,
                   m_nCheckRunLogTime>>

Next == Log \/ Initialize \/ Exit \/ CheckExpiredLog \/ CheckFile \/ DeleteFile \/ Tick

Spec == Init /\ [][Next]_vars

(***************************************************************************)
(* Properties.                                                             *)
(***************************************************************************)
\* A line that Write accepted and that has not expired is in some file of the directory,
\* whatever was moved, copied, reopened, deleted or restarted since, or it went the one way
\* lines are lost: with a file truncated after a Move and a Copy had both failed.
RecentLinesKept ==
    \A w \in written :
        w.at + Expire >= now => w.line \in lost \/ \E n \in DOMAIN dir : w.line \in dir[n].lines

\* When a check has ended, no backup is left that had expired when it began.
ExpiredIsDeleted ==
    up /\ ~Checking /\ m_nCheckRunLogTime # 0
        => \A n \in DOMAIN dir \ {Active} : GetBackupNameTime(n) + Expire >= checking
=============================================================================
