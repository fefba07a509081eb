------------------------------- MODULE HfPull -------------------------------
(***************************************************************************)
(* The model cache of the command line (cli/main.cpp, pull_hf): a model is *)
(* downloaded by curl into <model>.part and renamed to its final name.     *)
(* Several launches may pull the same model, and any of them may be killed.*)
(* A file is the set of chunks its inode holds; curl and the file system   *)
(* are external.                                                           *)
(***************************************************************************)
EXTENDS Integers, FiniteSets

CONSTANTS
  Proc,     \* launches of the program that can run at the same time
  Inode,    \* files of the cache directory, named or open
  Size,     \* chunks of the complete model
  None,
  MaxPulls  \* bound: pulls made in all

VARIABLES
  dst,    \* inode under the model's name
  part,   \* inode under the name with .part
  disk,   \* inode |-> chunks it holds
  pc,     \* process |-> where its pull stands
  fd,     \* process |-> inode its curl has open
  pos,    \* process |-> chunks its curl has written
  rc,     \* process |-> exit status of its curl
  result, \* process |-> "path" or "error", how its last pull ended
  pulls   \* pulls made so far

vars == <<dst, part, disk, pc, fd, pos, rc, result, pulls>>

Complete(file) == file # None /\ disk[file] = 1..Size
Holds(file) == file # None /\ disk[file] # {}

Init ==
  /\ dst = None
  /\ part = None
  /\ disk = [f \in Inode |-> {}]
  /\ pc = [p \in Proc |-> "idle"]
  /\ fd = [p \in Proc |-> None]
  /\ pos = [p \in Proc |-> 0]
  /\ rc = [p \in Proc |-> 0]
  /\ result = [p \in Proc |-> None]
  /\ pulls = 0

Goto(p, where) == pc' = [pc EXCEPT ![p] = where]
End(p, how) == Goto(p, "idle") /\ result' = [result EXCEPT ![p] = how]

-----------------------------------------------------------------------------
\* A model file that is there and not empty is used as it is.
UseCached(p) ==
  /\ pc[p] = "idle"
  /\ pulls < MaxPulls
  /\ Holds(dst)
  /\ pulls' = pulls + 1
  /\ End(p, "path")
  /\ UNCHANGED <<dst, part, disk, fd, pos, rc>>

StartPull(p, force) ==
  /\ pc[p] = "idle"
  /\ pulls < MaxPulls
  /\ force \/ ~Holds(dst)
  /\ pulls' = pulls + 1
  /\ result' = [result EXCEPT ![p] = None]
  /\ Goto(p, "clear")
  /\ UNCHANGED <<dst, part, disk, fd, pos, rc>>

ClearPart(p) ==
  /\ pc[p] = "clear"
  /\ part' = None
  /\ Goto(p, "curl")
  /\ UNCHANGED <<dst, disk, fd, pos, rc, result, pulls>>

(***************************************************************************)
(* curl.                                                                   *)
(***************************************************************************)
Unused == Inode \ ({dst, part} \cup {fd[p] : p \in Proc})

\* Creates the .part file, or truncates the one another process has open.
CurlOpen(p) ==
  /\ pc[p] = "curl"
  /\ fd[p] = None
  /\ \E f \in IF part = None THEN Unused ELSE {part} :
       /\ part' = f
       /\ fd' = [fd EXCEPT ![p] = f]
       /\ disk' = [disk EXCEPT ![f] = {}]
  /\ pos' = [pos EXCEPT ![p] = 0]
  /\ UNCHANGED <<dst, pc, rc, result, pulls>>

CurlWrite(p) ==
  /\ fd[p] # None
  /\ pos[p] < Size
  /\ pos' = [pos EXCEPT ![p] = @ + 1]
  /\ disk' = [disk EXCEPT ![fd[p]] = @ \cup {pos[p] + 1}]
  /\ UNCHANGED <<dst, part, pc, fd, rc, result, pulls>>

\* --retry starts the transfer again in the same file.
CurlRetry(p) ==
  /\ fd[p] # None
  /\ pos[p] > 0
  /\ pos' = [pos EXCEPT ![p] = 0]
  /\ disk' = [disk EXCEPT ![fd[p]] = {}]
  /\ UNCHANGED <<dst, part, pc, fd, rc, result, pulls>>

CurlExit(p, code) ==
  /\ fd[p] # None
  /\ code = 0 => pos[p] = Size
  /\ rc' = [rc EXCEPT ![p] = code]
  /\ fd' = [fd EXCEPT ![p] = None]
  /\ Goto(p, "check")
  /\ UNCHANGED <<dst, part, disk, pos, result, pulls>>

(***************************************************************************)
(* After the download.                                                     *)
(***************************************************************************)
DownloadFailed(p) ==
  /\ pc[p] = "check"
  /\ rc[p] # 0 \/ ~Holds(part)
  /\ part' = None
  /\ End(p, "error")
  /\ UNCHANGED <<dst, disk, fd, pos, rc, pulls>>

\* Fault: the exit status is not looked at.
DownloadedUnchecked(p) ==
  /\ pc[p] = "check"
  /\ Holds(part)
  /\ Goto(p, "rename")
  /\ UNCHANGED <<dst, part, disk, fd, pos, rc, result, pulls>>

Downloaded(p) ==
  /\ pc[p] = "check"
  /\ rc[p] = 0 /\ Holds(part)
  /\ Goto(p, "rename")
  /\ UNCHANGED <<dst, part, disk, fd, pos, rc, result, pulls>>

Rename(p) ==
  /\ pc[p] \in {"rename", "again"}
  /\ part # None
  /\ dst' = part
  /\ part' = None
  /\ End(p, "path")
  /\ UNCHANGED <<disk, fd, pos, rc, pulls>>

\* The first failure removes what is in the way, the second is the end.
RenameFails(p) ==
  /\ pc[p] = "rename"
  /\ dst' = None
  /\ Goto(p, "again")
  /\ UNCHANGED <<part, disk, fd, pos, rc, result, pulls>>

RenameFailsAgain(p) ==
  /\ pc[p] = "again"
  /\ End(p, "error")
  /\ UNCHANGED <<dst, part, disk, fd, pos, rc, pulls>>

\* The launch and its curl are killed.
Crash(p) ==
  /\ pc[p] # "idle"
  /\ fd' = [fd EXCEPT ![p] = None]
  /\ End(p, None)
  /\ UNCHANGED <<dst, part, disk, pos, rc, pulls>>

\* curl, whose transfer has no limit of time: nothing makes it go on.
Curl(p) ==
  \/ CurlOpen(p)
  \/ CurlWrite(p)
  \/ CurlRetry(p)
  \/ \E code \in {0, 1} : CurlExit(p, code)

\* The program's own steps before and after curl.
Progress(p) ==
  \/ ClearPart(p)
  \/ DownloadFailed(p)
  \/ Downloaded(p)
  \/ Rename(p)
  \/ RenameFails(p)
  \/ RenameFailsAgain(p)

\* What pull_hf and its curl do once the file has to be fetched.
Fetch(p) == Progress(p) \/ Curl(p)

Next == \E p \in Proc :
  \/ UseCached(p)
  \/ \E force \in BOOLEAN : StartPull(p, force)
  \/ Fetch(p)
  \/ Crash(p)

Spec == Init /\ [][Next]_vars

-----------------------------------------------------------------------------
(***************************************************************************)
(* Properties.                                                             *)
(***************************************************************************)

\* Every variable stays within its type, and curl has its own file open.
TypeOK ==
  /\ dst \in Inode \cup {None}
  /\ part \in Inode \cup {None}
  /\ disk \in [Inode -> SUBSET (1..Size)]
  /\ pc \in [Proc -> {"idle", "clear", "curl", "check", "rename", "again"}]
  /\ fd \in [Proc -> Inode \cup {None}]
  /\ pos \in [Proc -> 0..Size]
  /\ rc \in [Proc -> {0, 1}]
  /\ result \in [Proc -> {"path", "error", None}]
  /\ pulls \in 0..MaxPulls
  /\ \A p \in Proc : fd[p] # None => pc[p] = "curl"

\* A model under its final name is complete, whatever failed or was killed on
\* the way: later launches use it without another look.
CachedIsComplete == dst # None => Complete(dst)

\* The cached model makes way only for a complete replacement: a download
\* that fails or is killed, forced or not, leaves it where it is.
CacheKept ==
  [][Complete(dst) /\ dst' # dst =>
       \E p \in Proc : pc[p] \in {"rename", "again"} /\ rc[p] = 0 /\ Complete(part)]_vars
=============================================================================
