----------------------------- MODULE JournalFiles -----------------------------
(***************************************************************************)
(* The commit journal as files: the directory of one identity, used at the *)
(* same time by threads that record and discard (Writer) and by processes  *)
(* that scan it for records to replay (Scanner).                           *)
(*                                                                         *)
(* Every system call is a step of its own.  A thread or process that       *)
(* crashes takes no further step and leaves its files as they are; the     *)
(* directory is then used by the others.                                   *)
(***************************************************************************)
EXTENDS Naturals

CONSTANTS
    Reservation, Writer, Scanner,
    Temp,          \* names for temporary files
    LegacyName,    \* file names of older releases
    Legacy,        \* Legacy[r]: _legacy_filename(r); ids may share a name
    Elsewhere,     \* reservations recorded against another base_url
    Bad,           \* what from_json refuses: cut short, mangled, other version
    Absent,        \* no such file
    MayFail        \* system calls that may raise OSError

(* A valid record is represented by the reservation id it holds.           *)
ASSUME JournalAssumption ==
    /\ Legacy \in [Reservation -> LegacyName]
    /\ Elsewhere \subseteq Reservation
    /\ Bad \notin Reservation /\ Absent \notin Reservation /\ Bad # Absent
    /\ Absent \notin Temp
    /\ MayFail \subseteq {"read", "write", "rename", "unlink"}

VARIABLES
    file,      \* file[f]: the *.json files
    aside,     \* aside[f]: f with suffix .corrupt
    temp,      \* temp[t]: the *.tmp files
    writer,    \* writer[w]: what a thread is doing
    scanner,   \* scanner[s]: how far load_pending has come
    owed,      \* history: complete on disk since their last terminal outcome
    due        \* history: due[s], records that scan s still has to return

diskVars == <<file, aside, temp>>
vars     == <<file, aside, temp, writer, scanner, owed, due>>

(* _safe_filename is a digest of the exact id: it does not collide.        *)
Standard(r) == <<"v2", r>>
LegacyFile(n) == <<"legacy", n>>
OldName(r) == LegacyFile(Legacy[r])
File == {Standard(r) : r \in Reservation} \cup {LegacyFile(n) : n \in LegacyName}

Content == Reservation \cup {Bad, Absent}

WriterState ==
    [pc: {"idle", "writing", "written", "unlinked", "matched"},
     id: Reservation \cup {Absent}, tmp: Temp \cup {Absent}]
IdleWriter == [pc |-> "idle", id |-> Absent, tmp |-> Absent]

ScannerState ==
    [pc: {"idle", "listed", "refused", "parsed", "vacant", "occupied", "duplicate"},
     todo: SUBSET File, path: File \cup {Absent}, id: Reservation \cup {Absent}]
IdleScanner == [pc |-> "idle", todo |-> {}, path |-> Absent, id |-> Absent]

TypeOK ==
    /\ file \in [File -> Content]
    /\ aside \in [File -> Content]
    /\ temp \in [Temp -> Content]
    /\ writer \in [Writer -> WriterState]
    /\ scanner \in [Scanner -> ScannerState]
    /\ owed \in SUBSET Reservation
    /\ due \in [Scanner -> SUBSET Reservation]

(* Earlier releases and earlier runs left any of their files behind.       *)
Init ==
    /\ file \in [File -> Content]
    /\ \A r \in Reservation : file[Standard(r)] \in {r, Bad, Absent}
    /\ \A n \in LegacyName :
          file[LegacyFile(n)] \in
             {r \in Reservation : Legacy[r] = n} \cup {Bad, Absent}
    /\ aside = [f \in File |-> Absent]
    /\ temp = [t \in Temp |-> Absent]
    /\ writer = [w \in Writer |-> IdleWriter]
    /\ scanner = [s \in Scanner |-> IdleScanner]
    /\ owed = {r \in Reservation : \E f \in File : file[f] = r}
    /\ due = [s \in Scanner |-> {}]

Fails(call) == call \in MayFail

(* Somebody else has r in hand: no scan under way has to return it.        *)
TakenUp(r) == due' = [s \in Scanner |-> due[s] \ {r}]

-------------------------------------------------------------------------------
(* record: write a temporary file, rename it to the standard name.  Any    *)
(* failure is swallowed after an attempt to unlink the temporary file.     *)

WriterAt(w, where) == writer[w].pc = where
WriterGoes(w, where) == writer' = [writer EXCEPT ![w].pc = where]
WriterDone(w) == writer' = [writer EXCEPT ![w] = IdleWriter]

(* The file is opened: empty, or truncated if it exists.                   *)
Opened(w, r, t) ==
    /\ temp' = [temp EXCEPT ![t] = Bad]
    /\ writer' = [writer EXCEPT ![w] = [pc |-> "writing", id |-> r, tmp |-> t]]

(* Slip: one temporary name per record, not per writer.                    *)
OpenSharedTemp(w, r) ==
    /\ WriterAt(w, "idle")
    /\ \E t \in Temp :
          /\ \A v \in Writer : writer[v].id = r => writer[v].tmp \in {t, Absent}
          /\ Opened(w, r, t)
    /\ UNCHANGED <<file, aside, scanner, owed, due>>

(* Pid and uuid make the name unique.                                      *)
OpenTemp(w, r) ==
    /\ WriterAt(w, "idle")
    /\ \E t \in Temp :
          /\ temp[t] = Absent
          /\ \A v \in Writer : writer[v].tmp # t
          /\ Opened(w, r, t)
    /\ UNCHANGED <<file, aside, scanner, owed, due>>

(* A file that was reaped while it was open is written to no avail.        *)
WriteTemp(w) ==
    /\ WriterAt(w, "writing")
    /\ LET t == writer[w].tmp IN
       temp' = [temp EXCEPT ![t] = IF @ = Absent THEN Absent ELSE writer[w].id]
    /\ WriterGoes(w, "written")
    /\ UNCHANGED <<file, aside, scanner, owed, due>>

Publish(w) ==
    /\ WriterAt(w, "written")
    /\ LET t == writer[w].tmp  r == writer[w].id IN
       /\ temp[t] # Absent
       /\ file' = [file EXCEPT ![Standard(r)] = temp[t]]
       /\ temp' = [temp EXCEPT ![t] = Absent]
       /\ owed' = owed \cup ({temp[t]} \cap Reservation)
       /\ TakenUp(r)
    /\ WriterDone(w)
    /\ UNCHANGED <<aside, scanner>>

(* The write or the rename raised, the latter also when the file is gone.  *)
RecordFails(w) ==
    LET t == writer[w].tmp IN
    /\ \/ WriterAt(w, "writing") /\ Fails("write")
       \/ WriterAt(w, "written") /\ (Fails("rename") \/ temp[t] = Absent)
    /\ \/ temp' = [temp EXCEPT ![t] = Absent]
       \/ Fails("unlink") /\ UNCHANGED temp
    /\ WriterDone(w)
    /\ UNCHANGED <<file, aside, scanner, owed, due>>

-------------------------------------------------------------------------------
(* discard, after a terminal outcome: the standard file, then the legacy   *)
(* file if it holds a record of the same id.                               *)

UnlinkStandard(w, r) ==
    /\ WriterAt(w, "idle")
    /\ owed' = owed \ {r}
    /\ TakenUp(r)
    /\ \/ /\ file' = [file EXCEPT ![Standard(r)] = Absent]
          /\ writer' = [writer EXCEPT ![w] =
                [pc |-> "unlinked", id |-> r, tmp |-> Absent]]
       \/ Fails("unlink") /\ UNCHANGED <<file, writer>>
    /\ UNCHANGED <<aside, temp, scanner>>

(* Slip: whatever the old name holds is taken for the record.              *)
ReadLegacyTrusting(w) ==
    /\ WriterAt(w, "unlinked")
    /\ IF file[OldName(writer[w].id)] # Absent
       THEN WriterGoes(w, "matched") ELSE WriterDone(w)
    /\ UNCHANGED <<diskVars, scanner, owed, due>>

(* A colliding, malformed or unreadable legacy file is left alone.         *)
ReadLegacy(w) ==
    /\ WriterAt(w, "unlinked")
    /\ \/ file[OldName(writer[w].id)] = writer[w].id /\ WriterGoes(w, "matched")
       \/ /\ file[OldName(writer[w].id)] # writer[w].id \/ Fails("read")
          /\ WriterDone(w)
    /\ UNCHANGED <<diskVars, scanner, owed, due>>

UnlinkLegacy(w) ==
    /\ WriterAt(w, "matched")
    /\ \/ file' = [file EXCEPT ![OldName(writer[w].id)] = Absent]
       \/ Fails("unlink") /\ UNCHANGED file
    /\ WriterDone(w)
    /\ UNCHANGED <<aside, temp, scanner, owed, due>>

-------------------------------------------------------------------------------
(* load_pending.  Paths are visited in the order of their names, which may *)
(* be any order of the standard and the legacy names.                      *)

ScannerAt(s, where) == scanner[s].pc = where
ScannerGoes(s, where) == scanner' = [scanner EXCEPT ![s].pc = where]

OnDisk(r) == \E f \in File : file[f] = r

(* Slip: every name is listed, those of temporary files, too.              *)
ListAnyName(s) ==
    /\ ScannerAt(s, "idle")
    /\ scanner' = [scanner EXCEPT ![s].pc = "listed",
          ![s].todo = {f \in File : file[f] # Absent}
                         \cup {t \in Temp : temp[t] # Absent}]
    /\ due' = [due EXCEPT ![s] = {r \in owed \ Elsewhere : OnDisk(r)}]
    /\ UNCHANGED <<diskVars, writer, owed>>

(* Temporary files untouched for an hour are removed, those of crashed     *)
(* writers and of slow ones; then the directory is listed.                 *)
List(s) ==
    /\ ScannerAt(s, "idle")
    /\ \E old \in SUBSET Temp :
          temp' = [t \in Temp |-> IF t \in old THEN Absent ELSE temp[t]]
    /\ scanner' = [scanner EXCEPT ![s].pc = "listed",
                                  ![s].todo = {f \in File : file[f] # Absent}]
    /\ due' = [due EXCEPT ![s] = {r \in owed \ Elsewhere : OnDisk(r)}]
    /\ UNCHANGED <<file, aside, writer, owed>>

(* The loop moves on to the next path.                                     *)
NextPath(s) ==
    scanner' = [scanner EXCEPT ![s] =
        [@ EXCEPT !.pc = "listed", !.path = Absent, !.id = Absent]]

(* entries.append, if the record is of this base_url.                      *)
Append(r) == IF r \in Elsewhere THEN UNCHANGED due ELSE TakenUp(r)

ReadRecord(s) ==
    /\ ScannerAt(s, "listed")
    /\ \E f \in scanner[s].todo :
          /\ file[f] \in Reservation
          /\ scanner' = [scanner EXCEPT ![s] =
                [pc |-> "parsed", todo |-> @.todo \ {f},
                 path |-> f, id |-> file[f]]]
    /\ UNCHANGED <<diskVars, writer, owed, due>>

(* A record that cannot be read now need not be returned by this scan.     *)
ReadFails(s) ==
    /\ ScannerAt(s, "listed")
    /\ \E f \in scanner[s].todo :
          /\ file[f] \notin Reservation \/ Fails("read")
          /\ scanner' = [scanner EXCEPT ![s] =
                [pc |-> "refused", todo |-> @.todo \ {f},
                 path |-> f, id |-> Absent]]
          /\ due' = [due EXCEPT ![s] = @ \ {file[f]}]
    /\ UNCHANGED <<diskVars, writer, owed>>

(* Rename to .corrupt whatever the path holds by now.                      *)
Quarantine(s) ==
    /\ ScannerAt(s, "refused")
    /\ LET f == scanner[s].path IN
       \/ /\ file[f] # Absent
          /\ aside' = [aside EXCEPT ![f] = file[f]]
          /\ file' = [file EXCEPT ![f] = Absent]
       \/ /\ file[f] = Absent \/ Fails("rename")
          /\ UNCHANGED <<file, aside>>
    /\ NextPath(s)
    /\ UNCHANGED <<temp, writer, owed, due>>

(* A record under its standard name; or a legacy one: is there a standard  *)
(* file already?                                                           *)
Check(s) ==
    /\ ScannerAt(s, "parsed")
    /\ LET r == scanner[s].id IN
       \/ /\ scanner[s].path = Standard(r)
          /\ Append(r) /\ NextPath(s)
       \/ /\ scanner[s].path # Standard(r)
          /\ ScannerGoes(s, IF file[Standard(r)] = Absent
                            THEN "vacant" ELSE "occupied")
          /\ UNCHANGED due
    /\ UNCHANGED <<diskVars, writer, owed>>

(* Migration: rename onto the standard name, whatever is there by now.     *)
(* When the rename fails the entry is replayed all the same.               *)
Migrate(s) ==
    /\ ScannerAt(s, "vacant")
    /\ LET f == scanner[s].path  r == scanner[s].id IN
       /\ \/ /\ file[f] # Absent
             /\ file' = [file EXCEPT ![Standard(r)] = file[f], ![f] = Absent]
          \/ /\ file[f] = Absent \/ Fails("rename")
             /\ UNCHANGED file
       /\ Append(r)
    /\ NextPath(s)
    /\ UNCHANGED <<aside, temp, writer, owed>>

(* Slip: whatever the standard name holds is taken for the same record.    *)
CompareTrusting(s) ==
    /\ ScannerAt(s, "occupied")
    /\ ScannerGoes(s, "duplicate")
    /\ UNCHANGED <<diskVars, writer, owed, due>>

(* Slip: a standard file that cannot be compared ends the entry.           *)
CompareSkipping(s) ==
    /\ ScannerAt(s, "occupied")
    /\ LET r == scanner[s].id IN
       IF file[Standard(r)] = r THEN ScannerGoes(s, "duplicate") ELSE NextPath(s)
    /\ UNCHANGED <<diskVars, writer, owed, due>>

Compare(s) ==
    /\ ScannerAt(s, "occupied")
    /\ LET r == scanner[s].id IN
       \/ /\ file[Standard(r)] = r
          /\ ScannerGoes(s, "duplicate")
          /\ UNCHANGED due
       \/ /\ file[Standard(r)] # r \/ Fails("read")
          /\ Append(r) /\ NextPath(s)
    /\ UNCHANGED <<diskVars, writer, owed>>

(* The duplicate is dropped; if that fails, both are replayed.             *)
DropDuplicate(s) ==
    /\ ScannerAt(s, "duplicate")
    /\ \/ file' = [file EXCEPT ![scanner[s].path] = Absent] /\ UNCHANGED due
       \/ Fails("unlink") /\ UNCHANGED file /\ Append(scanner[s].id)
    /\ NextPath(s)
    /\ UNCHANGED <<aside, temp, writer, owed>>

(* The scan returns; the next process to use the directory scans again.    *)
Return(s) ==
    /\ ScannerAt(s, "listed") /\ scanner[s].todo = {}
    /\ scanner' = [scanner EXCEPT ![s] = IdleScanner]
    /\ due' = [due EXCEPT ![s] = {}]
    /\ UNCHANGED <<diskVars, writer, owed>>

-------------------------------------------------------------------------------
WriterStep(w) ==
    \/ \E r \in Reservation : OpenTemp(w, r) \/ UnlinkStandard(w, r)
    \/ WriteTemp(w) \/ Publish(w) \/ RecordFails(w)
    \/ ReadLegacy(w) \/ UnlinkLegacy(w)

ScannerStep(s) ==
    \/ List(s) \/ ReadRecord(s) \/ ReadFails(s) \/ Quarantine(s)
    \/ Check(s) \/ Migrate(s) \/ Compare(s) \/ DropDuplicate(s) \/ Return(s)

Next ==
    \/ \E w \in Writer : WriterStep(w)
    \/ \E s \in Scanner : ScannerStep(s)

Spec == Init /\ [][Next]_vars

-------------------------------------------------------------------------------
(* The inductive invariant: what the files, the writers and the scanners   *)
(* rely on.                                                                *)

SetAside(r) == \E f \in File : aside[f] = r

(* A file holds a record under one of the names of its id, or is mangled.  *)
FileInv ==
    /\ \A r \in Reservation : file[Standard(r)] \in {r, Bad, Absent}
    /\ \A n \in LegacyName, r \in Reservation :
          file[LegacyFile(n)] = r => Legacy[r] = n

(* What was set aside is not overwritten by anything worse.                *)
AsideInv ==
    /\ \A r \in Reservation :
          /\ aside[Standard(r)] \in {r, Bad, Absent}
          /\ aside[Standard(r)] = r => file[Standard(r)] # Bad
    /\ \A n \in LegacyName :
          aside[LegacyFile(n)] # Absent => file[LegacyFile(n)] = Absent

(* The legacy file of r can go.                                            *)
Covered(r) == r \in owed => file[Standard(r)] = r \/ aside[Standard(r)] = r

WriterOK(w) == LET r == writer[w].id  t == writer[w].tmp IN
    /\ writer[w].pc # "idle" => r \in Reservation
    /\ writer[w].pc \in {"writing", "written"} => t \in Temp
    /\ writer[w].pc \notin {"writing", "written"} => t = Absent
    /\ writer[w].pc = "written" => temp[t] \in {r, Absent}
    /\ writer[w].pc \in {"unlinked", "matched"} => Covered(r)
    /\ writer[w].pc = "matched" => file[OldName(r)] \in {r, Absent}

WriterInv ==
    /\ \A w \in Writer : WriterOK(w)
    /\ \A v, w \in Writer :
          v # w /\ writer[w].tmp \in Temp => writer[v].tmp # writer[w].tmp

ScannerOK(s) == LET r == scanner[s].id  f == scanner[s].path IN
    /\ scanner[s].pc \notin {"idle", "listed"} => f \in File
    /\ scanner[s].pc \in {"parsed", "vacant", "occupied", "duplicate"} =>
          r \in Reservation /\ file[f] \in {r, Absent}
    /\ scanner[s].pc = "parsed" => f \in {Standard(r), OldName(r)}
    /\ scanner[s].pc \in {"vacant", "occupied", "duplicate"} => f = OldName(r)
    /\ scanner[s].pc = "duplicate" => Covered(r)

ScannerInv == \A s \in Scanner : ScannerOK(s)

-------------------------------------------------------------------------------
(* Properties.                                                             *)

(* Spend that reached the disk and was not settled is still there, in a    *)
(* file that holds its record: no discard of a colliding id, migration,    *)
(* removal of a duplicate or quarantine loses it (journal.py:176-180, 231, *)
(* 243-244).                                                               *)
OwedOnDisk == \A r \in owed : OnDisk(r) \/ SetAside(r)

(* The inductive invariant behind OwedOnDisk and NoPartialRecord; it is    *)
(* what JournalFilesProofs shows every step to preserve.                   *)
JournalInv ==
    /\ TypeOK /\ FileInv /\ AsideInv /\ WriterInv /\ ScannerInv /\ OwedOnDisk

(* No process publishes another's partial write (journal.py:197-200): what *)
(* is under a standard name is complete, unless it was found mangled.      *)
NoPartialRecord ==
    [][\A r \in Reservation :
          file'[Standard(r)] = Bad => file[Standard(r)] = Bad]_vars

(* A scan returns every record of this server that was there when it       *)
(* began, unless meanwhile the record was settled, written anew, returned  *)
(* by another scan, set aside, or could not be read (journal.py:236-244).  *)
ScanFindsOwed ==
    \A s \in Scanner : ScannerAt(s, "listed") /\ scanner[s].todo = {} =>
        \A r \in due[s] : SetAside(r)

(* journal.py:243-244: "Unparseable files are renamed to *.corrupt".       *)
SetAsideIsUnparseable == \A f \in File : aside[f] \in {Bad, Absent}
===============================================================================
