------------------------- MODULE JournalFilesProofs -------------------------
(***************************************************************************)
(* Proofs about JournalFiles, for every set of reservations, file names,   *)
(* threads, processes and failing system calls.                            *)
(***************************************************************************)
EXTENDS JournalFiles, TLAPS

(* The names of files: all that the proofs need to know about them.        *)
LEMMA Names ==
    /\ \A r \in Reservation : Standard(r) \in File /\ OldName(r) \in File
    /\ \A n \in LegacyName : LegacyFile(n) \in File
    /\ \A r, q : Standard(r) = Standard(q) => r = q
    /\ \A n, m : LegacyFile(n) = LegacyFile(m) => n = m
    /\ \A r, n : Standard(r) # LegacyFile(n)
    /\ \A f \in File : \/ \E r \in Reservation : f = Standard(r)
                       \/ \E n \in LegacyName : f = LegacyFile(n)
    /\ \A r \in Reservation : Legacy[r] \in LegacyName
  BY JournalAssumption DEF Standard, LegacyFile, OldName, File

LEMMA InitInv == ASSUME Init PROVE JournalInv
  <1>1. TypeOK
    BY DEF Init, TypeOK, WriterState, IdleWriter, ScannerState, IdleScanner, Content
  <1>2. FileInv
    BY JournalAssumption DEF Init, FileInv
  <1>3. AsideInv
    BY Names, JournalAssumption DEF Init, AsideInv
  <1>4. WriterInv
    BY JournalAssumption DEF Init, WriterInv, WriterOK, IdleWriter
  <1>5. ScannerInv
    BY DEF Init, ScannerInv, ScannerOK, IdleScanner
  <1>6. OwedOnDisk
    BY DEF Init, OwedOnDisk, OnDisk
  <1> QED
    BY <1>1, <1>2, <1>3, <1>4, <1>5, <1>6 DEF JournalInv

(* A step that leaves the files and the debts alone keeps what is said of  *)
(* them, and of the writers and scanners that it leaves alone.             *)
LEMMA SameFiles ==
    ASSUME JournalInv, UNCHANGED <<file, aside, owed>>
    PROVE  /\ FileInv' /\ AsideInv' /\ OwedOnDisk'
           /\ \A q : Covered(q) <=> Covered(q)'
           /\ \A s \in Scanner : scanner'[s] = scanner[s] => ScannerOK(s)'
           /\ \A w \in Writer : /\ writer'[w] = writer[w]
                                /\ temp'[writer[w].tmp] \in {temp[writer[w].tmp], Absent}
                                => WriterOK(w)'
  BY DEF JournalInv, FileInv, AsideInv, OwedOnDisk, OnDisk, SetAside, Covered,
         ScannerInv, ScannerOK, WriterInv, WriterOK

-------------------------------------------------------------------------------
(* record and discard.                                                     *)

LEMMA OpenTempInv ==
    ASSUME JournalInv, NEW w \in Writer, NEW r \in Reservation, OpenTemp(w, r)
    PROVE  JournalInv'
  <1> USE DEF JournalInv
  <1>0. PICK t \in Temp :
           /\ \A v \in Writer : writer[v].tmp # t
           /\ temp' = [temp EXCEPT ![t] = Bad]
           /\ writer' = [writer EXCEPT ![w] = [pc |-> "writing", id |-> r, tmp |-> t]]
           /\ UNCHANGED <<file, aside, scanner, owed, due>>
    BY DEF OpenTemp, Opened
  <1>1. TypeOK'
    BY <1>0 DEF TypeOK, WriterState, Content
  <1>2. FileInv' /\ AsideInv' /\ OwedOnDisk' /\ ScannerInv'
    BY <1>0, SameFiles DEF ScannerInv
  <1>3. \A v \in Writer : WriterOK(v)'
    <2> SUFFICES ASSUME NEW v \in Writer PROVE WriterOK(v)'
      OBVIOUS
    <2>1. CASE v = w
      BY <2>1, <1>0 DEF WriterOK, TypeOK
    <2>2. CASE v # w
      <3>1. writer'[v] = writer[v] /\ temp'[writer[v].tmp] = temp[writer[v].tmp]
        BY <2>2, <1>0 DEF TypeOK
      <3> QED BY <3>1, <1>0, SameFiles
    <2> QED BY <2>1, <2>2
  <1>4. WriterInv'
    BY <1>0, <1>3 DEF WriterInv, TypeOK
  <1> QED BY <1>1, <1>2, <1>4

LEMMA WriteTempInv ==
    ASSUME JournalInv, NEW w \in Writer, WriteTemp(w)
    PROVE  JournalInv'
  <1> DEFINE r == writer[w].id
             t == writer[w].tmp
  <1> USE DEF JournalInv
  <1>0. /\ r \in Reservation /\ t \in Temp /\ writer[w].pc = "writing"
        /\ temp' = [temp EXCEPT ![t] = IF temp[t] = Absent THEN Absent ELSE r]
        /\ writer' = [writer EXCEPT ![w].pc = "written"]
        /\ UNCHANGED <<file, aside, scanner, owed, due>>
    BY DEF WriteTemp, WriterAt, WriterGoes, WriterInv, WriterOK
  <1>1. TypeOK'
    BY <1>0 DEF TypeOK, WriterState, Content
  <1>2. FileInv' /\ AsideInv' /\ OwedOnDisk' /\ ScannerInv'
    BY <1>0, SameFiles DEF ScannerInv
  <1>3. \A v \in Writer : WriterOK(v)'
    <2> SUFFICES ASSUME NEW v \in Writer PROVE WriterOK(v)'
      OBVIOUS
    <2>1. CASE v = w
      <3>1. writer'[w].id = r /\ writer'[w].tmp = t /\ writer'[w].pc = "written"
        BY <1>0 DEF TypeOK, WriterState
      <3>2. temp'[t] \in {r, Absent}
        BY <1>0 DEF TypeOK
      <3> QED BY <2>1, <3>1, <3>2, <1>0 DEF WriterOK
    <2>2. CASE v # w
      <3>1. writer'[v] = writer[v] /\ temp'[writer[v].tmp] = temp[writer[v].tmp]
        BY <2>2, <1>0 DEF TypeOK, WriterInv
      <3> QED BY <3>1, <1>0, SameFiles
    <2> QED BY <2>1, <2>2
  <1>4. WriterInv'
    BY <1>0, <1>3 DEF WriterInv, TypeOK, WriterState
  <1> QED BY <1>1, <1>2, <1>4

LEMMA PublishInv ==
    ASSUME JournalInv, NEW w \in Writer, Publish(w)
    PROVE  JournalInv'
  <1> DEFINE r == writer[w].id
             t == writer[w].tmp
  <1> USE DEF JournalInv
  <1>0. /\ r \in Reservation /\ t \in Temp /\ temp[t] = r
        /\ file' = [file EXCEPT ![Standard(r)] = r]
        /\ temp' = [temp EXCEPT ![t] = Absent]
        /\ owed' = owed \cup {r}
        /\ due' = [s \in Scanner |-> due[s] \ {r}]
        /\ writer' = [writer EXCEPT ![w] = IdleWriter]
        /\ UNCHANGED <<aside, scanner>>
    BY DEF Publish, WriterAt, WriterDone, WriterInv, WriterOK, TakenUp
  <1>1. TypeOK'
    BY <1>0 DEF TypeOK, WriterState, Content, IdleWriter
  <1>2. FileInv'
    BY <1>0, Names DEF FileInv, TypeOK
  <1>3. AsideInv'
    BY <1>0, Names, JournalAssumption DEF AsideInv, TypeOK
  <1>4. \A q : Covered(q) => Covered(q)'
    BY <1>0, Names DEF Covered, TypeOK
  <1>5. \A v \in Writer : WriterOK(v)'
    <2> SUFFICES ASSUME NEW v \in Writer PROVE WriterOK(v)'
      OBVIOUS
    <2>1. CASE v = w
      BY <2>1, <1>0 DEF WriterOK, TypeOK, IdleWriter
    <2>2. CASE v # w
      <3>1. writer'[v] = writer[v] /\ temp'[writer[v].tmp] = temp[writer[v].tmp]
        BY <2>2, <1>0 DEF TypeOK, WriterInv
      <3>2. \A n : file'[LegacyFile(n)] = file[LegacyFile(n)]
        BY <1>0, Names DEF TypeOK
      <3> QED BY <3>1, <3>2, <1>4 DEF WriterInv, WriterOK, OldName
    <2> QED BY <2>1, <2>2
  <1>6. WriterInv'
    BY <1>0, <1>5, JournalAssumption DEF WriterInv, TypeOK, WriterState, IdleWriter
  <1>7. ScannerInv'
    <2> SUFFICES ASSUME NEW s \in Scanner PROVE ScannerOK(s)'
      BY DEF ScannerInv
    <2>1. ASSUME NEW f \in File, NEW q \in Reservation, file[f] \in {q, Absent},
                 f \in {Standard(q), OldName(q)}
          PROVE  file'[f] \in {q, Absent}
      BY <2>1, <1>0, Names DEF TypeOK, OldName
    <2> QED BY <2>1, <1>0, <1>4 DEF ScannerInv, ScannerOK
  <1>8. OwedOnDisk'
    <2> SUFFICES ASSUME NEW q \in owed' PROVE (OnDisk(q) \/ SetAside(q))'
      BY DEF OwedOnDisk
    <2>1. CASE q = r
      BY <2>1, <1>0, Names DEF OnDisk, TypeOK
    <2>2. CASE q # r
      BY <2>2, <1>0, Names, JournalAssumption
         DEF OwedOnDisk, OnDisk, SetAside, FileInv, TypeOK
    <2> QED BY <2>1, <2>2
  <1> QED BY <1>1, <1>2, <1>3, <1>6, <1>7, <1>8

LEMMA RecordFailsInv ==
    ASSUME JournalInv, NEW w \in Writer, RecordFails(w)
    PROVE  JournalInv'
  <1> DEFINE t == writer[w].tmp
  <1> USE DEF JournalInv
  <1>0. /\ t \in Temp
        /\ temp' = [temp EXCEPT ![t] = Absent] \/ temp' = temp
        /\ writer' = [writer EXCEPT ![w] = IdleWriter]
        /\ UNCHANGED <<file, aside, scanner, owed, due>>
    BY DEF RecordFails, WriterAt, WriterDone, WriterInv, WriterOK
  <1>1. TypeOK'
    BY <1>0 DEF TypeOK, WriterState, Content, IdleWriter
  <1>2. FileInv' /\ AsideInv' /\ OwedOnDisk' /\ ScannerInv'
    BY <1>0, SameFiles DEF ScannerInv
  <1>3. \A v \in Writer : WriterOK(v)'
    <2> SUFFICES ASSUME NEW v \in Writer PROVE WriterOK(v)'
      OBVIOUS
    <2>1. CASE v = w
      BY <2>1, <1>0 DEF WriterOK, TypeOK, IdleWriter
    <2>2. CASE v # w
      <3>1. writer'[v] = writer[v] /\ writer[v].tmp # t
        BY <2>2, <1>0 DEF TypeOK, WriterInv
      <3>2. temp'[writer[v].tmp] = temp[writer[v].tmp]
        <4>1. CASE temp' = temp
          BY <4>1
        <4>2. CASE temp' = [temp EXCEPT ![t] = Absent]
          BY <4>2, <3>1 DEF TypeOK
        <4> QED BY <4>1, <4>2, <1>0
      <3> QED BY <3>1, <3>2, <1>0, SameFiles
    <2> QED BY <2>1, <2>2
  <1>4. WriterInv'
    BY <1>0, <1>3, JournalAssumption DEF WriterInv, TypeOK, WriterState, IdleWriter
  <1> QED BY <1>1, <1>2, <1>4

(* What is left to show of a step of w that opens no temporary file.       *)
LEMMA WriterStepInv ==
    ASSUME JournalInv, NEW w \in Writer,
           WriterOK(w)', writer'[w].tmp = Absent,
           \A v \in Writer \ {w} : writer'[v] = writer[v] /\ WriterOK(v)'
    PROVE  WriterInv'
  BY JournalAssumption DEF JournalInv, WriterInv, TypeOK

LEMMA UnlinkStandardInv ==
    ASSUME JournalInv, NEW w \in Writer, NEW r \in Reservation, UnlinkStandard(w, r)
    PROVE  JournalInv'
  <1> USE DEF JournalInv
  <1>0. /\ \/ /\ file' = [file EXCEPT ![Standard(r)] = Absent]
              /\ writer' = [writer EXCEPT ![w] =
                    [pc |-> "unlinked", id |-> r, tmp |-> Absent]]
           \/ file' = file /\ writer' = writer
        /\ writer[w].pc = "idle"
        /\ owed' = owed \ {r}
        /\ due' = [s \in Scanner |-> due[s] \ {r}]
        /\ UNCHANGED <<aside, temp, scanner>>
    BY DEF UnlinkStandard, WriterAt, TakenUp
  <1>1. TypeOK'
    BY <1>0 DEF TypeOK, WriterState, Content
  <1>2. FileInv'
    BY <1>0, Names, JournalAssumption DEF FileInv, TypeOK
  <1>3. AsideInv'
    BY <1>0, Names, JournalAssumption DEF AsideInv, TypeOK
  <1>4. \A q : Covered(q) => Covered(q)'
    BY <1>0, Names DEF Covered, TypeOK
  <1>5. \A f \in File, q \in Reservation : file[f] \in {q, Absent} => file'[f] \in {q, Absent}
    BY <1>0 DEF TypeOK
  <1>6. \A v \in Writer : WriterOK(v)'
    <2> SUFFICES ASSUME NEW v \in Writer PROVE WriterOK(v)'
      OBVIOUS
    <2>1. CASE v = w /\ writer' # writer
      BY <2>1, <1>0 DEF WriterOK, TypeOK, Covered
    <2>2. CASE writer'[v] = writer[v]
      BY <2>2, <1>0, <1>4, <1>5, Names DEF WriterInv, WriterOK
    <2> QED BY <2>1, <2>2, <1>0 DEF TypeOK
  <1>7. WriterInv'
    BY <1>0, <1>6, JournalAssumption DEF WriterInv, TypeOK, WriterState
  <1>8. ScannerInv'
    BY <1>0, <1>4, <1>5 DEF ScannerInv, ScannerOK
  <1>9. OwedOnDisk'
    BY <1>0, Names, JournalAssumption
       DEF OwedOnDisk, OnDisk, SetAside, FileInv, TypeOK
  <1> QED BY <1>1, <1>2, <1>3, <1>7, <1>8, <1>9

LEMMA ReadLegacyInv ==
    ASSUME JournalInv, NEW w \in Writer, ReadLegacy(w)
    PROVE  JournalInv'
  <1> DEFINE r == writer[w].id
  <1> USE DEF JournalInv
  <1>0. /\ r \in Reservation /\ writer[w].tmp = Absent /\ Covered(r)
        /\ \/ /\ file[OldName(r)] = r
              /\ writer' = [writer EXCEPT ![w].pc = "matched"]
           \/ writer' = [writer EXCEPT ![w] = IdleWriter]
        /\ UNCHANGED <<diskVars, scanner, owed, due>>
    BY DEF ReadLegacy, WriterAt, WriterGoes, WriterDone, WriterInv, WriterOK
  <1>1. TypeOK'
    BY <1>0 DEF TypeOK, WriterState, IdleWriter, diskVars
  <1>2. FileInv' /\ AsideInv' /\ OwedOnDisk' /\ ScannerInv'
    BY <1>0, SameFiles DEF ScannerInv, diskVars
  <1>3. WriterOK(w)' /\ writer'[w].tmp = Absent
    <2>1. CASE writer' = [writer EXCEPT ![w] = IdleWriter]
      BY <2>1, <1>0 DEF WriterOK, TypeOK, IdleWriter
    <2>2. CASE file[OldName(r)] = r /\ writer' = [writer EXCEPT ![w].pc = "matched"]
      <3>1. writer'[w] = [pc |-> "matched", id |-> r, tmp |-> Absent]
        BY <2>2, <1>0 DEF TypeOK, WriterState
      <3> QED BY <3>1, <2>2, <1>0, SameFiles DEF WriterOK, diskVars
    <2> QED BY <2>1, <2>2, <1>0
  <1>4. \A v \in Writer \ {w} : writer'[v] = writer[v] /\ WriterOK(v)'
    BY <1>0, SameFiles DEF TypeOK, diskVars
  <1> QED BY <1>1, <1>2, <1>3, <1>4, WriterStepInv

(* A file of an older release is removed, and its record is covered.       *)
LEMMA LegacyRemoved ==
    ASSUME JournalInv, NEW r \in Reservation, Covered(r),
           file[OldName(r)] \in {r, Absent},
           file' = [file EXCEPT ![OldName(r)] = Absent],
           UNCHANGED <<aside, owed>>
    PROVE  /\ FileInv' /\ AsideInv' /\ OwedOnDisk'
           /\ \A q : Covered(q) => Covered(q)'
           /\ \A f \in File, q \in Reservation : file[f] \in {q, Absent} => file'[f] \in {q, Absent}
  <1> USE DEF JournalInv
  <1>1. FileInv'
    BY Names, JournalAssumption DEF FileInv, TypeOK, OldName
  <1>2. AsideInv'
    BY Names, JournalAssumption DEF AsideInv, TypeOK, OldName
  <1>3. \A q : Covered(q) => Covered(q)'
    BY Names DEF Covered, TypeOK, OldName
  <1>4. \A f \in File, q \in Reservation : file[f] \in {q, Absent} => file'[f] \in {q, Absent}
    BY DEF TypeOK
  <1>5. OwedOnDisk'
    <2> SUFFICES ASSUME NEW q \in owed' PROVE (OnDisk(q) \/ SetAside(q))'
      BY DEF OwedOnDisk
    <2>1. CASE q = r
      BY <2>1, Names DEF Covered, OnDisk, SetAside, TypeOK, OldName
    <2>2. CASE q # r
      BY <2>2, Names, JournalAssumption DEF OwedOnDisk, OnDisk, SetAside, TypeOK
    <2> QED BY <2>1, <2>2
  <1> QED BY <1>1, <1>2, <1>3, <1>4, <1>5

LEMMA UnlinkLegacyInv ==
    ASSUME JournalInv, NEW w \in Writer, UnlinkLegacy(w)
    PROVE  JournalInv'
  <1> DEFINE r == writer[w].id
  <1> USE DEF JournalInv
  <1>0. /\ r \in Reservation /\ Covered(r) /\ file[OldName(r)] \in {r, Absent}
        /\ file' = [file EXCEPT ![OldName(r)] = Absent] \/ file' = file
        /\ writer' = [writer EXCEPT ![w] = IdleWriter]
        /\ UNCHANGED <<aside, temp, scanner, owed, due>>
    BY DEF UnlinkLegacy, WriterAt, WriterDone, WriterInv, WriterOK
  <1>1. TypeOK'
    BY <1>0 DEF TypeOK, WriterState, Content, IdleWriter
  <1>2. /\ FileInv' /\ AsideInv' /\ OwedOnDisk'
        /\ \A q : Covered(q) => Covered(q)'
        /\ \A f \in File, q \in Reservation : file[f] \in {q, Absent} => file'[f] \in {q, Absent}
    <2>1. CASE file' = file
      BY <2>1, <1>0, SameFiles
    <2>2. CASE file' = [file EXCEPT ![OldName(r)] = Absent]
      BY <2>2, <1>0, LegacyRemoved
    <2> QED BY <2>1, <2>2, <1>0
  <1>3. ScannerInv'
    BY <1>0, <1>2 DEF ScannerInv, ScannerOK
  <1>4. WriterOK(w)' /\ writer'[w].tmp = Absent
    BY <1>0 DEF WriterOK, TypeOK, IdleWriter
  <1>5. \A v \in Writer \ {w} : writer'[v] = writer[v] /\ WriterOK(v)'
    BY <1>0, <1>2, Names DEF TypeOK, WriterInv, WriterOK
  <1> QED BY <1>1, <1>2, <1>3, <1>4, <1>5, WriterStepInv
-------------------------------------------------------------------------------
(* load_pending.                                                           *)

(* What is left to show of a step of s that touches no file.               *)
LEMMA ScannerStepInv ==
    ASSUME JournalInv, NEW s \in Scanner, NEW u, ScannerOK(s)',
           scanner' = [scanner EXCEPT ![s] = u], u \in ScannerState,
           due' \in [Scanner -> SUBSET Reservation],
           UNCHANGED <<file, aside, writer, owed>>,
           temp' \in [Temp -> Content],
           \A t \in Temp : temp'[t] \in {temp[t], Absent}
    PROVE  JournalInv'
  <1> USE DEF JournalInv
  <1>1. TypeOK'
    BY DEF TypeOK
  <1>2. FileInv' /\ AsideInv' /\ OwedOnDisk'
    BY SameFiles
  <1>3. \A v \in Writer : WriterOK(v)'
    BY SameFiles DEF WriterInv, WriterOK, TypeOK, Covered
  <1>4. WriterInv'
    BY <1>3 DEF WriterInv
  <1>5. ScannerInv'
    BY SameFiles DEF ScannerInv, TypeOK
  <1> QED BY <1>1, <1>2, <1>4, <1>5

LEMMA ListInv ==
    ASSUME JournalInv, NEW s \in Scanner, List(s)
    PROVE  JournalInv'
  <1> DEFINE u == [scanner[s] EXCEPT !.pc = "listed",
                                     !.todo = {f \in File : file[f] # Absent}]
  <1> USE DEF JournalInv
  <1>1. scanner' = [scanner EXCEPT ![s] = u]
    BY DEF List
  <1>2. u \in ScannerState /\ u.pc = "listed"
    BY DEF TypeOK, ScannerState
  <1>3. ScannerOK(s)'
    BY <1>1, <1>2 DEF ScannerOK, TypeOK
  <1>4. /\ temp' \in [Temp -> Content]
        /\ \A t \in Temp : temp'[t] \in {temp[t], Absent}
    BY DEF List, TypeOK, Content
  <1>5. due' \in [Scanner -> SUBSET Reservation]
    BY DEF List, TypeOK
  <1>6. UNCHANGED <<file, aside, writer, owed>>
    BY DEF List
  <1> QED BY <1>1, <1>2, <1>3, <1>4, <1>5, <1>6, ScannerStepInv

LEMMA ReadRecordInv ==
    ASSUME JournalInv, NEW s \in Scanner, ReadRecord(s)
    PROVE  JournalInv'
  <1> USE DEF JournalInv
  <1>0. PICK f \in scanner[s].todo :
           /\ file[f] \in Reservation
           /\ scanner' = [scanner EXCEPT ![s] =
                 [pc |-> "parsed", todo |-> scanner[s].todo \ {f},
                  path |-> f, id |-> file[f]]]
    BY DEF ReadRecord
  <1> DEFINE u == [pc |-> "parsed", todo |-> scanner[s].todo \ {f},
                   path |-> f, id |-> file[f]]
  <1>1. f \in File
    BY <1>0 DEF TypeOK, ScannerState
  <1>2. u \in ScannerState
    BY <1>0, <1>1 DEF TypeOK, ScannerState
  <1>3. f \in {Standard(file[f]), OldName(file[f])}
    BY <1>0, <1>1, Names, JournalAssumption DEF FileInv, OldName
  <1>4. UNCHANGED <<file, aside, temp, writer, owed, due>>
    BY DEF ReadRecord, diskVars
  <1>5. ScannerOK(s)'
    BY <1>0, <1>1, <1>3, <1>4 DEF ScannerOK, TypeOK
  <1>6. /\ temp' \in [Temp -> Content]
        /\ \A t \in Temp : temp'[t] \in {temp[t], Absent}
        /\ due' \in [Scanner -> SUBSET Reservation]
    BY <1>4 DEF TypeOK
  <1> QED BY <1>0, <1>2, <1>4, <1>5, <1>6, ScannerStepInv

LEMMA ReadFailsInv ==
    ASSUME JournalInv, NEW s \in Scanner, ReadFails(s)
    PROVE  JournalInv'
  <1> USE DEF JournalInv
  <1>0. PICK f \in scanner[s].todo :
           /\ scanner' = [scanner EXCEPT ![s] =
                 [pc |-> "refused", todo |-> scanner[s].todo \ {f},
                  path |-> f, id |-> Absent]]
           /\ due' = [due EXCEPT ![s] = due[s] \ {file[f]}]
    BY DEF ReadFails
  <1> DEFINE u == [pc |-> "refused", todo |-> scanner[s].todo \ {f},
                   path |-> f, id |-> Absent]
  <1>1. f \in File
    BY <1>0 DEF TypeOK, ScannerState
  <1>2. u \in ScannerState
    BY <1>0, <1>1 DEF TypeOK, ScannerState
  <1>3. UNCHANGED <<file, aside, temp, writer, owed>>
    BY DEF ReadFails, diskVars
  <1>4. ScannerOK(s)'
    BY <1>0, <1>1 DEF ScannerOK, TypeOK
  <1>5. /\ temp' \in [Temp -> Content]
        /\ \A t \in Temp : temp'[t] \in {temp[t], Absent}
        /\ due' \in [Scanner -> SUBSET Reservation]
    BY <1>0, <1>3 DEF TypeOK
  <1> QED BY <1>0, <1>2, <1>3, <1>4, <1>5, ScannerStepInv

(* The loop's own bookkeeping: the next path, and what was returned.       *)
LEMMA NextPathOK ==
    ASSUME JournalInv, NEW s \in Scanner, NextPath(s)
    PROVE  /\ scanner' \in [Scanner -> ScannerState]
           /\ ScannerOK(s)'
           /\ \A q \in Scanner \ {s} : scanner'[q] = scanner[q]
           /\ \E u \in ScannerState : scanner' = [scanner EXCEPT ![s] = u]
  <1> DEFINE u == [scanner[s] EXCEPT !.pc = "listed", !.path = Absent, !.id = Absent]
  <1>1. u \in ScannerState /\ u.pc = "listed"
    BY DEF JournalInv, TypeOK, ScannerState
  <1>2. scanner' = [scanner EXCEPT ![s] = u]
    BY DEF NextPath
  <1>3. scanner'[s].pc = "listed"
    BY <1>1, <1>2 DEF JournalInv, TypeOK
  <1>4. ScannerOK(s)'
    BY <1>3 DEF ScannerOK
  <1> QED BY <1>1, <1>2, <1>4 DEF JournalInv, TypeOK

LEMMA AppendOK ==
    ASSUME JournalInv, NEW r, Append(r)
    PROVE  due' \in [Scanner -> SUBSET Reservation]
  BY DEF JournalInv, TypeOK, Append, TakenUp

LEMMA CheckInv ==
    ASSUME JournalInv, NEW s \in Scanner, Check(s)
    PROVE  JournalInv'
  <1> DEFINE r == scanner[s].id
             f == scanner[s].path
  <1> USE DEF JournalInv
  <1>0. UNCHANGED <<file, aside, temp, writer, owed>>
    BY DEF Check, diskVars
  <1>1. /\ temp' \in [Temp -> Content]
        /\ \A t \in Temp : temp'[t] \in {temp[t], Absent}
    BY <1>0 DEF TypeOK
  <1>2. CASE Append(r) /\ NextPath(s)
    BY <1>2, <1>0, <1>1, NextPathOK, AppendOK, ScannerStepInv
  <1>3. CASE /\ f # Standard(r)
             /\ \E where \in {"vacant", "occupied"} : ScannerGoes(s, where)
             /\ UNCHANGED due
    <2>1. PICK where \in {"vacant", "occupied"} :
             scanner' = [scanner EXCEPT ![s].pc = where]
      BY <1>3 DEF ScannerGoes
    <2> DEFINE u == [scanner[s] EXCEPT !.pc = where]
    <2>2. u \in ScannerState /\ scanner' = [scanner EXCEPT ![s] = u]
      BY <2>1 DEF TypeOK, ScannerState
    <2>3. scanner'[s] = u /\ u.pc = where /\ u.id = r /\ u.path = f
      BY <2>2 DEF TypeOK, ScannerState
    <2>4. ScannerOK(s)'
      BY <2>3, <1>0, <1>3 DEF Check, ScannerAt, ScannerInv, ScannerOK
    <2>5. due' \in [Scanner -> SUBSET Reservation]
      BY <1>3 DEF TypeOK
    <2> QED BY <2>2, <2>4, <2>5, <1>0, <1>1, ScannerStepInv
  <1> QED BY <1>2, <1>3 DEF Check

LEMMA CompareInv ==
    ASSUME JournalInv, NEW s \in Scanner, Compare(s)
    PROVE  JournalInv'
  <1> DEFINE r == scanner[s].id
             f == scanner[s].path
  <1> USE DEF JournalInv
  <1>0. UNCHANGED <<file, aside, temp, writer, owed>>
    BY DEF Compare, diskVars
  <1>1. /\ temp' \in [Temp -> Content]
        /\ \A t \in Temp : temp'[t] \in {temp[t], Absent}
    BY <1>0 DEF TypeOK
  <1>2. CASE Append(r) /\ NextPath(s)
    BY <1>2, <1>0, <1>1, NextPathOK, AppendOK, ScannerStepInv
  <1>3. CASE file[Standard(r)] = r /\ ScannerGoes(s, "duplicate") /\ UNCHANGED due
    <2> DEFINE u == [scanner[s] EXCEPT !.pc = "duplicate"]
    <2>1. u \in ScannerState /\ scanner' = [scanner EXCEPT ![s] = u]
      BY <1>3 DEF TypeOK, ScannerState, ScannerGoes
    <2>2. scanner'[s] = u /\ u.pc = "duplicate" /\ u.id = r /\ u.path = f
      BY <2>1 DEF TypeOK, ScannerState
    <2>3. ScannerOK(s)'
      BY <2>2, <1>0, <1>3 DEF Compare, ScannerAt, ScannerInv, ScannerOK, Covered
    <2>4. due' \in [Scanner -> SUBSET Reservation]
      BY <1>3 DEF TypeOK
    <2> QED BY <2>1, <2>3, <2>4, <1>0, <1>1, ScannerStepInv
  <1> QED BY <1>2, <1>3 DEF Compare

LEMMA ReturnInv ==
    ASSUME JournalInv, NEW s \in Scanner, Return(s)
    PROVE  JournalInv'
  <1> USE DEF JournalInv
  <1>0. /\ UNCHANGED <<file, aside, temp, writer, owed>>
        /\ scanner' = [scanner EXCEPT ![s] = IdleScanner]
        /\ due' \in [Scanner -> SUBSET Reservation]
    BY DEF Return, diskVars, TypeOK
  <1>1. /\ temp' \in [Temp -> Content]
        /\ \A t \in Temp : temp'[t] \in {temp[t], Absent}
    BY <1>0 DEF TypeOK
  <1>2. IdleScanner \in ScannerState /\ ScannerOK(s)'
    BY <1>0 DEF IdleScanner, ScannerState, ScannerOK, TypeOK
  <1> QED BY <1>0, <1>1, <1>2, ScannerStepInv
(* What is left to show of a step of s that changes a file.                *)
LEMMA FileStepInv ==
    ASSUME JournalInv, NEW s \in Scanner, NextPath(s),
           file' \in [File -> Content], aside' \in [File -> Content],
           due' \in [Scanner -> SUBSET Reservation],
           FileInv', AsideInv', OwedOnDisk',
           \A q : Covered(q) => Covered(q)',
           \A f \in File, q \in Reservation :
              file[f] \in {q, Absent} /\ f \in {Standard(q), OldName(q)}
                 => file'[f] \in {q, Absent},
           UNCHANGED <<temp, writer, owed>>
    PROVE  JournalInv'
  <1> USE DEF JournalInv
  <1>1. TypeOK'
    BY NextPathOK DEF TypeOK
  <1>2. \A v \in Writer : WriterOK(v)'
    BY Names DEF WriterInv, WriterOK
  <1>3. WriterInv'
    BY <1>2 DEF WriterInv
  <1>4. \A q \in Scanner \ {s} : ScannerOK(q)'
    <2> SUFFICES ASSUME NEW q \in Scanner \ {s} PROVE ScannerOK(q)'
      OBVIOUS
    <2>1. scanner'[q] = scanner[q] /\ ScannerOK(q)
      BY NextPathOK DEF ScannerInv
    <2> QED BY <2>1 DEF ScannerOK
  <1>5. ScannerInv'
    BY <1>4, NextPathOK DEF ScannerInv
  <1> QED BY <1>1, <1>3, <1>5

LEMMA QuarantineInv ==
    ASSUME JournalInv, NEW s \in Scanner, Quarantine(s)
    PROVE  JournalInv'
  <1> DEFINE f == scanner[s].path
  <1> USE DEF JournalInv
  <1>0. /\ f \in File /\ NextPath(s) /\ UNCHANGED <<temp, writer, owed, due>>
        /\ \/ /\ file[f] # Absent
              /\ aside' = [aside EXCEPT ![f] = file[f]]
              /\ file' = [file EXCEPT ![f] = Absent]
           \/ UNCHANGED <<file, aside>>
    BY DEF Quarantine, ScannerAt, ScannerInv, ScannerOK
  <1>1. CASE UNCHANGED <<file, aside>>
    <2>1. FileInv' /\ AsideInv' /\ OwedOnDisk' /\ \A q : Covered(q) => Covered(q)'
      BY <1>0, <1>1, SameFiles
    <2> QED BY <2>1, <1>0, <1>1, FileStepInv DEF TypeOK
  <1>2. CASE /\ file[f] # Absent
             /\ aside' = [aside EXCEPT ![f] = file[f]]
             /\ file' = [file EXCEPT ![f] = Absent]
    <2>1. file' \in [File -> Content] /\ aside' \in [File -> Content]
      BY <1>0, <1>2 DEF TypeOK, Content
    <2>2. FileInv'
      BY <1>0, <1>2, Names, JournalAssumption DEF FileInv, TypeOK
    <2>3. AsideInv'
      BY <1>0, <1>2, Names, JournalAssumption DEF AsideInv, FileInv, TypeOK
    <2>4. \A q : Covered(q) => Covered(q)'
      <3> SUFFICES ASSUME NEW q, Covered(q), q \in owed PROVE Covered(q)'
        BY <1>0 DEF Covered
      <3>0. q \in Reservation /\ Standard(q) \in File
        BY Names DEF TypeOK
      <3>1. CASE f = Standard(q)
        <4>1. file[f] \in {q, Bad}
          BY <3>0, <3>1, <1>2 DEF FileInv
        <4>2. file[f] = q
          BY <4>1, <3>0, <3>1, JournalAssumption DEF Covered, AsideInv
        <4> QED BY <4>2, <3>0, <3>1, <1>0, <1>2 DEF Covered, TypeOK
      <3>2. CASE f # Standard(q)
        BY <3>0, <3>2, <1>0, <1>2 DEF Covered, TypeOK
      <3> QED BY <3>1, <3>2
    <2>5. OwedOnDisk'
      <3> SUFFICES ASSUME NEW q \in owed PROVE (OnDisk(q) \/ SetAside(q))'
        BY <1>0 DEF OwedOnDisk
      <3>1. CASE file[f] = q
        BY <3>1, <1>0, <1>2 DEF SetAside, TypeOK
      <3>2. CASE \E g \in File \ {f} : file[g] = q
        BY <3>2, <1>0, <1>2 DEF OnDisk, TypeOK
      <3>3. CASE \E g \in File \ {f} : aside[g] = q
        BY <3>3, <1>0, <1>2 DEF SetAside, TypeOK
      <3>4. CASE aside[f] = q /\ file[f] # q
        <4>0. q \in Reservation /\ aside[f] # Absent
          BY <3>4, JournalAssumption DEF TypeOK
        <4>1. ASSUME NEW n \in LegacyName, f = LegacyFile(n) PROVE FALSE
          BY <4>0, <4>1, <1>2 DEF AsideInv
        <4>2. PICK r \in Reservation : f = Standard(r)
          BY <4>1, <1>0, Names
        <4>3. file[f] \in {r, Bad}
          BY <4>2, <1>2 DEF FileInv
        <4>4. q # r
          BY <4>2, <4>3, <3>4 DEF AsideInv
        <4>5. aside[Standard(r)] \in {r, Bad, Absent}
          BY DEF AsideInv
        <4> QED BY <4>0, <4>2, <4>4, <4>5, <3>4, JournalAssumption
      <3> QED BY <3>1, <3>2, <3>3, <3>4 DEF OwedOnDisk, OnDisk, SetAside
    <2>6. \A g \in File, q \in Reservation :
             file[g] \in {q, Absent} => file'[g] \in {q, Absent}
      BY <1>0, <1>2 DEF TypeOK
    <2> QED BY <2>1, <2>2, <2>3, <2>4, <2>5, <2>6, <1>0, FileStepInv DEF TypeOK
  <1> QED BY <1>0, <1>1, <1>2

LEMMA MigrateInv ==
    ASSUME JournalInv, NEW s \in Scanner, Migrate(s)
    PROVE  JournalInv'
  <1> DEFINE r == scanner[s].id
             f == scanner[s].path
  <1> USE DEF JournalInv
  <1>0. /\ r \in Reservation /\ f = OldName(r) /\ file[f] \in {r, Absent}
        /\ NextPath(s) /\ Append(r) /\ UNCHANGED <<aside, temp, writer, owed>>
        /\ \/ /\ file[f] = r
              /\ file' = [file EXCEPT ![Standard(r)] = r, ![f] = Absent]
           \/ file' = file
    BY DEF Migrate, ScannerAt, ScannerInv, ScannerOK
  <1>1. due' \in [Scanner -> SUBSET Reservation]
    BY <1>0, AppendOK
  <1>2. CASE file' = file
    <2>1. FileInv' /\ AsideInv' /\ OwedOnDisk' /\ \A q : Covered(q) => Covered(q)'
      BY <1>0, <1>2, SameFiles
    <2> QED BY <2>1, <1>0, <1>1, <1>2, FileStepInv DEF TypeOK
  <1>3. CASE file[f] = r /\ file' = [file EXCEPT ![Standard(r)] = r, ![f] = Absent]
    <2>0. /\ f \in File /\ Standard(r) \in File /\ f # Standard(r)
          /\ file'[Standard(r)] = r /\ file'[f] = Absent
          /\ \A g \in File \ {f, Standard(r)} : file'[g] = file[g]
      BY <1>0, <1>3, Names DEF TypeOK, OldName
    <2>1. file' \in [File -> Content]
      BY <1>0, <1>3 DEF TypeOK, Content
    <2>2. FileInv'
      BY <2>0, <1>0, Names, JournalAssumption DEF FileInv, OldName
    <2>3. AsideInv'
      BY <2>0, <1>0, Names, JournalAssumption DEF AsideInv, OldName
    <2>4. \A q : Covered(q) => Covered(q)'
      <3> SUFFICES ASSUME NEW q, Covered(q), q \in owed PROVE Covered(q)'
        BY <1>0 DEF Covered
      <3>1. q \in Reservation /\ Standard(q) \in File /\ f # Standard(q)
        BY <1>0, Names DEF TypeOK, OldName
      <3> QED BY <3>1, <2>0, <1>0, Names DEF Covered
    <2>5. OwedOnDisk'
      <3> SUFFICES ASSUME NEW q \in owed PROVE (OnDisk(q) \/ SetAside(q))'
        BY <1>0 DEF OwedOnDisk
      <3>1. CASE q = r
        BY <3>1, <2>0 DEF OnDisk
      <3>2. CASE q # r
        BY <3>2, <2>0, <1>0, <1>3, JournalAssumption
           DEF OwedOnDisk, OnDisk, SetAside, FileInv, TypeOK
      <3> QED BY <3>1, <3>2
    <2>6. \A g \in File, q \in Reservation :
             file[g] \in {q, Absent} /\ g \in {Standard(q), OldName(q)}
                => file'[g] \in {q, Absent}
      BY <2>0, Names DEF OldName
    <2>7. aside' \in [File -> Content]
      BY <1>0 DEF TypeOK
    <2> QED BY <2>1, <2>2, <2>3, <2>4, <2>5, <2>6, <2>7, <1>0, <1>1, FileStepInv
  <1> QED BY <1>0, <1>2, <1>3

LEMMA DropDuplicateInv ==
    ASSUME JournalInv, NEW s \in Scanner, DropDuplicate(s)
    PROVE  JournalInv'
  <1> DEFINE r == scanner[s].id
             f == scanner[s].path
  <1> USE DEF JournalInv
  <1>0. /\ r \in Reservation /\ f = OldName(r) /\ file[f] \in {r, Absent}
        /\ Covered(r) /\ NextPath(s) /\ UNCHANGED <<aside, temp, writer, owed>>
        /\ \/ file' = [file EXCEPT ![OldName(r)] = Absent] /\ UNCHANGED due
           \/ file' = file /\ Append(r)
    BY DEF DropDuplicate, ScannerAt, ScannerInv, ScannerOK
  <1>1. due' \in [Scanner -> SUBSET Reservation]
    BY <1>0, AppendOK DEF TypeOK
  <1>2. file' \in [File -> Content] /\ aside' \in [File -> Content]
    BY <1>0 DEF TypeOK, Content
  <1>3. CASE file' = file
    <2>1. FileInv' /\ AsideInv' /\ OwedOnDisk' /\ \A q : Covered(q) => Covered(q)'
      BY <1>0, <1>3, SameFiles
    <2> QED BY <2>1, <1>0, <1>1, <1>2, <1>3, FileStepInv
  <1>4. CASE file' = [file EXCEPT ![OldName(r)] = Absent]
    <2>1. /\ FileInv' /\ AsideInv' /\ OwedOnDisk'
          /\ \A q : Covered(q) => Covered(q)'
          /\ \A g \in File, q \in Reservation :
                file[g] \in {q, Absent} => file'[g] \in {q, Absent}
      BY <1>0, <1>4, LegacyRemoved
    <2> QED BY <2>1, <1>0, <1>1, <1>2, FileStepInv
  <1> QED BY <1>0, <1>3, <1>4

-------------------------------------------------------------------------------
LEMMA WriterInduction ==
    ASSUME JournalInv, NEW w \in Writer, WriterStep(w)
    PROVE  JournalInv'
  BY OpenTempInv, UnlinkStandardInv, WriteTempInv, PublishInv, RecordFailsInv,
     ReadLegacyInv, UnlinkLegacyInv DEF WriterStep

LEMMA ScannerInduction ==
    ASSUME JournalInv, NEW s \in Scanner, ScannerStep(s)
    PROVE  JournalInv'
  BY ListInv, ReadRecordInv, ReadFailsInv, QuarantineInv, CheckInv, MigrateInv,
     CompareInv, DropDuplicateInv, ReturnInv DEF ScannerStep

LEMMA StutterInv == ASSUME JournalInv, UNCHANGED vars PROVE JournalInv'
  <1> USE DEF JournalInv, vars
  <1>1. TypeOK'
    BY DEF TypeOK
  <1>2. FileInv' /\ AsideInv' /\ OwedOnDisk'
    BY SameFiles
  <1>3. WriterInv' /\ ScannerInv'
    BY DEF WriterInv, WriterOK, ScannerInv, ScannerOK, Covered
  <1> QED BY <1>1, <1>2, <1>3

(* The inductive invariant of the journal's files holds whatever threads   *)
(* and processes do to them, and whatever system calls fail.               *)
THEOREM JournalInvariance == Spec => []JournalInv
  <1>1. Init => JournalInv
    BY InitInv
  <1>2. JournalInv /\ [Next]_vars => JournalInv'
    BY WriterInduction, ScannerInduction, StutterInv DEF Next
  <1> QED BY <1>1, <1>2, PTL DEF Spec

(* Files, writers and scanners keep their types.                           *)
THEOREM JournalTypeCorrect == Spec => []TypeOK
  <1>1. JournalInv => TypeOK
    BY DEF JournalInv
  <1> QED BY <1>1, JournalInvariance, PTL

(* A record that was complete on disk and is not settled is still in some  *)
(* file, for any number of concurrent writers and scans.                   *)
THEOREM OwedStaysOnDisk == Spec => []OwedOnDisk
  <1>1. JournalInv => OwedOnDisk
    BY DEF JournalInv
  <1> QED BY <1>1, JournalInvariance, PTL

(* A standard name never comes to hold a partial record.                   *)
LEMMA StepPublishesWhole ==
    ASSUME JournalInv, JournalInv', [Next]_vars, NEW r \in Reservation,
           file'[Standard(r)] = Bad
    PROVE  file[Standard(r)] = Bad
  <1> USE DEF JournalInv
  <1>1. ASSUME NEW w \in Writer, Publish(w) PROVE FALSE \/ file[Standard(r)] = Bad
    BY <1>1, Names, JournalAssumption
       DEF Publish, WriterAt, WriterInv, WriterOK, TypeOK
  <1>2. ASSUME NEW f \in File, file' = [file EXCEPT ![f] = Absent]
        PROVE  file[Standard(r)] = Bad
    BY <1>2, JournalAssumption, Names DEF TypeOK
  <1>3. CASE file' = file
    BY <1>3
  <1>4. ASSUME NEW s \in Scanner, Migrate(s), file' # file
        PROVE  file[Standard(r)] = Bad
    <2> DEFINE q == scanner[s].id
               f == scanner[s].path
    <2>1. /\ q \in Reservation /\ f = OldName(q)
          /\ file' = [file EXCEPT ![Standard(q)] = q, ![f] = Absent]
      BY <1>4 DEF Migrate, ScannerAt, ScannerInv, ScannerOK
    <2> QED BY <2>1, Names, JournalAssumption DEF TypeOK, OldName
  <1>5. ASSUME NEW w \in Writer, WriterStep(w) PROVE file[Standard(r)] = Bad
    <2>1. ASSUME NEW q \in Reservation, UnlinkStandard(w, q)
          PROVE  file[Standard(r)] = Bad
      BY <2>1, <1>2, <1>3, Names DEF UnlinkStandard
    <2>2. CASE UnlinkLegacy(w)
      <3>1. writer[w].id \in Reservation
        BY <2>2 DEF UnlinkLegacy, WriterAt, WriterInv, WriterOK
      <3> QED BY <3>1, <2>2, <1>2, <1>3, Names DEF UnlinkLegacy
    <2>3. CASE RecordFails(w)
      BY <2>3, <1>3 DEF RecordFails
    <2>4. ASSUME NEW q \in Reservation, OpenTemp(w, q) PROVE file[Standard(r)] = Bad
      BY <2>4, <1>3 DEF OpenTemp
    <2>5. CASE WriteTemp(w) \/ ReadLegacy(w)
      BY <2>5, <1>3 DEF WriteTemp, ReadLegacy, diskVars
    <2> QED BY <1>1, <1>5, <2>1, <2>2, <2>3, <2>4, <2>5 DEF WriterStep
  <1>6. ASSUME NEW s \in Scanner, ScannerStep(s) PROVE file[Standard(r)] = Bad
    <2>1. CASE Quarantine(s)
      BY <2>1, <1>2, <1>3 DEF Quarantine, ScannerAt, ScannerInv, ScannerOK
    <2>2. CASE Migrate(s)
      BY <2>2, <1>3, <1>4
    <2>3. CASE DropDuplicate(s)
      BY <2>3, <1>2, <1>3, Names DEF DropDuplicate, ScannerAt, ScannerInv, ScannerOK
    <2>4. CASE \/ List(s) \/ ReadRecord(s) \/ ReadFails(s) \/ Check(s)
               \/ Compare(s) \/ Return(s)
      BY <2>4, <1>3 DEF List, ReadRecord, ReadFails, Check, Compare, Return, diskVars
    <2> QED BY <1>6, <2>1, <2>2, <2>3, <2>4 DEF ScannerStep
  <1> QED BY <1>3, <1>5, <1>6 DEF Next, vars

THEOREM NoPartialPublished == Spec => NoPartialRecord
  <1>1. JournalInv /\ JournalInv' /\ [Next]_vars =>
           [\A r \in Reservation :
               file'[Standard(r)] = Bad => file[Standard(r)] = Bad]_vars
    BY StepPublishesWhole
  <1> QED BY <1>1, JournalInvariance, PTL DEF Spec, NoPartialRecord

-------------------------------------------------------------------------------
(* What a scan still has to return.  The record is set aside, in a file    *)
(* that the scan has still to visit, or in hand; and a standard file that  *)
(* holds it is still to be visited, so that its legacy file can go.        *)
InHand(s, r) ==
    /\ scanner[s].pc \in {"parsed", "vacant", "occupied", "duplicate"}
    /\ scanner[s].id = r

Ahead(s, r) ==
    \/ Standard(r) \in scanner[s].todo
    \/ scanner[s].pc = "parsed" /\ scanner[s].path = Standard(r)

Pending(s, r) ==
    /\ \/ SetAside(r)
       \/ \E f \in scanner[s].todo : file[f] = r
       \/ InHand(s, r)
    /\ file[Standard(r)] = r => Ahead(s, r)

(* An idle scan owes nothing, the others what is owed to this server.      *)
DueInv ==
    /\ \A s \in Scanner : due[s] \subseteq owed \ Elsewhere
    /\ \A s \in Scanner : scanner[s].pc = "idle" => due[s] = {}
    /\ \A s \in Scanner, r \in Reservation : r \in due[s] => Pending(s, r)

(* What a step does to the files of a record that it does not return,      *)
(* settle or write: it may move the record aside, or remove a legacy file  *)
(* beside its standard one.                                                *)
FilesKeep(r) ==
    /\ SetAside(r) => SetAside(r)'
    /\ file'[Standard(r)] = r => file[Standard(r)] = r
    /\ \A f \in File : file[f] = r =>
          file'[f] = r \/ SetAside(r)' \/ file'[Standard(r)] = r

LEMMA SameFilesKeep ==
    ASSUME UNCHANGED <<file, aside>>, NEW r
    PROVE  FilesKeep(r)
  BY DEF FilesKeep, SetAside

(* A covered legacy file goes.                                             *)
LEMMA RemovedKeeps ==
    ASSUME JournalInv, NEW q \in Reservation, Covered(q),
           file[OldName(q)] \in {q, Absent},
           file' = [file EXCEPT ![OldName(q)] = Absent], UNCHANGED aside,
           NEW r \in owed
    PROVE  FilesKeep(r)
  <1>0. /\ r \in Reservation /\ OldName(q) # Standard(r) /\ Standard(r) \in File
        /\ OldName(q) \in File
    BY Names DEF JournalInv, TypeOK, OldName
  <1>1. \A g \in File \ {OldName(q)} : file'[g] = file[g]
    BY <1>0 DEF JournalInv, TypeOK
  <1>2. SetAside(r) => SetAside(r)'
    BY DEF SetAside
  <1>3. ASSUME file[OldName(q)] = r
        PROVE  SetAside(r)' \/ file'[Standard(r)] = r
    <2>1. r = q
      BY <1>3, <1>0, JournalAssumption
    <2> QED BY <2>1, <1>0, <1>1 DEF Covered, SetAside
  <1> QED BY <1>0, <1>1, <1>2, <1>3 DEF FilesKeep

LEMMA WriterKeeps ==
    ASSUME JournalInv, NEW w \in Writer, WriterStep(w),
           NEW s \in Scanner, NEW r \in due'[s], r \in owed, due[s] \subseteq owed
    PROVE  FilesKeep(r) /\ r \in due[s] /\ r \in owed' /\ scanner' = scanner
  <1>0. r \in Reservation
    BY DEF JournalInv, TypeOK
  <1>1. ASSUME NEW q \in Reservation, OpenTemp(w, q)
        PROVE  FilesKeep(r) /\ r \in due[s] /\ r \in owed' /\ scanner' = scanner
    BY <1>1, SameFilesKeep DEF OpenTemp
  <1>2. ASSUME NEW q \in Reservation, UnlinkStandard(w, q)
        PROVE  FilesKeep(r) /\ r \in due[s] /\ r \in owed' /\ scanner' = scanner
    <2>1. /\ r # q /\ r \in due[s] /\ r \in owed' /\ scanner' = scanner
          /\ file' = [file EXCEPT ![Standard(q)] = Absent] \/ file' = file
          /\ aside' = aside
      BY <1>2 DEF UnlinkStandard, TakenUp
    <2>2. CASE file' = file
      BY <2>1, <2>2, SameFilesKeep
    <2>3. CASE file' = [file EXCEPT ![Standard(q)] = Absent]
      <3>1. Standard(r) # Standard(q) /\ Standard(q) \in File /\ file[Standard(q)] # r
        BY <1>0, <2>1, Names, JournalAssumption DEF JournalInv, FileInv
      <3> QED BY <3>1, <2>1, <2>3 DEF FilesKeep, SetAside, JournalInv, TypeOK
    <2> QED BY <2>1, <2>2, <2>3
  <1>3. CASE WriteTemp(w) \/ RecordFails(w) \/ ReadLegacy(w)
    BY <1>3, SameFilesKeep DEF WriteTemp, RecordFails, ReadLegacy, diskVars
  <1>4. CASE Publish(w)
    <2> DEFINE q == writer[w].id
    <2>1. /\ q \in Reservation /\ r # q /\ r \in due[s] /\ r \in owed'
          /\ scanner' = scanner /\ aside' = aside
          /\ file' = [file EXCEPT ![Standard(q)] = q]
      BY <1>4 DEF Publish, TakenUp, WriterAt, JournalInv, WriterInv, WriterOK
    <2>2. Standard(r) # Standard(q) /\ Standard(q) \in File /\ file[Standard(q)] # r
      BY <1>0, <2>1, Names, JournalAssumption DEF JournalInv, FileInv
    <2> QED BY <2>1, <2>2 DEF FilesKeep, SetAside, JournalInv, TypeOK
  <1>5. CASE UnlinkLegacy(w)
    <2> DEFINE q == writer[w].id
    <2>1. /\ q \in Reservation /\ Covered(q) /\ file[OldName(q)] \in {q, Absent}
          /\ file' = [file EXCEPT ![OldName(q)] = Absent] \/ file' = file
          /\ UNCHANGED <<aside, temp, scanner, owed, due>>
      BY <1>5 DEF UnlinkLegacy, WriterAt, JournalInv, WriterInv, WriterOK
    <2> QED BY <2>1, SameFilesKeep, RemovedKeeps
  <1> QED BY <1>1, <1>2, <1>3, <1>4, <1>5 DEF WriterStep

(* Steps of others leave what a scan has to return where it finds it.      *)
LEMMA OthersKeepPending ==
    ASSUME JournalInv, NEW s \in Scanner, NEW r \in Reservation, Pending(s, r),
           FilesKeep(r), scanner'[s] = scanner[s]
    PROVE  Pending(s, r)'
  <1>1. scanner[s].todo \subseteq File
    BY DEF JournalInv, TypeOK, ScannerState
  <1>2. (file[Standard(r)] = r => Ahead(s, r)) /\ (Ahead(s, r) <=> Ahead(s, r)')
    BY DEF Pending, Ahead
  <1>3. file'[Standard(r)] = r => Ahead(s, r)'
    BY <1>2 DEF FilesKeep
  <1>4. InHand(s, r) => InHand(s, r)'
    BY DEF InHand
  <1>5. ASSUME file'[Standard(r)] = r
        PROVE  (\E f \in scanner'[s].todo : file'[f] = r) \/ InHand(s, r)'
    <2>1. CASE Standard(r) \in scanner[s].todo
      BY <2>1, <1>5
    <2>2. CASE scanner[s].pc = "parsed" /\ scanner[s].path = Standard(r)
      <3>1. file[Standard(r)] = r
        BY <1>5 DEF FilesKeep
      <3>2. scanner[s].id = r
        BY <2>2, <3>1, JournalAssumption DEF JournalInv, ScannerInv, ScannerOK
      <3> QED BY <2>2, <3>2 DEF InHand
    <2> QED BY <1>2, <1>3, <1>5, <2>1, <2>2 DEF Ahead
  <1> QED BY <1>1, <1>3, <1>4, <1>5 DEF Pending, FilesKeep

(* The files, seen by a record that a scanner's step does not return.      *)
LEMMA QuarantineKeeps ==
    ASSUME JournalInv, NEW s \in Scanner, Quarantine(s), NEW r \in Reservation
    PROVE  FilesKeep(r)
  <1> DEFINE f == scanner[s].path
  <1> USE DEF JournalInv
  <1>0. /\ f \in File
        /\ \/ /\ file[f] # Absent
              /\ aside' = [aside EXCEPT ![f] = file[f]]
              /\ file' = [file EXCEPT ![f] = Absent]
           \/ UNCHANGED <<file, aside>>
    BY DEF Quarantine, ScannerAt, ScannerInv, ScannerOK
  <1>1. CASE UNCHANGED <<file, aside>>
    BY <1>1, SameFilesKeep
  <1>2. CASE /\ file[f] # Absent
             /\ aside' = [aside EXCEPT ![f] = file[f]]
             /\ file' = [file EXCEPT ![f] = Absent]
    <2>1. ASSUME aside[f] = r PROVE file[f] = r
      <3>1. \A n \in LegacyName : f # LegacyFile(n)
        BY <2>1, <1>2, JournalAssumption DEF AsideInv
      <3>2. PICK q \in Reservation : f = Standard(q)
        BY <3>1, <1>0, Names
      <3>3. q = r
        BY <3>2, <2>1, JournalAssumption DEF AsideInv
      <3> QED BY <3>2, <3>3, <2>1, <1>2 DEF AsideInv, FileInv
    <2>2. SetAside(r) => SetAside(r)'
      BY <2>1, <1>0, <1>2 DEF SetAside, TypeOK
    <2>3. \A g \in File : file[g] = r => file'[g] = r \/ SetAside(r)'
      BY <1>0, <1>2 DEF SetAside, TypeOK
    <2>4. file'[Standard(r)] = r => file[Standard(r)] = r
      BY <1>0, <1>2, Names, JournalAssumption DEF TypeOK
    <2> QED BY <2>2, <2>3, <2>4 DEF FilesKeep
  <1> QED BY <1>0, <1>1, <1>2

LEMMA MigrateKeeps ==
    ASSUME JournalInv, NEW s \in Scanner, Migrate(s),
           NEW r \in Reservation, r # scanner[s].id
    PROVE  FilesKeep(r)
  <1> DEFINE q == scanner[s].id
             f == scanner[s].path
  <1> USE DEF JournalInv
  <1>0. /\ q \in Reservation /\ f = OldName(q) /\ file[f] \in {q, Absent}
        /\ aside' = aside
        /\ \/ /\ file[f] = q
              /\ file' = [file EXCEPT ![Standard(q)] = q, ![f] = Absent]
           \/ file' = file
    BY DEF Migrate, ScannerAt, ScannerInv, ScannerOK
  <1>1. CASE file' = file
    BY <1>0, <1>1, SameFilesKeep
  <1>2. CASE file' = [file EXCEPT ![Standard(q)] = q, ![f] = Absent]
    <2>1. /\ f \in File /\ Standard(q) \in File /\ Standard(r) \in File
          /\ Standard(r) \notin {f, Standard(q)}
          /\ file[f] # r /\ file[Standard(q)] # r
      BY <1>0, Names, JournalAssumption DEF FileInv, OldName
    <2> QED BY <2>1, <1>0, <1>2 DEF FilesKeep, SetAside, TypeOK
  <1> QED BY <1>0, <1>1, <1>2

(* The loop moves on, and the record in hand was returned, or is not one   *)
(* that the scan has still to return.                                      *)
LEMMA NextPathPending ==
    ASSUME JournalInv, NEW s \in Scanner, NEW r \in Reservation, Pending(s, r),
           FilesKeep(r), NextPath(s), scanner[s].pc \notin {"idle", "listed"},
           scanner[s].pc \in {"parsed", "vacant", "occupied", "duplicate"} =>
              scanner[s].id # r
    PROVE  Pending(s, r)'
  <1>1. /\ scanner'[s].todo = scanner[s].todo
        /\ scanner[s].todo \subseteq File
    BY DEF NextPath, JournalInv, TypeOK, ScannerState
  <1>2. SetAside(r) \/ \E f \in scanner[s].todo : file[f] = r
    BY DEF Pending, InHand
  <1>3. file[Standard(r)] = r => Standard(r) \in scanner[s].todo
    BY JournalAssumption DEF Pending, Ahead, JournalInv, ScannerInv, ScannerOK
  <1> QED BY <1>1, <1>2, <1>3 DEF Pending, FilesKeep, Ahead

(* A step of the scan itself keeps what it has still to return.            *)
LEMMA ScanKeeps ==
    ASSUME JournalInv, DueInv, NEW s \in Scanner, ScannerStep(s),
           NEW r \in due'[s], scanner'[s].pc # "idle", ~List(s)
    PROVE  Pending(s, r)' /\ FilesKeep(r) /\ r \in due[s]
  <1> DEFINE q == scanner[s].id
  <1> USE DEF JournalInv
  <1>0. ASSUME r \in due[s]
        PROVE  /\ r \in Reservation /\ r \in owed /\ r \notin Elsewhere
               /\ Pending(s, r)
    BY <1>0 DEF DueInv, TypeOK
  <1>1. ASSUME Append(q), NextPath(s), FilesKeep(r),
               scanner[s].pc \notin {"idle", "listed"}
        PROVE  Pending(s, r)' /\ r \in due[s]
    <2>1. r \in due[s] /\ r # q
      BY <1>0, <1>1 DEF Append, TakenUp
    <2> QED BY <2>1, <1>0, <1>1, NextPathPending
  <1>2. CASE ReadRecord(s)
    <2>0. r \in due[s]
      BY <1>2 DEF ReadRecord
    <2>1. PICK f \in scanner[s].todo :
             /\ scanner[s].pc = "listed"
             /\ file[f] \in Reservation
             /\ scanner' = [scanner EXCEPT ![s] =
                   [pc |-> "parsed", todo |-> scanner[s].todo \ {f},
                    path |-> f, id |-> file[f]]]
             /\ UNCHANGED <<file, aside>>
      BY <1>2 DEF ReadRecord, ScannerAt, diskVars
    <2>2. /\ scanner'[s].pc = "parsed" /\ scanner'[s].todo = scanner[s].todo \ {f}
          /\ scanner'[s].path = f /\ scanner'[s].id = file[f]
      BY <2>1 DEF TypeOK
    <2> QED BY <2>0, <2>1, <2>2, <1>0, SameFilesKeep
            DEF Pending, Ahead, InHand, SetAside
  <1>3. CASE ReadFails(s)
    <2>1. PICK f \in scanner[s].todo :
             /\ scanner[s].pc = "listed"
             /\ scanner' = [scanner EXCEPT ![s] =
                   [pc |-> "refused", todo |-> scanner[s].todo \ {f},
                    path |-> f, id |-> Absent]]
             /\ due' = [due EXCEPT ![s] = due[s] \ {file[f]}]
             /\ UNCHANGED <<file, aside>>
      BY <1>3 DEF ReadFails, ScannerAt, diskVars
    <2>2. scanner'[s].todo = scanner[s].todo \ {f} /\ r \in due[s] /\ r # file[f]
      BY <2>1 DEF TypeOK
    <2> QED BY <2>1, <2>2, <1>0, SameFilesKeep
            DEF Pending, Ahead, InHand, SetAside
  <1>4. CASE Quarantine(s)
    <2>1. /\ r \in due[s] /\ NextPath(s) /\ scanner[s].pc = "refused"
      BY <1>4 DEF Quarantine, ScannerAt
    <2> QED BY <2>1, <1>0, <1>4, QuarantineKeeps, NextPathPending
  <1>5. CASE Check(s)
    <2>0. /\ UNCHANGED <<file, aside>> /\ scanner[s].pc = "parsed"
          /\ FilesKeep(r)
      BY <1>5, SameFilesKeep DEF Check, ScannerAt, diskVars
    <2>1. CASE Append(q) /\ NextPath(s)
      BY <2>0, <2>1, <1>1
    <2>2. CASE /\ scanner[s].path # Standard(q)
               /\ ScannerGoes(s, IF file[Standard(q)] = Absent
                                 THEN "vacant" ELSE "occupied")
               /\ UNCHANGED due
      <3>1. /\ scanner'[s].pc \in {"vacant", "occupied"}
            /\ scanner'[s].id = q /\ scanner'[s].todo = scanner[s].todo
        BY <2>2 DEF ScannerGoes, TypeOK, ScannerState
      <3>2. scanner[s].path # Standard(r) /\ r \in due[s]
        BY <2>0, <2>2, <1>0, Names DEF ScannerInv, ScannerOK, OldName
      <3> QED BY <3>1, <3>2, <2>0, <1>0 DEF Pending, Ahead, InHand, SetAside
    <2> QED BY <2>1, <2>2, <1>5 DEF Check
  <1>6. CASE Migrate(s)
    <2>1. /\ Append(q) /\ NextPath(s) /\ scanner[s].pc = "vacant"
      BY <1>6 DEF Migrate, ScannerAt
    <2>2. r \in due[s] /\ r # q
      BY <2>1, <1>0 DEF Append, TakenUp, DueInv
    <2> QED BY <2>1, <2>2, <1>0, <1>1, <1>6, MigrateKeeps
  <1>7. CASE Compare(s)
    <2>0. /\ UNCHANGED <<file, aside>> /\ scanner[s].pc = "occupied"
          /\ FilesKeep(r)
      BY <1>7, SameFilesKeep DEF Compare, ScannerAt, diskVars
    <2>1. CASE Append(q) /\ NextPath(s)
      BY <2>0, <2>1, <1>1
    <2>2. CASE ScannerGoes(s, "duplicate") /\ UNCHANGED due
      <3>1. /\ scanner'[s].pc = "duplicate"
            /\ scanner'[s].id = q /\ scanner'[s].todo = scanner[s].todo
        BY <2>2 DEF ScannerGoes, TypeOK, ScannerState
      <3> QED BY <3>1, <2>0, <2>2, <1>0 DEF Pending, Ahead, InHand, SetAside
    <2> QED BY <2>1, <2>2, <1>7 DEF Compare
  <1>8. CASE DropDuplicate(s)
    <2>0. /\ NextPath(s) /\ scanner[s].pc = "duplicate" /\ aside' = aside
          /\ q \in Reservation /\ Covered(q) /\ scanner[s].path = OldName(q)
          /\ file[OldName(q)] \in {q, Absent}
      BY <1>8 DEF DropDuplicate, ScannerAt, ScannerInv, ScannerOK
    <2>1. CASE file' = file /\ Append(q)
      BY <2>0, <2>1, <1>1, SameFilesKeep
    <2>2. CASE file' = [file EXCEPT ![OldName(q)] = Absent] /\ UNCHANGED due
      <3>1. r \in due[s] /\ FilesKeep(r)
        BY <2>0, <2>2, <1>0, RemovedKeeps
      <3>2. CASE r # q
        BY <3>1, <3>2, <2>0, <1>0, NextPathPending
      <3>3. CASE r = q
        <4>1. SetAside(r) \/ file[Standard(r)] = r
          BY <3>1, <3>3, <2>0, <1>0, Names DEF Covered, SetAside
        <4>2. file[Standard(r)] = r =>
                 Standard(r) \in scanner[s].todo /\ file'[Standard(r)] = r
          BY <3>1, <3>3, <2>0, <2>2, <1>0, Names
             DEF Pending, Ahead, TypeOK, OldName
        <4>3. scanner'[s].todo = scanner[s].todo
          BY <2>0 DEF NextPath, TypeOK, ScannerState
        <4> QED BY <3>1, <4>1, <4>2, <4>3 DEF Pending, Ahead, FilesKeep
      <3> QED BY <3>1, <3>2, <3>3
    <2> QED BY <2>0, <2>1, <2>2, <1>8 DEF DropDuplicate
  <1>9. CASE Return(s)
    BY <1>9 DEF Return, IdleScanner, TypeOK
  <1> QED BY <1>2, <1>3, <1>4, <1>5, <1>6, <1>7, <1>8, <1>9 DEF ScannerStep

LEMMA NextPathIsListed ==
    ASSUME JournalInv, NEW s \in Scanner, NextPath(s)
    PROVE  scanner'[s].pc = "listed"
  BY DEF JournalInv, TypeOK, ScannerState, NextPath

(* A scan that begins has all it owes to return in the files it lists.     *)
LEMMA ListOwes ==
    ASSUME JournalInv, NEW s \in Scanner, List(s), NEW r \in due'[s]
    PROVE  Pending(s, r)' /\ r \in owed \ Elsewhere
  <1> USE DEF JournalInv
  <1>1. /\ due'[s] = {q \in owed \ Elsewhere : OnDisk(q)}
        /\ scanner'[s].todo = {f \in File : file[f] # Absent}
        /\ UNCHANGED <<file, aside>>
    BY DEF List, TypeOK, ScannerState
  <1>2. r \in Reservation /\ r # Absent /\ Standard(r) \in File
    BY <1>1, Names, JournalAssumption DEF TypeOK
  <1> QED BY <1>1, <1>2 DEF Pending, Ahead, OnDisk

(* The scans that a step of s does not concern.                            *)
LEMMA OtherScans ==
    ASSUME JournalInv, DueInv, NEW s \in Scanner, ScannerStep(s),
           NEW t \in Scanner \ {s}
    PROVE  /\ scanner'[t] = scanner[t] /\ due'[t] \subseteq due[t]
           /\ \A r \in due'[t] : FilesKeep(r)
  <1> USE DEF JournalInv
  <1>1. CASE \/ List(s) \/ ReadRecord(s) \/ ReadFails(s) \/ Return(s)
    BY <1>1, SameFilesKeep
       DEF List, ReadRecord, ReadFails, Return, diskVars, TypeOK
  <1>2. ASSUME NextPath(s) PROVE scanner'[t] = scanner[t]
    BY <1>2, NextPathOK
  <1>3. ASSUME NEW r, Append(r) PROVE due'[t] \subseteq due[t]
    BY <1>3 DEF Append, TakenUp
  <1>4. CASE Quarantine(s)
    BY <1>2, <1>4, QuarantineKeeps DEF Quarantine, TypeOK
  <1>5. CASE Check(s) \/ Compare(s)
    BY <1>2, <1>3, <1>5, SameFilesKeep
       DEF Check, Compare, ScannerGoes, diskVars, TypeOK
  <1>6. CASE Migrate(s)
    <2>1. Append(scanner[s].id) /\ NextPath(s)
      BY <1>6 DEF Migrate
    <2>2. \A r \in due'[t] : r \in Reservation /\ r # scanner[s].id
      BY <2>1 DEF Append, TakenUp, DueInv, TypeOK
    <2> QED BY <2>1, <2>2, <1>2, <1>3, <1>6, MigrateKeeps
  <1>7. CASE DropDuplicate(s)
    <2> DEFINE q == scanner[s].id
    <2>1. /\ NextPath(s) /\ aside' = aside
          /\ q \in Reservation /\ Covered(q) /\ file[OldName(q)] \in {q, Absent}
          /\ \/ file' = [file EXCEPT ![OldName(q)] = Absent] /\ UNCHANGED due
             \/ file' = file /\ Append(q)
      BY <1>7 DEF DropDuplicate, ScannerAt, ScannerInv, ScannerOK
    <2>2. due'[t] \subseteq due[t] /\ due[t] \subseteq owed
      BY <2>1, <1>3 DEF DueInv
    <2> QED BY <2>1, <2>2, <1>2, RemovedKeeps, SameFilesKeep
  <1> QED BY <1>1, <1>4, <1>5, <1>6, <1>7 DEF ScannerStep

LEMMA DueInduction ==
    ASSUME JournalInv, DueInv, [Next]_vars
    PROVE  DueInv'
  <1> USE DEF JournalInv
  <1>1. ASSUME NEW w \in Writer, WriterStep(w) PROVE DueInv'
    <2>1. ASSUME NEW s \in Scanner, NEW r \in due'[s]
          PROVE  /\ FilesKeep(r) /\ r \in due[s] /\ r \in owed' /\ scanner' = scanner
                 /\ r \in Reservation /\ r \notin Elsewhere
      <3>1. due[s] \subseteq owed /\ due[s] \subseteq Reservation
        BY DEF DueInv, TypeOK
      <3>2. due'[s] \subseteq due[s]
        BY <1>1 DEF WriterStep, OpenTemp, WriteTemp, Publish, RecordFails,
                    UnlinkStandard, ReadLegacy, UnlinkLegacy, TakenUp
      <3> QED BY <1>1, <3>1, <3>2, WriterKeeps DEF DueInv
    <2>2. \A s \in Scanner : scanner[s].pc = "idle" => due[s] = {}
      BY DEF DueInv
    <2>3. \A s \in Scanner, r \in Reservation : r \in due'[s] => Pending(s, r)'
      BY <2>1, OthersKeepPending DEF DueInv
    <2>4. scanner' = scanner
      BY <1>1 DEF WriterStep, OpenTemp, WriteTemp, Publish, RecordFails,
                  UnlinkStandard, ReadLegacy, UnlinkLegacy, diskVars
    <2> QED BY <2>1, <2>2, <2>3, <2>4 DEF DueInv
  <1>2. ASSUME NEW s \in Scanner, ScannerStep(s) PROVE DueInv'
    <2>0. owed' = owed
      BY <1>2 DEF ScannerStep, List, ReadRecord, ReadFails, Quarantine, Check,
                  Migrate, Compare, DropDuplicate, Return
    <2>1. ASSUME NEW t \in Scanner \ {s}
          PROVE  /\ due'[t] \subseteq owed \ Elsewhere
                 /\ scanner'[t].pc = "idle" => due'[t] = {}
                 /\ \A r \in Reservation : r \in due'[t] => Pending(t, r)'
      <3>1. /\ scanner'[t] = scanner[t] /\ due'[t] \subseteq due[t]
            /\ \A r \in due'[t] : FilesKeep(r)
        BY <1>2, OtherScans
      <3> QED BY <3>1, OthersKeepPending DEF DueInv
    <2>2. /\ due'[s] \subseteq owed \ Elsewhere
          /\ scanner'[s].pc = "idle" => due'[s] = {}
          /\ \A r \in Reservation : r \in due'[s] => Pending(s, r)'
      <3>1. CASE List(s)
        <4>1. scanner'[s].pc = "listed"
          BY <3>1 DEF List, TypeOK, ScannerState
        <4> QED BY <3>1, <4>1, ListOwes
      <3>2. CASE scanner'[s].pc = "idle"
        <4>1. ASSUME NextPath(s) PROVE FALSE
          BY <3>2, <4>1, NextPathIsListed
        <4>2. ASSUME NEW where \in {"vacant", "occupied", "duplicate"},
                     ScannerGoes(s, where)
              PROVE  FALSE
          BY <3>2, <4>2 DEF ScannerGoes, TypeOK, ScannerState
        <4>3. ASSUME List(s) \/ ReadRecord(s) \/ ReadFails(s) PROVE FALSE
          BY <3>2, <4>3 DEF List, ReadRecord, ReadFails, TypeOK, ScannerState
        <4>4. ASSUME Quarantine(s) \/ Migrate(s) \/ DropDuplicate(s) PROVE FALSE
          BY <4>1, <4>4 DEF Quarantine, Migrate, DropDuplicate
        <4>5. ASSUME Check(s) \/ Compare(s) PROVE FALSE
          BY <4>1, <4>2, <4>5 DEF Check, Compare
        <4>6. Return(s)
          BY <1>2, <4>3, <4>4, <4>5 DEF ScannerStep
        <4> QED BY <4>6 DEF Return, TypeOK
      <3>3. CASE ~List(s) /\ scanner'[s].pc # "idle"
        BY <1>2, <3>3, ScanKeeps DEF DueInv
      <3> QED BY <3>1, <3>2, <3>3
    <2> QED BY <2>0, <2>1, <2>2 DEF DueInv
  <1>3. CASE UNCHANGED vars
    BY <1>3 DEF vars, DueInv, Pending, Ahead, InHand, SetAside
  <1> QED BY <1>1, <1>2, <1>3 DEF Next

(* Every scan, whatever other scans and writers do meanwhile, returns each *)
(* record of this server that it found owed when it began, unless that was *)
(* settled, written anew, returned by another scan, set aside or unreadable *)
(* (journal.py:236-244).                                                   *)
THEOREM ScanReturnsOwed == Spec => []ScanFindsOwed
  <1>1. Init => DueInv
    BY DEF Init, DueInv, IdleScanner
  <1>2. JournalInv /\ DueInv /\ [Next]_vars => DueInv'
    BY DueInduction
  <1>3. JournalInv /\ DueInv => ScanFindsOwed
    BY DEF JournalInv, TypeOK, DueInv, Pending, InHand, ScanFindsOwed, ScannerAt
  <1> QED BY <1>1, <1>2, <1>3, JournalInvariance, PTL DEF Spec
===============================================================================
