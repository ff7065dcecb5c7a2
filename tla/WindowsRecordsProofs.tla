------------------------ MODULE WindowsRecordsProofs -----------------------
(***************************************************************************)
(* For every number of parts and of values and every bound on the          *)
(* generations: a reader of the Windows credential store returns no mix of *)
(* two saves, no entry is lost, and what a call reports is true.           *)
(***************************************************************************)
EXTENDS WindowsRecords, TLAPS

Roots == [val : Values \cup {Nil}, gen : Nat]

WrTypeOK ==
  /\ root \in Roots
  /\ parts \subseteq Nat \X Numbers
  /\ pending \subseteq Nat
  /\ last \in Nat
  /\ writer \in [pc : WriterSteps, op : Values \cup {Nil}, gen : Nat,
                 result : {"none", "ok", "error"}, before : Roots]
  /\ reader \in [pc : {"idle", "root", "parts", "check"}, root : Roots, got : Nat, tries : Nat,
                 result : {"none", "value", "invalid"}, val : Values \cup {Nil},
                 seen : SUBSET (Values \cup {Nil}), races : Nat]

(* Generations are drawn once: everything that exists has one that was     *)
(* drawn, and the one a save writes is newer than any that was published   *)
(* or read.                                                                *)
Drawn ==
  /\ root.gen <= last /\ reader.root.gen <= last
  /\ \A p \in parts : p[1] > 0 /\ p[1] <= last

Writing == writer.pc \in {"parts", "publish"}

Fresh ==
  Writing =>
    /\ root.gen # 0 => root.gen \in pending
    /\ IF writer.op \in Large
       THEN /\ writer.gen = last /\ last > 0 /\ last \in pending
            /\ root.gen < last /\ reader.root.gen < last
       ELSE writer.gen = 0 /\ writer.pc = "publish"

Progress ==
  /\ WriterAt("begin") => pending = {}
  /\ WriterAt("publish") /\ writer.op \in Large => \A n \in Numbers : <<writer.gen, n>> \in parts
  /\ WriterAt("finish") => root.val = writer.op /\ root.gen = writer.gen
                           /\ (writer.op = Nil => writer.gen = 0)
  /\ writer.pc \in {"prepare", "begin", "parts", "publish", "undo"} => root = writer.before

Attempt ==
  ~ReaderAt("idle") =>
    /\ reader.tries < Attempts /\ reader.tries <= reader.races /\ reader.races <= Attempts
    /\ root.val \in reader.seen
    /\ reader.pc \in {"parts", "check"} =>
         /\ reader.root.val \in reader.seen /\ reader.root.gen # 0 /\ reader.got < Parts
         /\ root = reader.root \/ reader.races > reader.tries
    /\ ReaderAt("check") => root.gen # reader.root.gen

WrInv ==
  /\ WrTypeOK /\ Drawn /\ Fresh /\ Progress /\ Attempt
  /\ RootIsWhole /\ NothingOrphaned /\ ResultIsTrue /\ LoadIsCurrent

-----------------------------------------------------------------------------
(* The proofs. *)

(* A call that has not begun, and no load, satisfy the invariant. *)
LEMMA InitInv == WrInit => WrInv
  BY PartsAssumption, ValuesAssumption
  DEF WrInit, WrInv, WrTypeOK, Drawn, Fresh, Writing, Progress, Attempt, RootIsWhole, NothingOrphaned,
      ResultIsTrue, LoadIsCurrent, IdleWriter, IdleReader, NoRecord, Roots, Values, WriterSteps,
      WriterAt, ReaderAt, Numbers, Attempts

(* A call begins. *)
LEMMA CallWriterInv == ASSUME WrInv, NEW v \in Values \cup {Nil}, CallWriter(v) PROVE WrInv'
  <1> USE PartsAssumption, ValuesAssumption
      DEF WrInv, CallWriter, WriterAt, ReaderAt, Attempts
  <1>1. WrTypeOK'
    BY DEF WrTypeOK, WriterSteps
  <1>2. Drawn' /\ Fresh'
    BY <1>1 DEF WrTypeOK, Roots, Drawn, Fresh, Writing, Progress, Numbers, WriterSteps
  <1>3. Progress'
    BY <1>1 DEF WrTypeOK, Roots, Drawn, Fresh, Writing, Progress, Numbers, WriterSteps, Values
  <1>4. Attempt'
    BY <1>1 DEF WrTypeOK, Roots, Drawn, Fresh, Writing, Attempt, RootIsWhole, Numbers
  <1>5. RootIsWhole' /\ NothingOrphaned'
    BY <1>1 DEF WrTypeOK, Roots, Drawn, Fresh, Writing, Progress, RootIsWhole, NothingOrphaned, Numbers
  <1>6. ResultIsTrue'
    BY <1>1 DEF WrTypeOK, Roots, Drawn, Fresh, Writing, Progress, NothingOrphaned, ResultIsTrue, NoRecord,
                WriterSteps
  <1>7. LoadIsCurrent'
    BY <1>1 DEF WrTypeOK, Roots, Attempt, LoadIsCurrent
  <1> QED BY <1>1, <1>2, <1>3, <1>4, <1>5, <1>6, <1>7

(* finish removes a part that the root does not name. *)
LEMMA RemovePartInv == ASSUME WrInv, RemovePart PROVE WrInv'
  <1> USE PartsAssumption, ValuesAssumption
      DEF WrInv, RemovePart, Stale, FinishSteps, SameRoot, WriterAt, ReaderAt, Attempts
  <1>1. WrTypeOK'
    BY DEF WrTypeOK, Roots, Values, WriterSteps, Numbers
  <1>2. Drawn' /\ Fresh'
    BY <1>1 DEF WrTypeOK, Roots, Drawn, Fresh, Writing, Progress, Numbers, WriterSteps
  <1>3. Progress'
    BY <1>1 DEF WrTypeOK, Roots, Drawn, Fresh, Writing, Progress, Numbers, WriterSteps, Values
  <1>4. Attempt'
    BY <1>1 DEF WrTypeOK, Roots, Drawn, Fresh, Writing, Attempt, RootIsWhole, Numbers
  <1>5. RootIsWhole' /\ NothingOrphaned'
    BY <1>1 DEF WrTypeOK, Roots, Drawn, Fresh, Writing, Progress, RootIsWhole, NothingOrphaned, Numbers
  <1>6. ResultIsTrue'
    BY <1>1 DEF WrTypeOK, Roots, Drawn, Fresh, Writing, Progress, NothingOrphaned, ResultIsTrue, NoRecord,
                WriterSteps
  <1>7. LoadIsCurrent'
    BY <1>1 DEF WrTypeOK, Roots, Attempt, LoadIsCurrent
  <1> QED BY <1>1, <1>2, <1>3, <1>4, <1>5, <1>6, <1>7

(* finish removes the transaction: no part but the root's is left. *)
LEMMA EndFinishInv == ASSUME WrInv, EndFinish PROVE WrInv'
  <1> USE PartsAssumption, ValuesAssumption
      DEF WrInv, EndFinish, Finished, Stale, FinishSteps, SameRoot, WriterAt, ReaderAt, Attempts
  <1>1. WrTypeOK'
    <2>1. CASE WriterAt("prepare")
      BY <2>1 DEF WrTypeOK, WriterSteps
    <2>2. CASE WriterAt("finish")
      BY <2>2 DEF WrTypeOK, WriterSteps
    <2>3. CASE WriterAt("undo")
      BY <2>3 DEF WrTypeOK, WriterSteps
    <2> QED BY <2>1, <2>2, <2>3
  <1>2. Drawn' /\ Fresh'
    BY <1>1 DEF WrTypeOK, Roots, Drawn, Fresh, Writing, Progress, Numbers, WriterSteps
  <1>3. Progress'
    BY <1>1 DEF WrTypeOK, Roots, Drawn, Fresh, Writing, Progress, Numbers, WriterSteps, Values
  <1>4. Attempt'
    BY <1>1 DEF WrTypeOK, Roots, Drawn, Fresh, Writing, Attempt, RootIsWhole, Numbers
  <1>5. RootIsWhole' /\ NothingOrphaned'
    BY <1>1 DEF WrTypeOK, Roots, Drawn, Fresh, Writing, Progress, RootIsWhole, NothingOrphaned, Numbers
  <1>6. ResultIsTrue'
    BY <1>1 DEF WrTypeOK, Roots, Drawn, Fresh, Writing, Progress, NothingOrphaned, ResultIsTrue, NoRecord,
                WriterSteps
  <1>7. LoadIsCurrent'
    BY <1>1 DEF WrTypeOK, Roots, Attempt, LoadIsCurrent
  <1> QED BY <1>1, <1>2, <1>3, <1>4, <1>5, <1>6, <1>7

(* The transaction names the root's generation and the new one. *)
LEMMA BeginInv == ASSUME WrInv, Begin PROVE WrInv'
  <1> USE PartsAssumption, ValuesAssumption
      DEF WrInv, Begin, SameRoot, WriterAt, ReaderAt, Attempts
  <1>1. WrTypeOK'
    <2>1. CASE writer.op \in Large
      <3>1. writer' = [writer EXCEPT !.pc = "parts", !.gen = last + 1] BY <2>1
      <3>2. root.gen \in Nat /\ last + 1 \in Nat BY DEF WrTypeOK, Roots
      <3> QED BY <2>1, <3>1, <3>2 DEF WrTypeOK, WriterSteps
    <2>2. CASE writer.op \notin Large
      <3>1. writer' = [writer EXCEPT !.pc = "publish", !.gen = 0] /\ last' = last BY <2>2
      <3>2. root.gen \in Nat /\ 0 \in Nat BY DEF WrTypeOK, Roots
      <3> QED BY <2>2, <3>1, <3>2 DEF WrTypeOK, WriterSteps
    <2> QED BY <2>1, <2>2
  <1>2. Drawn' /\ Fresh'
    BY <1>1 DEF WrTypeOK, Roots, Drawn, Fresh, Writing, Progress, Numbers, WriterSteps
  <1>3. Progress'
    BY <1>1 DEF WrTypeOK, Roots, Drawn, Fresh, Writing, Progress, Numbers, WriterSteps, Values
  <1>4. Attempt'
    BY <1>1 DEF WrTypeOK, Roots, Drawn, Fresh, Writing, Attempt, RootIsWhole, Numbers
  <1>5. RootIsWhole' /\ NothingOrphaned'
    BY <1>1 DEF WrTypeOK, Roots, Drawn, Fresh, Writing, Progress, RootIsWhole, NothingOrphaned, Numbers
  <1>6. ResultIsTrue'
    BY <1>1 DEF WrTypeOK, Roots, Drawn, Fresh, Writing, Progress, NothingOrphaned, ResultIsTrue, NoRecord,
                WriterSteps
  <1>7. LoadIsCurrent'
    BY <1>1 DEF WrTypeOK, Roots, Attempt, LoadIsCurrent
  <1> QED BY <1>1, <1>2, <1>3, <1>4, <1>5, <1>6, <1>7

(* A part of the new generation is written. *)
LEMMA WritePartInv == ASSUME WrInv, WritePart PROVE WrInv'
  <1> USE PartsAssumption, ValuesAssumption
      DEF WrInv, WritePart, SameRoot, WriterAt, ReaderAt, Attempts
  <1>1. WrTypeOK'
    BY DEF WrTypeOK, Roots, Values, WriterSteps, Numbers
  <1>2. Drawn' /\ Fresh'
    BY <1>1 DEF WrTypeOK, Roots, Drawn, Fresh, Writing, Progress, Numbers, WriterSteps
  <1>3. Progress'
    BY <1>1 DEF WrTypeOK, Roots, Drawn, Fresh, Writing, Progress, Numbers, WriterSteps, Values
  <1>4. Attempt'
    BY <1>1 DEF WrTypeOK, Roots, Drawn, Fresh, Writing, Attempt, RootIsWhole, Numbers
  <1>5. RootIsWhole' /\ NothingOrphaned'
    BY <1>1 DEF WrTypeOK, Roots, Drawn, Fresh, Writing, Progress, RootIsWhole, NothingOrphaned, Numbers
  <1>6. ResultIsTrue'
    BY <1>1 DEF WrTypeOK, Roots, Drawn, Fresh, Writing, Progress, NothingOrphaned, ResultIsTrue, NoRecord,
                WriterSteps
  <1>7. LoadIsCurrent'
    BY <1>1 DEF WrTypeOK, Roots, Attempt, LoadIsCurrent
  <1> QED BY <1>1, <1>2, <1>3, <1>4, <1>5, <1>6, <1>7

(* The root is replaced: the new one has all its parts, and the transaction names the old one. *)
LEMMA WriteRootInv == ASSUME WrInv, WriteRoot PROVE WrInv'
  <1> USE PartsAssumption, ValuesAssumption
      DEF WrInv, WriteRoot, Publish, WriterAt, ReaderAt, Attempts
  <1>1. WrTypeOK'
    <2>1. CASE ReaderAt("idle")
      BY <2>1 DEF WrTypeOK, Roots, Values, WriterSteps, Numbers
    <2>2. CASE ~ReaderAt("idle")
      <3>1. root' \in Roots BY DEF WrTypeOK, Roots
      <3> DEFINE n == IF reader.races < Attempts THEN reader.races + 1 ELSE reader.races
                 seen == reader.seen \cup {writer.op}
      <3>2. n \in Nat /\ seen \in SUBSET (Values \cup {Nil}) BY DEF WrTypeOK
      <3>3. reader' = [reader EXCEPT !.seen = seen, !.races = n] BY <2>2
      <3> HIDE DEF n, seen
      <3> QED BY <3>1, <3>2, <3>3 DEF WrTypeOK, WriterSteps
    <2> QED BY <2>1, <2>2
  <1>2. Drawn' /\ Fresh'
    BY <1>1 DEF WrTypeOK, Roots, Drawn, Fresh, Writing, Progress, Numbers, WriterSteps
  <1>3. Progress'
    BY <1>1 DEF WrTypeOK, Roots, Drawn, Fresh, Writing, Progress, Numbers, WriterSteps, Values
  <1>4. Attempt'
    BY <1>1 DEF WrTypeOK, Roots, Drawn, Fresh, Writing, Attempt, RootIsWhole, Numbers
  <1>5. RootIsWhole' /\ NothingOrphaned'
    BY <1>1 DEF WrTypeOK, Roots, Drawn, Fresh, Writing, Progress, RootIsWhole, NothingOrphaned, Numbers
  <1>6. ResultIsTrue'
    BY <1>1 DEF WrTypeOK, Roots, Drawn, Fresh, Writing, Progress, NothingOrphaned, ResultIsTrue, NoRecord,
                WriterSteps
  <1>7. LoadIsCurrent'
    BY <1>1 DEF WrTypeOK, Roots, Attempt, LoadIsCurrent
  <1> QED BY <1>1, <1>2, <1>3, <1>4, <1>5, <1>6, <1>7

(* An entry cannot be written or removed. *)
LEMMA EntryFailsInv == ASSUME WrInv, EntryFails PROVE WrInv'
  <1> USE PartsAssumption, ValuesAssumption
      DEF WrInv, EntryFails, WriterAt, ReaderAt, Attempts
  <1>1. WrTypeOK'
    <2>1. CASE writer.pc \in {"prepare", "begin", "undo"}
      <3>1. writer' = [writer EXCEPT !.pc = "idle", !.result = "error"] BY <2>1
      <3>2. root' = root /\ parts' = parts /\ pending' = pending /\ last' = last /\ reader' = reader OBVIOUS
      <3> HIDE DEF EntryFails
      <3> QED BY <3>1, <3>2 DEF WrTypeOK, WriterSteps
    <2>2. CASE WriterAt("parts")
      BY <2>2 DEF WrTypeOK, WriterSteps
    <2>3. CASE WriterAt("publish") /\ writer.op = Nil
      BY <2>3 DEF WrTypeOK, WriterSteps
    <2>4. CASE WriterAt("publish") /\ writer.op # Nil
      BY <2>4 DEF WrTypeOK, WriterSteps
    <2>5. CASE WriterAt("finish") /\ writer.op = Nil
      BY <2>5 DEF WrTypeOK, WriterSteps
    <2>6. CASE WriterAt("finish") /\ writer.op # Nil
      BY <2>6 DEF WrTypeOK, WriterSteps
    <2> QED BY <2>1, <2>2, <2>3, <2>4, <2>5, <2>6 DEF WrTypeOK, WriterSteps
  <1>2. Drawn' /\ Fresh'
    BY <1>1 DEF WrTypeOK, Roots, Drawn, Fresh, Writing, Progress, Numbers, WriterSteps
  <1>3. Progress'
    BY <1>1 DEF WrTypeOK, Roots, Drawn, Fresh, Writing, Progress, Numbers, WriterSteps, Values
  <1>4. Attempt'
    BY <1>1 DEF WrTypeOK, Roots, Drawn, Fresh, Writing, Attempt, RootIsWhole, Numbers
  <1>5. RootIsWhole' /\ NothingOrphaned'
    BY <1>1 DEF WrTypeOK, Roots, Drawn, Fresh, Writing, Progress, RootIsWhole, NothingOrphaned, Numbers
  <1>6. ResultIsTrue'
    BY <1>1 DEF WrTypeOK, Roots, Drawn, Fresh, Writing, Progress, NothingOrphaned, ResultIsTrue, NoRecord,
                WriterSteps
  <1>7. LoadIsCurrent'
    BY <1>1 DEF WrTypeOK, Roots, Attempt, LoadIsCurrent
  <1> QED BY <1>1, <1>2, <1>3, <1>4, <1>5, <1>6, <1>7

(* The writer ends at any step. *)
LEMMA WriterDiesInv == ASSUME WrInv, WriterDies PROVE WrInv'
  <1> USE PartsAssumption, ValuesAssumption
      DEF WrInv, WriterDies, IdleWriter, NoRecord, WriterAt, ReaderAt, Attempts
  <1>1. WrTypeOK'
    BY DEF WrTypeOK, Roots, Values, WriterSteps, Numbers
  <1>2. Drawn' /\ Fresh'
    BY <1>1 DEF WrTypeOK, Roots, Drawn, Fresh, Writing, Progress, Numbers, WriterSteps
  <1>3. Progress'
    BY <1>1 DEF WrTypeOK, Roots, Drawn, Fresh, Writing, Progress, Numbers, WriterSteps, Values
  <1>4. Attempt'
    BY <1>1 DEF WrTypeOK, Roots, Drawn, Fresh, Writing, Attempt, RootIsWhole, Numbers
  <1>5. RootIsWhole' /\ NothingOrphaned'
    BY <1>1 DEF WrTypeOK, Roots, Drawn, Fresh, Writing, Progress, RootIsWhole, NothingOrphaned, Numbers
  <1>6. ResultIsTrue'
    BY <1>1 DEF WrTypeOK, Roots, Drawn, Fresh, Writing, Progress, NothingOrphaned, ResultIsTrue, NoRecord,
                WriterSteps
  <1>7. LoadIsCurrent'
    BY <1>1 DEF WrTypeOK, Roots, Attempt, LoadIsCurrent
  <1> QED BY <1>1, <1>2, <1>3, <1>4, <1>5, <1>6, <1>7

(* A load begins. *)
LEMMA CallReaderInv == ASSUME WrInv, CallReader PROVE WrInv'
  <1> USE PartsAssumption, ValuesAssumption
      DEF WrInv, CallReader, IdleReader, NoRecord, OnlyReader, WriterAt, ReaderAt, Attempts
  <1>1. WrTypeOK'
    <2>1. NoRecord \in Roots /\ root.val \in Values \cup {Nil} BY DEF WrTypeOK, Roots
    <2> QED BY <2>1 DEF WrTypeOK
  <1>2. Drawn' /\ Fresh'
    BY <1>1 DEF WrTypeOK, Roots, Drawn, Fresh, Writing, Progress, Numbers, WriterSteps
  <1>3. Progress'
    BY <1>1 DEF WrTypeOK, Roots, Drawn, Fresh, Writing, Progress, Numbers, WriterSteps, Values
  <1>4. Attempt'
    BY <1>1 DEF WrTypeOK, Roots, Drawn, Fresh, Writing, Attempt, RootIsWhole, Numbers
  <1>5. RootIsWhole' /\ NothingOrphaned'
    BY <1>1 DEF WrTypeOK, Roots, Drawn, Fresh, Writing, Progress, RootIsWhole, NothingOrphaned, Numbers
  <1>6. ResultIsTrue'
    BY <1>1 DEF WrTypeOK, Roots, Drawn, Fresh, Writing, Progress, NothingOrphaned, ResultIsTrue, NoRecord,
                WriterSteps
  <1>7. LoadIsCurrent'
    BY <1>1 DEF WrTypeOK, Roots, Attempt, LoadIsCurrent
  <1> QED BY <1>1, <1>2, <1>3, <1>4, <1>5, <1>6, <1>7

(* The load reads the root. *)
LEMMA ReadRootInv == ASSUME WrInv, ReadRoot PROVE WrInv'
  <1> USE PartsAssumption, ValuesAssumption
      DEF WrInv, ReadRoot, Returns, OnlyReader, WriterAt, ReaderAt, Attempts
  <1>1. CASE root.gen = 0
    <2>1. reader' = [reader EXCEPT !.pc = "idle", !.result = "value", !.val = root.val]
      BY <1>1
    <2>2. WrTypeOK'
      BY <1>1, <2>1 DEF WrTypeOK, Roots
    <2>3. Drawn' /\ Fresh' /\ Progress'
      BY <1>1, <2>1 DEF WrTypeOK, Roots, Drawn, Fresh, Writing, Progress
    <2>4. Attempt'
      BY <1>1, <2>1 DEF WrTypeOK, Roots, Drawn, Attempt, RootIsWhole, Numbers
    <2>5. RootIsWhole' /\ NothingOrphaned' /\ ResultIsTrue'
      BY DEF RootIsWhole, NothingOrphaned, ResultIsTrue
    <2>6. LoadIsCurrent'
      BY <1>1, <2>1 DEF WrTypeOK, Roots, Attempt, LoadIsCurrent
    <2> QED BY <2>2, <2>3, <2>4, <2>5, <2>6
  <1>2. CASE root.gen # 0
    <2>1. reader' = [reader EXCEPT !.pc = "parts", !.root = root, !.got = 0]
      BY <1>2
    <2>2. WrTypeOK'
      BY <1>2, <2>1 DEF WrTypeOK, Roots
    <2>3. Drawn' /\ Fresh' /\ Progress'
      BY <1>2, <2>1 DEF WrTypeOK, Roots, Drawn, Fresh, Writing, Progress
    <2>4. Attempt'
      BY <1>2, <2>1 DEF WrTypeOK, Roots, Drawn, Attempt, RootIsWhole, Numbers
    <2>5. RootIsWhole' /\ NothingOrphaned' /\ ResultIsTrue'
      BY DEF RootIsWhole, NothingOrphaned, ResultIsTrue
    <2>6. LoadIsCurrent'
      BY <1>2, <2>1 DEF WrTypeOK, Roots, Attempt, LoadIsCurrent
    <2> QED BY <2>2, <2>3, <2>4, <2>5, <2>6
  <1> QED BY <1>1, <1>2

(* The load reads a part; a part is missing only when the root is another one by now. *)
LEMMA ReadPartInv == ASSUME WrInv, ReadPart PROVE WrInv'
  <1> USE PartsAssumption, ValuesAssumption
      DEF WrInv, ReadPart, Returns, OnlyReader, WriterAt, ReaderAt, Attempts
  <1>1. CASE <<reader.root.gen, reader.got + 1>> \notin parts
    <2>1. reader' = [reader EXCEPT !.pc = "check"]
      BY <1>1
    <2>2. WrTypeOK'
      BY <1>1, <2>1 DEF WrTypeOK, Roots
    <2>3. Drawn' /\ Fresh' /\ Progress'
      BY <1>1, <2>1 DEF WrTypeOK, Roots, Drawn, Fresh, Writing, Progress
    <2>4. Attempt'
      BY <1>1, <2>1 DEF WrTypeOK, Roots, Drawn, Attempt, RootIsWhole, Numbers
    <2>5. RootIsWhole' /\ NothingOrphaned' /\ ResultIsTrue'
      BY DEF RootIsWhole, NothingOrphaned, ResultIsTrue
    <2>6. LoadIsCurrent'
      BY <1>1, <2>1 DEF WrTypeOK, Roots, Attempt, LoadIsCurrent
    <2> QED BY <2>2, <2>3, <2>4, <2>5, <2>6
  <1>2. CASE <<reader.root.gen, reader.got + 1>> \in parts /\ reader.got + 1 = Parts
    <2>1. reader' = [reader EXCEPT !.pc = "idle", !.result = "value", !.val = reader.root.val]
      BY <1>2
    <2>2. WrTypeOK'
      BY <1>2, <2>1 DEF WrTypeOK, Roots
    <2>3. Drawn' /\ Fresh' /\ Progress'
      BY <1>2, <2>1 DEF WrTypeOK, Roots, Drawn, Fresh, Writing, Progress
    <2>4. Attempt'
      BY <1>2, <2>1 DEF WrTypeOK, Roots, Drawn, Attempt, RootIsWhole, Numbers
    <2>5. RootIsWhole' /\ NothingOrphaned' /\ ResultIsTrue'
      BY DEF RootIsWhole, NothingOrphaned, ResultIsTrue
    <2>6. LoadIsCurrent'
      BY <1>2, <2>1 DEF WrTypeOK, Roots, Attempt, LoadIsCurrent
    <2> QED BY <2>2, <2>3, <2>4, <2>5, <2>6
  <1>3. CASE <<reader.root.gen, reader.got + 1>> \in parts /\ reader.got + 1 # Parts
    <2>1. reader' = [reader EXCEPT !.got = @ + 1]
      BY <1>3
    <2>2. WrTypeOK'
      BY <1>3, <2>1 DEF WrTypeOK, Roots
    <2>3. Drawn' /\ Fresh' /\ Progress'
      BY <1>3, <2>1 DEF WrTypeOK, Roots, Drawn, Fresh, Writing, Progress
    <2>4. Attempt'
      BY <1>3, <2>1 DEF WrTypeOK, Roots, Drawn, Attempt, RootIsWhole, Numbers
    <2>5. RootIsWhole' /\ NothingOrphaned' /\ ResultIsTrue'
      BY DEF RootIsWhole, NothingOrphaned, ResultIsTrue
    <2>6. LoadIsCurrent'
      BY <1>3, <2>1 DEF WrTypeOK, Roots, Attempt, LoadIsCurrent
    <2> QED BY <2>2, <2>3, <2>4, <2>5, <2>6
  <1> QED BY <1>1, <1>2, <1>3

(* The load gives up or tries again. *)
LEMMA CheckRootInv == ASSUME WrInv, CheckRoot PROVE WrInv'
  <1> USE PartsAssumption, ValuesAssumption
      DEF WrInv, CheckRoot, Returns, OnlyReader, WriterAt, ReaderAt, Attempts
  <1>0. root # reader.root /\ reader.races > reader.tries BY DEF Attempt
  <1>1. CASE reader.tries + 1 = Attempts
    <2>1. reader' = [reader EXCEPT !.pc = "idle", !.result = "invalid", !.val = Nil]
      BY <1>1, <1>0
    <2>2. WrTypeOK'
      BY <1>1, <2>1 DEF WrTypeOK, Roots
    <2>3. Drawn' /\ Fresh' /\ Progress'
      BY <1>1, <2>1 DEF WrTypeOK, Roots, Drawn, Fresh, Writing, Progress
    <2>4. Attempt'
      BY <1>1, <2>1, <1>0 DEF WrTypeOK, Roots, Drawn, Attempt, RootIsWhole, Numbers
    <2>5. RootIsWhole' /\ NothingOrphaned' /\ ResultIsTrue'
      BY DEF RootIsWhole, NothingOrphaned, ResultIsTrue
    <2>6. LoadIsCurrent'
      BY <1>1, <2>1, <1>0 DEF WrTypeOK, Roots, Attempt, LoadIsCurrent
    <2> QED BY <2>2, <2>3, <2>4, <2>5, <2>6
  <1>2. CASE reader.tries + 1 # Attempts
    <2>1. reader' = [reader EXCEPT !.pc = "root", !.tries = @ + 1]
      BY <1>2, <1>0
    <2>2. WrTypeOK'
      <3>1. reader.tries + 1 \in Nat BY DEF WrTypeOK
      <3> HIDE DEF CheckRoot
      <3>2. UNCHANGED <<root, parts, pending, last, writer>> BY DEF CheckRoot
      <3> QED BY <2>1, <3>1, <3>2 DEF WrTypeOK
    <2>3. Drawn' /\ Fresh' /\ Progress'
      BY <1>2, <2>1 DEF WrTypeOK, Roots, Drawn, Fresh, Writing, Progress
    <2>4. Attempt'
      BY <1>2, <2>1, <1>0 DEF WrTypeOK, Roots, Drawn, Attempt, RootIsWhole, Numbers
    <2>5. RootIsWhole' /\ NothingOrphaned' /\ ResultIsTrue'
      BY DEF RootIsWhole, NothingOrphaned, ResultIsTrue
    <2>6. LoadIsCurrent'
      BY <1>2, <2>1, <1>0 DEF WrTypeOK, Roots, Attempt, LoadIsCurrent
    <2> QED BY <2>2, <2>3, <2>4, <2>5, <2>6
  <1> QED BY <1>1, <1>2

(* No step leaves the invariant. *)
LEMMA NextInv == WrInv /\ [WrNext]_wvars => WrInv'
  <1> SUFFICES ASSUME WrInv, [WrNext]_wvars PROVE WrInv' OBVIOUS
  <1>1. CASE WriterActs
    BY <1>1, CallWriterInv, RemovePartInv, EndFinishInv, BeginInv, WritePartInv, WriteRootInv,
       EntryFailsInv, WriterDiesInv
    DEF WriterActs
  <1>2. CASE ReaderActs
    BY <1>2, CallReaderInv, ReadRootInv, ReadPartInv, CheckRootInv DEF ReaderActs
  <1>3. CASE UNCHANGED wvars
    BY <1>3
    DEF wvars, WrInv, WrTypeOK, Drawn, Fresh, Writing, Progress, Attempt, RootIsWhole, NothingOrphaned,
        ResultIsTrue, LoadIsCurrent, WriterAt, ReaderAt
  <1> QED BY <1>1, <1>2, <1>3 DEF WrNext

LEMMA InvHolds == WrSpec => []WrInv
  BY InitInv, NextInv, PTL DEF WrSpec

(* Whatever step a save or a delete fails or dies at, the record can be    *)
(* read, and no part of a secret is left that a later save or delete would *)
(* not remove (windows_records.rs begin, finish, save, delete).            *)
THEOREM RecordIsKept == WrSpec => []RecordSurvives
  <1>1. WrInv => RecordSurvives BY DEF WrInv, RecordSurvives
  <1> QED BY <1>1, InvHolds, PTL

(* What a save or a delete reports is what happened, and a load beside a   *)
(* writer returns what the record held while it ran (windows_records.rs    *)
(* save, delete, load).                                                    *)
THEOREM ReportsAreTrue == WrSpec => []CallsAreTrue
  <1>1. WrInv => CallsAreTrue BY DEF WrInv, CallsAreTrue
  <1> QED BY <1>1, InvHolds, PTL
============================================================================
