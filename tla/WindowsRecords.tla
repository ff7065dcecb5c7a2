--------------------------- MODULE WindowsRecords ---------------------------
(***************************************************************************)
(* A protected record that may be larger than an entry of the Windows      *)
(* Credential Manager (client-storage/src/windows_records.rs).             *)
(*                                                                         *)
(* A small value is the root entry itself.  A large one is cut into parts, *)
(* entries named by a random generation and a number, and the root entry   *)
(* is an index that names the generation.  A transaction entry names the   *)
(* generations that a save or a delete replaces and makes.                 *)
(*                                                                         *)
(* Every read, write and removal of an entry is one step.  One writer runs *)
(* at a time; it may end at any step, and an entry's write or removal may  *)
(* fail.  A reader takes no lock and may overlap a writer.                 *)
(***************************************************************************)
EXTENDS Naturals, FiniteSets

CONSTANTS Nil,      \* no value
          Small,    \* values that fit in the root entry
          Large,    \* values that are cut into parts
          Parts,    \* number of parts of a large value
          MaxGenerations   \* bound: large values that are saved

ASSUME PartsAssumption == Parts \in Nat \ {0} /\ MaxGenerations \in Nat
ASSUME ValuesAssumption == Small \cap Large = {} /\ Nil \notin Small \cup Large

VARIABLES root,      \* [val, gen]: what the root entry holds; gen 0 where it is no index
          parts,     \* the entries <<generation, number>> that exist
          pending,   \* the generations that the transaction entry names; {}: no entry
          last,      \* the last generation that was drawn
          writer,    \* the save or delete that runs
          reader     \* the load that runs

wvars == <<root, parts, pending, last, writer, reader>>

Values == Small \cup Large
Numbers == 1 .. Parts
NoRecord == [val |-> Nil, gen |-> 0]

WriterSteps == {"idle", "prepare", "begin", "parts", "publish", "finish", "undo"}

(* op: the value that is saved, Nil for a delete; gen: its generation, or  *)
(* 0; result: of the last call.  before: the root entry at the call.       *)
IdleWriter == [pc |-> "idle", op |-> Nil, gen |-> 0, result |-> "none", before |-> NoRecord]

(* root: the root entry it read; got: how many parts it has; tries: the    *)
(* attempts that failed; val: what it returned.  seen (what the record     *)
(* held since the load began) and races (how often it changed, up to       *)
(* Attempts) are history variables.                                        *)
IdleReader == [pc |-> "idle", root |-> NoRecord, got |-> 0, tries |-> 0, result |-> "none",
               val |-> Nil, seen |-> {}, races |-> 0]

Attempts == 3

WrInit ==
  /\ root = NoRecord /\ parts = {} /\ pending = {} /\ last = 0
  /\ writer = IdleWriter /\ reader = IdleReader

-----------------------------------------------------------------------------
(* The writer. *)

WriterAt(pc) == writer.pc = pc
(* The root entry changes; a load that runs sees the change. *)
Publish(r) ==
  /\ root' = r
  /\ reader' = IF reader.pc = "idle" THEN reader
               ELSE [reader EXCEPT !.seen = @ \cup {r.val}, !.races = IF @ < Attempts THEN @ + 1 ELSE @]

SameRoot == UNCHANGED <<root, reader>>

CallWriter(v) ==
  /\ WriterAt("idle") /\ (v \in Large => last < MaxGenerations)
  /\ writer' = [pc |-> "prepare", op |-> v, gen |-> 0, result |-> "none", before |-> root]
  /\ UNCHANGED <<root, parts, pending, last, reader>>

(* finish: remove the parts of the generations that the transaction names  *)
(* and the root does not, then the transaction.                            *)
Stale == {p \in parts : p[1] \in pending \ {root.gen}}

FinishSteps == {"prepare", "finish", "undo"}

RemovePart ==
  /\ writer.pc \in FinishSteps
  /\ \E p \in Stale : parts' = parts \ {p}
  /\ SameRoot /\ UNCHANGED <<pending, last, writer>>

(* What the call goes on with, or returns. *)
Finished ==
  CASE WriterAt("prepare") -> [writer EXCEPT !.pc = "begin"]
    [] WriterAt("finish") -> [writer EXCEPT !.pc = "idle", !.result = "ok"]
    [] WriterAt("undo") -> [writer EXCEPT !.pc = "idle", !.result = "error"]

EndFinish ==
  /\ writer.pc \in FinishSteps /\ Stale = {}
  /\ pending' = {}
  /\ writer' = Finished
  /\ SameRoot /\ UNCHANGED <<parts, last>>

(* Mutant: the transaction names only the new generation. *)
BeginUnnamed ==
  /\ WriterAt("begin")
  /\ LET large == writer.op \in Large
     IN /\ pending' = IF large THEN {last + 1} ELSE {}
        /\ last' = IF large THEN last + 1 ELSE last
        /\ writer' = [writer EXCEPT !.pc = IF large THEN "parts" ELSE "publish",
                                    !.gen = IF large THEN last + 1 ELSE 0]
  /\ SameRoot /\ UNCHANGED parts

Begin ==
  /\ WriterAt("begin")
  /\ LET large == writer.op \in Large
     IN /\ pending' = ({root.gen} \ {0}) \cup (IF large THEN {last + 1} ELSE {})
        /\ last' = IF large THEN last + 1 ELSE last
        /\ writer' = [writer EXCEPT !.pc = IF large THEN "parts" ELSE "publish",
                                    !.gen = IF large THEN last + 1 ELSE 0]
  /\ SameRoot /\ UNCHANGED parts

WritePart ==
  /\ WriterAt("parts")
  /\ LET written == {n \in Numbers : <<writer.gen, n>> \in parts}
     IN \E n \in Numbers :
          /\ n \notin written /\ \A m \in Numbers : m < n => m \in written
          /\ parts' = parts \cup {<<writer.gen, n>>}
          /\ writer' = [writer EXCEPT !.pc = IF n = Parts THEN "publish" ELSE "parts"]
  /\ SameRoot /\ UNCHANGED <<pending, last>>

WriteRoot ==
  /\ WriterAt("publish")
  /\ Publish([val |-> writer.op, gen |-> writer.gen])
  /\ writer' = [writer EXCEPT !.pc = "finish"]
  /\ UNCHANGED <<parts, pending, last>>

(* An entry's write or removal fails.  Before the transaction is written   *)
(* the call just fails; a part or a root that cannot be written is undone; *)
(* after the root a save has happened, whatever becomes of the rest, while *)
(* a delete reports it.                                                    *)
EntryFails ==
  /\ ~WriterAt("idle")
  /\ writer' =
       CASE writer.pc \in {"prepare", "begin", "undo"} ->
              [writer EXCEPT !.pc = "idle", !.result = "error"]
         [] writer.pc = "parts" -> [writer EXCEPT !.pc = "undo"]
         [] writer.pc = "publish" ->
              IF writer.op = Nil THEN [writer EXCEPT !.pc = "idle", !.result = "error"]
              ELSE [writer EXCEPT !.pc = "undo"]
         [] writer.pc = "finish" ->
              [writer EXCEPT !.pc = "idle", !.result = IF writer.op = Nil THEN "error" ELSE "ok"]
  /\ UNCHANGED <<root, parts, pending, last, reader>>

WriterDies ==
  /\ ~WriterAt("idle")
  /\ writer' = IdleWriter
  /\ UNCHANGED <<root, parts, pending, last, reader>>

-----------------------------------------------------------------------------
(* The reader. *)

ReaderAt(pc) == reader.pc = pc
Returns(result, v) == reader' = [reader EXCEPT !.pc = "idle", !.result = result, !.val = v]
OnlyReader == UNCHANGED <<root, parts, pending, last, writer>>

CallReader ==
  /\ ReaderAt("idle")
  /\ reader' = [IdleReader EXCEPT !.pc = "root", !.seen = {root.val}]
  /\ OnlyReader

ReadRoot ==
  /\ ReaderAt("root")
  /\ IF root.gen = 0 THEN Returns("value", root.val)
     ELSE reader' = [reader EXCEPT !.pc = "parts", !.root = root, !.got = 0]
  /\ OnlyReader

ReadPart ==
  /\ ReaderAt("parts")
  /\ IF <<reader.root.gen, reader.got + 1>> \notin parts THEN reader' = [reader EXCEPT !.pc = "check"]
     ELSE IF reader.got + 1 = Parts THEN Returns("value", reader.root.val)
     ELSE reader' = [reader EXCEPT !.got = @ + 1]
  /\ OnlyReader

(* Mutant: a missing part fails the load at once. *)
CheckRootOnce == ReaderAt("check") /\ Returns("invalid", Nil) /\ OnlyReader

(* A part was missing: if the root is another one by now, try again. *)
CheckRoot ==
  /\ ReaderAt("check")
  /\ IF root = reader.root \/ reader.tries + 1 = Attempts THEN Returns("invalid", Nil)
     ELSE reader' = [reader EXCEPT !.pc = "root", !.tries = @ + 1]
  /\ OnlyReader

-----------------------------------------------------------------------------
WriterActs ==
  \/ \E v \in Values \cup {Nil} : CallWriter(v)
  \/ RemovePart \/ EndFinish \/ Begin \/ WritePart \/ WriteRoot \/ EntryFails \/ WriterDies

ReaderActs == CallReader \/ ReadRoot \/ ReadPart \/ CheckRoot

WrNext == WriterActs \/ ReaderActs

WrSpec == WrInit /\ [][WrNext]_wvars

-----------------------------------------------------------------------------
(* The record can always be read: a root entry that is an index has all    *)
(* its parts, whatever step of a save or delete the writer died or failed  *)
(* at.                                                                     *)
RootIsWhole == root.gen # 0 => \A n \in Numbers : <<root.gen, n>> \in parts

(* No secret is left behind that nobody will remove: every part belongs to *)
(* the root or to a generation that the transaction entry names            *)
(* (windows_records.rs:81, "so a crash cannot orphan credentials").        *)
NothingOrphaned == \A p \in parts : p[1] = root.gen \/ p[1] \in pending

(* The result of a call is true: a save that returned Ok is the record,    *)
(* one that returned an error changed nothing, and after a delete that     *)
(* returned Ok no entry with a secret exists ("Cleanup cannot turn a       *)
(* committed save into a reported failure", windows_records.rs:181).       *)
ResultIsTrue ==
  WriterAt("idle") =>
    /\ writer.result = "ok" => root.val = writer.op
    /\ writer.result = "ok" /\ writer.op = Nil => root = NoRecord /\ parts = {}
    /\ writer.result = "error" /\ writer.op # Nil => root = writer.before

(* A load that overlaps saves returns a value that the record held while   *)
(* the load ran, and gives up only when the record changed under every one *)
(* of its attempts.                                                        *)
LoadIsCurrent ==
  ReaderAt("idle") =>
    /\ reader.result = "value" => reader.val \in reader.seen
    /\ reader.result = "invalid" => reader.races = Attempts

(* A record of several entries is never damaged or scattered: it can be    *)
(* read and no part is orphaned, wherever a save or delete stops.          *)
RecordSurvives == RootIsWhole /\ NothingOrphaned

(* What save, delete and load return is what happened to the record.       *)
CallsAreTrue == ResultIsTrue /\ LoadIsCurrent
=============================================================================
