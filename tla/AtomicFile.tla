----------------------------- MODULE AtomicFile -----------------------------
(***************************************************************************)
(* Installing a file so that no reader sees half of it                     *)
(* (src/sandbox/atomicfile.rs): write a temporary sibling, flush it to the *)
(* device, rename it over the target, flush the directory.  Writers of one *)
(* target race, any step may fail, and the machine may stop between any    *)
(* two of them.                                                            *)
(*                                                                         *)
(* A body is written in two halves.  The device keeps what was flushed; of *)
(* the rest, a machine that stops keeps any part of a file's data and any  *)
(* of the renames since the directory was last flushed.                    *)
(***************************************************************************)
EXTENDS Naturals, Sequences, FiniteSets

CONSTANTS
  Writers,     \* the writers, each with a temporary name of its own
  MaxWrites,   \* bound: files ever created
  MaxCrashes   \* bound: times the machine stops

BoundsAssumption == {MaxWrites, MaxCrashes} \subseteq Nat

VARIABLES
  at,       \* where each writer is
  mine,     \* the file each one created
  temp,     \* the file each temporary name leads to, 0 for none
  renamed,  \* the files the target led to, the last of which it leads to
  onDisk,   \* how many of those renames the device keeps for sure
  data,     \* what each file created holds of its body
  flushed,  \* the files whose data and mode are on the device
  settled,  \* how many of them a writer that reported success was counting on
  crashes   \* how often the machine stopped

vars == <<at, mine, temp, renamed, onDisk, data, flushed, settled, crashes>>

Whole == {"head", "tail", "mode"}
Files == 1..Len(data)

(* File 1 is what the target held before.                                  *)
Init ==
  /\ at = [w \in Writers |-> "idle"] /\ mine = [w \in Writers |-> 0]
  /\ temp = [w \in Writers |-> 0]
  /\ renamed = <<1>> /\ onDisk = 1
  /\ data = <<Whole>> /\ flushed = {1}
  /\ settled = 1 /\ crashes = 0

Goes(w, to) == at' = [at EXCEPT ![w] = to]

-----------------------------------------------------------------------------
(* write_atomic_checked.                                                   *)

(* A new file under the temporary name; one that is there is refused.      *)
Create(w) ==
  /\ at[w] = "idle" /\ Len(data) < MaxWrites
  /\ IF temp[w] = 0
     THEN /\ data' = Append(data, {})
          /\ mine' = [mine EXCEPT ![w] = Len(data')]
          /\ temp' = [temp EXCEPT ![w] = Len(data')]
          /\ Goes(w, "head")
     ELSE Goes(w, "failed") /\ UNCHANGED <<data, mine, temp>>
  /\ UNCHANGED <<renamed, onDisk, flushed, settled, crashes>>

NextAfter == [head |-> "tail", tail |-> "mode", mode |-> "flush"]

(* The bytes, then the mode.                                               *)
Write(w) ==
  /\ at[w] \in Whole
  /\ data' = [data EXCEPT ![mine[w]] = @ \cup {at[w]}]
  /\ Goes(w, NextAfter[at[w]])
  /\ UNCHANGED <<mine, temp, renamed, onDisk, flushed, settled, crashes>>

(* Faulty: nothing is flushed before the rename.                           *)
FlushedNot(f) == flushed

Flushed(f) == flushed \cup {f}

Flush(w) ==
  /\ at[w] = "flush"
  /\ flushed' = Flushed(mine[w])
  /\ Goes(w, "check")
  /\ UNCHANGED <<mine, temp, renamed, onDisk, data, settled, crashes>>

Checked(w) ==
  /\ at[w] = "check"
  /\ Goes(w, "rename")
  /\ UNCHANGED <<mine, temp, renamed, onDisk, data, flushed, settled, crashes>>

Rename(w) ==
  /\ at[w] = "rename" /\ temp[w] # 0
  /\ renamed' = Append(renamed, temp[w])
  /\ temp' = [temp EXCEPT ![w] = 0]
  /\ Goes(w, "directory")
  /\ UNCHANGED <<mine, onDisk, data, flushed, settled, crashes>>

(* Any step up to the rename may fail.                                     *)
Fail(w) ==
  /\ at[w] \in Whole \cup {"flush", "check", "rename"}
  /\ Goes(w, "failed")
  /\ UNCHANGED <<mine, temp, renamed, onDisk, data, flushed, settled, crashes>>

(* Faulty: a write that failed leaves its temporary file.                  *)
AfterFailureKept(w) == temp[w]

AfterFailure(w) == 0

CleanUp(w) ==
  /\ at[w] = "failed"
  /\ temp' = [temp EXCEPT ![w] = AfterFailure(w)]
  /\ mine' = [mine EXCEPT ![w] = 0]
  /\ Goes(w, "idle")
  /\ UNCHANGED <<renamed, onDisk, data, flushed, settled, crashes>>

(* Faulty: the directory is not flushed.                                   *)
SyncsDirNot == onDisk

SyncsDir == Len(renamed)

Position(f) == CHOOSE i \in DOMAIN renamed : renamed[i] = f

(* sync_dir, and the write reports success.                                *)
Return(w) ==
  /\ at[w] = "directory"
  /\ onDisk' = SyncsDir
  /\ settled' = IF Position(mine[w]) > settled THEN Position(mine[w]) ELSE settled
  /\ mine' = [mine EXCEPT ![w] = 0]
  /\ Goes(w, "idle")
  /\ UNCHANGED <<temp, renamed, data, flushed, crashes>>

(* A directory that cannot be flushed is no failure of the write.          *)
ReturnUnsynced(w) ==
  /\ at[w] = "directory"
  /\ mine' = [mine EXCEPT ![w] = 0]
  /\ Goes(w, "idle")
  /\ UNCHANGED <<temp, renamed, onDisk, data, flushed, settled, crashes>>

-----------------------------------------------------------------------------
(* The machine stops and comes back, with nobody writing.                  *)
Crash ==
  /\ crashes < MaxCrashes
  /\ crashes' = crashes + 1
  /\ at' = [w \in Writers |-> "idle"] /\ mine' = [w \in Writers |-> 0]
  /\ \E kept \in SUBSET Writers : temp' = [w \in Writers |-> IF w \in kept THEN temp[w] ELSE 0]
  /\ \E n \in onDisk..Len(renamed) : renamed' = SubSeq(renamed, 1, n) /\ onDisk' = n
  /\ \E lost \in [Files \ flushed -> SUBSET Whole] :
       data' = [f \in Files |-> IF f \in flushed THEN data[f] ELSE data[f] \ lost[f]]
  /\ UNCHANGED <<flushed, settled>>

Next ==
  \/ Crash
  \/ \E w \in Writers :
       \/ Create(w) \/ Write(w) \/ Flush(w) \/ Checked(w) \/ Rename(w)
       \/ Fail(w) \/ CleanUp(w) \/ Return(w) \/ ReturnUnsynced(w)

Spec == Init /\ [][Next]_vars

-----------------------------------------------------------------------------
(* Properties.                                                             *)

(* What the target leads to is a whole body with its mode, to a reader at  *)
(* any moment and to one after the machine stopped at any moment.          *)
NeverHalf == data[renamed[Len(renamed)]] = Whole

(* Once a write has reported success, with its directory flushed, what the *)
(* target leads to is that body or one renamed over it since, also after   *)
(* the machine stopped.                                                    *)
SuccessSurvives == settled <= Len(renamed)

(* A write that ended leaves no temporary file, unless the machine stopped *)
(* in the middle of one.                                                   *)
NothingLeft ==
  crashes = 0 => \A w \in Writers : at[w] = "idle" => temp[w] = 0

(* What the target leads to is a whole body with its mode, also after the  *)
(* machine stopped; a write that reported success, with its directory      *)
(* flushed, outlives that stop; and one that ended or failed at any step   *)
(* leaves no temporary file (write_atomic_checked, sync_dir).              *)
FilesAreSound == NeverHalf /\ SuccessSurvives /\ NothingLeft

-----------------------------------------------------------------------------
(* The inductive invariant.                                                *)

Steps == {"idle", "head", "tail", "mode", "flush", "check", "rename", "directory", "failed"}

TypeOK ==
  /\ at \in [Writers -> Steps]
  /\ data \in Seq(SUBSET Whole)
  /\ mine \in [Writers -> {0} \cup Files] /\ temp \in [Writers -> {0} \cup Files]
  /\ renamed \in Seq(Nat) /\ renamed # << >>
  /\ onDisk \in 1 .. Len(renamed) /\ settled \in 1 .. onDisk
  /\ flushed \subseteq Files /\ crashes \in Nat

(* What was flushed is whole, and only that is renamed.                    *)
FlushedIsWhole ==
  /\ \A f \in flushed : data[f] = Whole
  /\ \A i \in DOMAIN renamed : renamed[i] \in flushed

(* A file holds what its writer is past, under the writer's own name until *)
(* it is renamed.                                                          *)
HoldsSoFar(w) ==
  /\ at[w] \in Whole \cup {"flush", "check", "rename"} => mine[w] # 0 /\ temp[w] = mine[w]
  /\ at[w] = "tail" => "head" \in data[mine[w]]
  /\ at[w] = "mode" => {"head", "tail"} \subseteq data[mine[w]]
  /\ at[w] = "flush" => data[mine[w]] = Whole
  /\ at[w] \in {"check", "rename"} => mine[w] \in flushed
  /\ at[w] = "directory" => temp[w] = 0 /\ \E i \in DOMAIN renamed : renamed[i] = mine[w]

WrittenInOrder == \A w \in Writers : HoldsSoFar(w)

Inv == TypeOK /\ FlushedIsWhole /\ WrittenInOrder /\ NothingLeft

-----------------------------------------------------------------------------
(* The writers implement DurableFile: a reader of the name sees finished   *)
(* files only.                                                             *)

Versions == [i \in DOMAIN renamed |-> [file |-> renamed[i], holds |-> data[renamed[i]]]]

Durable == INSTANCE DurableFile WITH Files <- 1 .. MaxWrites, Before <- 1, Body <- Whole,
             versions <- Versions, durable <- onDisk, promised <- settled

(* Each step of a writer is a step of the promise, or none of it.          *)
KeepsPromise == Durable!Spec

(* A file is installed once: the temporary names lead to files apart, none *)
(* of which the target led to.                                             *)
InstalledOnce ==
  /\ \A i, j \in DOMAIN renamed : renamed[i] = renamed[j] => i = j
  /\ \A w \in Writers : temp[w] # 0 =>
       /\ temp[w] \in 1 .. MaxWrites
       /\ \A i \in DOMAIN renamed : renamed[i] # temp[w]
       /\ \A v \in Writers : temp[v] = temp[w] => v = w
=============================================================================
