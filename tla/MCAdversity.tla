----------------------------- MODULE MCAdversity -----------------------------
(***************************************************************************)
(* A small instance of the components that keep what they promise whatever *)
(* is around them: a judge whose proxy lies (UpstreamJudge), a registry    *)
(* and a stop whose kernel gives the numbers of processes to others and    *)
(* whose reads fail (SessionStop: three numbers), and two writers of one   *)
(* file on a machine that stops anywhere (AtomicFile).                     *)
(*                                                                         *)
(* They share no state, so a behaviour of all is one of each: a run takes  *)
(* the steps of one of them, chosen at the start.  A pruning walk and a    *)
(* stop meet in the record files only: here the walk judges between two    *)
(* stops, and what is proved has them overlap.                             *)
(***************************************************************************)
EXTENDS MCUpstreamJudge

CONSTANTS Pids, MaxStarts, Writers, MaxWrites, MaxCrashes

VARIABLES
  part,
  who, ppid, zombies, launcher, num, born, records, recorded, killed, hit, stop, target, pin,
  edges, cage, listed, owed, todo, member, forced, prune, candidate, unread, freed, slipped,
  at, mine, temp, renamed, onDisk, data, flushed, settled, crashes

stopVars == <<who, ppid, zombies, launcher, num, born, records, recorded, killed, hit, stop,
              target, pin, edges, cage, listed, owed, todo, member, forced, prune, candidate,
              unread, freed, slipped>>
fileVars == <<at, mine, temp, renamed, onDisk, data, flushed, settled, crashes>>

Stop == INSTANCE SessionStop
File == INSTANCE AtomicFile

ASSUME StopAssumption == Stop!PidsAssumption /\ Stop!BoundsAssumption
ASSUME FileAssumption == File!BoundsAssumption

(* The numbers are interchangeable: they come into use in one order.       *)
InUse == {num[s] : s \in 1 .. born}
NextUnused == \A n \in InUse', m \in Pids : m < n => m \in InUse'

AdverseInit ==
  /\ part \in {"judge", "sessions", "files"} /\ room = "roomy"
  /\ Init /\ Stop!Init /\ File!Init
  /\ part # "judge" => asks = [r \in Requests |-> "/ask"]

AdverseNext ==
  \/ part = "judge" /\ Next /\ UNCHANGED <<part, room, stopVars, fileVars>>
  \/ /\ part = "sessions" /\ Stop!Next
     /\ prune' = "idle" \/ stop' = "idle"
     /\ NextUnused
     /\ UNCHANGED <<part, room, vars, fileVars>>
  \/ part = "files" /\ File!Next /\ UNCHANGED <<part, room, vars, stopVars>>

AdverseSpec == AdverseInit /\ [][AdverseNext]_<<part, room, vars, stopVars, fileVars>>

-----------------------------------------------------------------------------
(* The properties of SessionStop and AtomicFile.                           *)

(* A stop signals its process and the processes it found, and, unless a    *)
(* number went to another process while it looked, only cages of launchers *)
(* of its number (Session::stop, signal_if_match).                         *)
SignalsWhatItFound == Stop!SignalsWhatItFound

(* A session that runs, was not killed and could be read has its record    *)
(* (Registry::scan, is_alive, reap).                                       *)
RunningIsRecorded == Stop!RunningIsRecorded

(* A stop that ends has killed what its two lists named (stop_pinned).     *)
MembersKilled == Stop!MembersKilled

(* What the target leads to is a whole body with its mode, also after the  *)
(* machine stopped; a write that reported success, with its directory      *)
(* flushed, outlives that stop; and one that ended or failed at any step   *)
(* leaves no temporary file (write_atomic_checked, sync_dir).              *)
FilesAreSound == File!FilesAreSound
=============================================================================
