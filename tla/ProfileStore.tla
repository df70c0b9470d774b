---------------------------- MODULE ProfileStore ----------------------------
(***************************************************************************)
(* The profile file of `local setup' and `local profiles remove': setups   *)
(* that save to one path, each up to three times (unverified, then         *)
(* runnable or blocked), every save through a temporary file and a backup  *)
(* of what it replaces.  A call on a file may fail, a setup may be         *)
(* interrupted or die at any step; unlinking a temporary file succeeds.    *)
(***************************************************************************)
EXTENDS Naturals, FiniteSets

CONSTANTS
    None,       \* no value
    Setups,     \* the calls of setup_profile with this --output
    MaxDeaths,  \* bound: setups that die
    MaxRemovals \* bound: profiles removed

VARIABLES
    path,       \* the profile file: None, or what it holds
    backups,    \* what the .bak files hold that were written to their end
    temps,      \* setups whose temporary file exists
    pc,         \* where a setup is
    draft,      \* its profile
    copied,     \* what save_profile read to back up
    proven,     \* history: setups whose model loaded and generated
    stood,      \* history: every profile that was at the path
    raced,      \* history: those put there between another save's look and its replacement
    removed     \* history: those the user removed

profileVars == <<path, backups, temps, pc, draft, copied, proven, stood, raced, removed>>

Statuses == {"UNVERIFIED-PROFILE", "RUNNABLE-UNTUNED", "ENVIRONMENT-BLOCKED"}
Profile(s, status) == [setup |-> s, status |-> status]
Profiles == [setup : Setups \cup {None}, status : Statuses]

ProfileStoreAssumption ==
    None \notin Setups \cup Profiles /\ MaxDeaths \in Nat /\ MaxRemovals \in Nat

(* What an earlier setup left. *)
Earlier == Profile(None, "RUNNABLE-UNTUNED")

Saving   == {"save", "look", "backup", "revise", "replace"}
Exposed  == {"backup", "revise", "replace"}
Finished == {"done", "raised", "dead"}

Init ==
    /\ path \in {None, Earlier}
    /\ stood = {path} \ {None}
    /\ backups = {} /\ temps = {}
    /\ pc = [s \in Setups |-> "inspect"]
    /\ draft = [s \in Setups |-> Profile(s, "UNVERIFIED-PROFILE")]
    /\ copied = [s \in Setups |-> None]
    /\ proven = {} /\ raced = {} /\ removed = {}

Goto(s, where) == pc' = [pc EXCEPT ![s] = where]
Is(s, status)  == draft[s].status = status

-----------------------------------------------------------------------------
(* setup_profile *)

(* The model, the runtime, the hardware: any of them may be refused. *)
Inspect(s) ==
    /\ pc[s] = "inspect"
    /\ \/ Goto(s, "save")
       \/ Goto(s, "raised")
    /\ UNCHANGED <<path, backups, temps, draft, copied, proven, stood, raced, removed>>

(* The profile is to be saved once more, with another status. *)
SaveAs(s, status) == Goto(s, "save") /\ draft' = [draft EXCEPT ![s].status = status]

(* The server is started, asked for a few tokens and stopped. *)
Probe(s) ==
    /\ pc[s] = "probe"
    /\ \/ SaveAs(s, "RUNNABLE-UNTUNED") /\ proven' = proven \cup {s}
       \/ SaveAs(s, "ENVIRONMENT-BLOCKED") /\ UNCHANGED proven
       \/ Goto(s, "raised") /\ UNCHANGED <<draft, proven>>         \* interrupted
    /\ UNCHANGED <<path, backups, temps, copied, stood, raced, removed>>

(* save_profile has returned: of the first save, --no-probe ends the setup. *)
Saved(s) ==
    \/ Is(s, "UNVERIFIED-PROFILE") /\ (Goto(s, "probe") \/ Goto(s, "done"))
    \/ Is(s, "RUNNABLE-UNTUNED") /\ Goto(s, "done")
    \/ Is(s, "ENVIRONMENT-BLOCKED") /\ Goto(s, "raised")

(* save_profile has raised: of the second save, the except clause saves again; *)
(* an interrupt passes through it.                                             *)
Raises(s) ==
    \/ Goto(s, "raised") /\ UNCHANGED draft
    \/ Is(s, "RUNNABLE-UNTUNED") /\ SaveAs(s, "ENVIRONMENT-BLOCKED")

-----------------------------------------------------------------------------
(* save_profile *)

WriteTemp(s) ==
    /\ pc[s] = "save"
    /\ temps' = temps \cup {s}
    /\ Goto(s, "look")
    /\ UNCHANGED <<path, backups, draft, copied, proven, stood, raced, removed>>

LookReplacesNew(s) ==                       \* faulty: nothing is backed up
    /\ pc[s] = "look"
    /\ Goto(s, "replace")
    /\ UNCHANGED <<path, backups, temps, draft, copied, proven, stood, raced, removed>>

Look(s) ==
    /\ pc[s] = "look"
    /\ Goto(s, IF path = None THEN "replace" ELSE "backup")
    /\ UNCHANGED <<path, backups, temps, draft, copied, proven, stood, raced, removed>>

(* path.read_bytes raises when the profile is gone by now: see SaveFails. *)
Read(s) ==
    /\ pc[s] = "backup" /\ path # None
    /\ copied' = [copied EXCEPT ![s] = path]
    /\ Goto(s, "revise")
    /\ UNCHANGED <<path, backups, temps, draft, proven, stood, raced, removed>>

Revise(s) ==
    /\ pc[s] = "revise"
    /\ backups' = backups \cup {copied[s]}
    /\ copied' = [copied EXCEPT ![s] = None]
    /\ Goto(s, "replace")
    /\ UNCHANGED <<path, temps, draft, proven, stood, raced, removed>>

Replace(s) ==
    /\ pc[s] = "replace"
    /\ path' = draft[s]
    /\ temps' = temps \ {s}
    /\ stood' = stood \cup {draft[s]}
    /\ raced' = raced \cup (IF \E o \in Setups \ {s} : pc[o] \in Exposed THEN {draft[s]} ELSE {})
    /\ Saved(s)
    /\ UNCHANGED <<backups, draft, copied, proven, removed>>

(* A call fails, or is interrupted; `finally' unlinks the temporary file. *)
SaveFails(s) ==
    /\ pc[s] \in Saving
    /\ temps' = temps \ {s}
    /\ copied' = [copied EXCEPT ![s] = None]
    /\ Raises(s)
    /\ UNCHANGED <<path, backups, proven, stood, raced, removed>>

Die(s) ==
    /\ pc[s] \notin Finished
    /\ Cardinality({o \in Setups : pc[o] = "dead"}) < MaxDeaths
    /\ Goto(s, "dead")
    /\ UNCHANGED <<path, backups, temps, draft, copied, proven, stood, raced, removed>>

-----------------------------------------------------------------------------
(* profiles remove: the profile is loaded, and what is at the path by then is *)
(* unlinked.                                                                  *)

Remove ==
    /\ path # None /\ Cardinality(removed) < MaxRemovals
    /\ path' = None
    /\ removed' = removed \cup {path}
    /\ UNCHANGED <<backups, temps, pc, draft, copied, proven, stood, raced>>

Setup(s) ==
    \/ Inspect(s) \/ Probe(s)
    \/ WriteTemp(s) \/ Look(s) \/ Read(s) \/ Revise(s) \/ Replace(s) \/ SaveFails(s)

Next ==
    \/ \E s \in Setups : Setup(s) \/ Die(s)
    \/ Remove

(* Every call returns; a user need not remove anything. *)
Spec == Init /\ [][Next]_profileVars /\ \A s \in Setups : WF_profileVars(Setup(s))

-----------------------------------------------------------------------------
(* Correctness properties *)

Done == \A s \in Setups : pc[s] \in Finished

TypeOK ==
    /\ path \in Profiles \cup {None}
    /\ backups \subseteq Profiles
    /\ temps \subseteq Setups
    /\ pc \in [Setups -> {"inspect", "probe"} \cup Saving \cup Finished]
    /\ \A s \in Setups : draft[s] \in Profiles /\ copied[s] \in Profiles \cup {None}
    /\ proven \subseteq Setups
    /\ stood \cup raced \cup removed \subseteq Profiles

(***************************************************************************)
(* A profile is runnable only if its own setup loaded the model, whatever  *)
(* other setups found; a setup that saved it as runnable never calls it    *)
(* blocked; and one that returned has put its profile at the path.         *)
(***************************************************************************)
ProfileIsTrue ==
    /\ \A p \in stood : p.status = "RUNNABLE-UNTUNED" => p.setup \in proven \cup {None}
    /\ \A s \in Setups :
        /\ {Profile(s, "RUNNABLE-UNTUNED"), Profile(s, "ENVIRONMENT-BLOCKED")} \subseteq stood
                => FALSE
        /\ pc[s] = "done" => draft[s] \in stood /\ ~Is(s, "ENVIRONMENT-BLOCKED")

(***************************************************************************)
(* Setup keeps a backup when replacing a profile: what was at the path is  *)
(* there, or whole in a backup, unless the user removed it or it was put   *)
(* there while another save was under way.  Only a setup that died leaves  *)
(* a temporary file.                                                       *)
(***************************************************************************)
NothingIsLost ==
    /\ stood \subseteq {path} \cup backups \cup raced \cup removed
    /\ \A s \in temps : pc[s] \in Saving \cup {"dead"}
=============================================================================
