------------------------------ MODULE KpmStore ------------------------------
(***************************************************************************)
(* The modules under /data/adb/patchnest/kpm: install_kpm.sh writes a      *)
(* module's binary, signature and arguments one after the other and loads  *)
(* it, service.sh loads what is there at every boot under the signature    *)
(* policy and puts what it refuses into failed/, and the WebUI unloads and *)
(* forgets.                                                                *)
(*                                                                         *)
(* A package is abstracted to what the scripts tell apart: whether it is   *)
(* signed, has arguments, is to be loaded at once and comes as source.     *)
(* The power may fail between any two steps.  The user leaves the device   *)
(* alone until service.sh has gone through the modules.  The kernel is     *)
(* patched: on one that is not, service.sh ends before its loop.  The      *)
(* script is run from a shell: it refuses the paths the WebUI gives it.    *)
(***************************************************************************)
EXTENDS Naturals

CONSTANTS
    Ids,       \* module ids; a module's name in the kernel is its id
    Packages,  \* what can be installed
    Signed,    \* packages with a valid signature in them
    WithArgs,  \* packages whose module.prop has args
    Manual,    \* packages with autoLoad=false
    Sources,   \* packages with .c files only
    None,      \* no file, no module
    Empty,     \* a file of size 0
    Torn       \* a file not written to its end (for a signature: or empty)

ASSUME PackageAssumption ==
    /\ Signed \subseteq Packages \ Sources
    /\ WithArgs \subseteq Packages
    /\ Manual \subseteq Packages
    /\ Sources \subseteq Packages
ASSUME FileAssumption ==
    /\ {None, Empty, Torn} \cap Packages = {}
    /\ None # Empty /\ None # Torn /\ Empty # Torn
    /\ None \notin Ids

\* <id>.kpm is what install_kpm.sh writes; the user may put an <id>.ko or an
\* <id>.o there by hand, and service.sh loads it all the same.
File == Ids \X {"kpm", "ko"}
Kpm(id) == <<id, "kpm">>
Content == Packages \cup {None, Empty, Torn}
Policies == {"off", "warn", "strict"}
Loaded == [bin : Packages, args : WithArgs \cup {None}, how : Policies \cup {"user"}]

ASSUME NoneAssumption == None \notin File /\ None \notin Loaded

VARIABLES
    bin,      \* by file: the content of kpm/<file>
    failed,   \* files there is something of in kpm/failed
    sig,      \* by id: the package whose signature <id>.kpm.sig is
    args,     \* by id: the package whose arguments <id>.args holds
    policy,   \* KPM_SIGNATURE_POLICY in the config file
    loaded,   \* by id: the module in the kernel
    inst,     \* the running install_kpm.sh
    rm,       \* ids whose binary an `rm -f` under way will remove
    pc,       \* the next step of the boot
    todo,     \* files that service.sh's loop has not come to
    cur,      \* the loop's file, its arguments and the policy of this boot
    touched   \* ghost: has the user done anything since the boot's loop began

disk == <<bin, failed, sig, args, policy>>
boot == <<pc, todo, cur>>
vars == <<disk, loaded, inst, rm, boot, touched>>

NoFiles == [f \in File |-> None]
NoneLoaded == [id \in Ids |-> None]
NoFile == [file |-> None, args |-> None, policy |-> "off"]
Idle == [step |-> "idle", id |-> None, pkg |-> None]

Init ==
    /\ bin = NoFiles
    /\ failed = {}
    /\ sig = [id \in Ids |-> None]
    /\ args = [id \in Ids |-> None]
    /\ policy = "off"
    /\ loaded = NoneLoaded
    /\ inst = Idle
    /\ rm = {}
    /\ pc = "off"
    /\ todo = {}
    /\ cur = NoFile
    /\ touched = FALSE

\* kpatch kpm load: the kernel refuses a file that is not whole and a module
\* that is there already, and it may refuse for a reason of its own.
Loadable(f) == bin[f] \in Packages /\ loaded[f[1]] = None

----------------------------------------------------------------------------
(* install_kpm.sh.                                                         *)

\* Up to the writes; what the script refuses changes nothing.
Install(id, pkg) ==
    /\ pc = "done" /\ inst.step = "idle"
    /\ inst' = [step |-> "copy", id |-> id, pkg |-> pkg]
    /\ touched' = TRUE
    /\ UNCHANGED <<disk, loaded, rm, boot>>

\* The status of cp is not looked at; it may have truncated the file.
Copy ==
    /\ inst.step = "copy" /\ inst.pkg \notin Sources
    /\ bin' \in {bin} \cup {[bin EXCEPT ![Kpm(inst.id)] = c] : c \in {inst.pkg, Empty, Torn}}
    /\ inst' = [inst EXCEPT !.step = "sign"]
    /\ UNCHANGED <<failed, sig, args, policy, loaded, rm, boot, touched>>

\* Compiled on the device, or kept for later where there is no compiler script;
\* an error of the compiler ends the script.
Compile ==
    /\ inst.step = "copy" /\ inst.pkg \in Sources
    /\ \/ /\ bin' \in {bin, [bin EXCEPT ![Kpm(inst.id)] = inst.pkg]}
          /\ inst' = [inst EXCEPT !.step = "args"]
       \/ /\ bin' \in {bin} \cup {[bin EXCEPT ![Kpm(inst.id)] = c] : c \in {Empty, Torn}}
          /\ inst' = Idle
    /\ UNCHANGED <<failed, sig, args, policy, loaded, rm, boot, touched>>

\* Without a signature in the package the one of the package before stays.
Sign ==
    /\ inst.step = "sign"
    /\ sig' \in IF inst.pkg \in Signed
                THEN {sig} \cup {[sig EXCEPT ![inst.id] = c] : c \in {inst.pkg, Torn}}
                ELSE {sig}
    /\ inst' = [inst EXCEPT !.step = "args"]
    /\ UNCHANGED <<bin, failed, args, policy, loaded, rm, boot, touched>>

\* Mutant: the arguments are written whether the package has any or not.
WriteArgs_Always ==
    /\ inst.step = "args"
    /\ args' = [args EXCEPT ![inst.id] = inst.pkg]
    /\ inst' = [inst EXCEPT !.step = "load"]
    /\ UNCHANGED <<bin, failed, sig, policy, loaded, rm, boot, touched>>

\* Without args in the package those of the package before stay.
WriteArgs ==
    /\ inst.step = "args"
    /\ args' \in IF inst.pkg \in WithArgs
                 THEN {args} \cup {[args EXCEPT ![inst.id] = c] : c \in {inst.pkg, None}}
                 ELSE {args}
    /\ inst' = [inst EXCEPT !.step = "load"]
    /\ UNCHANGED <<bin, failed, sig, policy, loaded, rm, boot, touched>>

\* At once, whatever the policy, with the arguments of the package itself.
LoadNow ==
    /\ inst.step = "load"
    /\ inst' = Idle
    /\ \/ UNCHANGED loaded
       \/ /\ inst.pkg \notin Manual
          /\ Loadable(Kpm(inst.id))
          /\ loaded' = [loaded EXCEPT ![inst.id] =
                [bin |-> bin[Kpm(inst.id)],
                 args |-> IF inst.pkg \in WithArgs THEN inst.pkg ELSE None,
                 how |-> "user"]]
    /\ UNCHANGED <<disk, rm, boot, touched>>

----------------------------------------------------------------------------
(* The WebUI and the user.                                                 *)

\* forgetModule, which is not awaited, and kpatch kpm unload, which may fail.
Unload(id) ==
    /\ pc = "done" /\ loaded[id] # None
    /\ rm' = rm \cup {id}
    /\ loaded' \in {loaded, [loaded EXCEPT ![id] = None]}
    /\ touched' = TRUE
    /\ UNCHANGED <<disk, inst, boot>>

Forget(id) ==
    /\ id \in rm
    /\ rm' = rm \ {id}
    /\ bin' = [bin EXCEPT ![Kpm(id)] = None]
    /\ UNCHANGED <<failed, sig, args, policy, loaded, inst, boot, touched>>

\* The selector of the settings page.
SetPolicy(p) ==
    /\ pc = "done"
    /\ policy' = p
    /\ touched' = TRUE
    /\ UNCHANGED <<bin, failed, sig, args, loaded, inst, rm, boot>>

\* A module is copied there by hand.
PutFile(f, pkg) ==
    /\ pc = "done"
    /\ f[2] = "ko"
    /\ bin' = [bin EXCEPT ![f] = pkg]
    /\ touched' = TRUE
    /\ UNCHANGED <<failed, sig, args, policy, loaded, inst, rm, boot>>

User ==
    \/ \E id \in Ids, pkg \in Packages : Install(id, pkg)
    \/ \E id \in Ids : Unload(id)
    \/ \E p \in Policies : SetPolicy(p)
    \/ \E f \in File, pkg \in Packages : PutFile(f, pkg)

Installer == Copy \/ Compile \/ Sign \/ WriteArgs \/ LoadNow

----------------------------------------------------------------------------
(* service.sh.                                                             *)

\* The policy is read and the patterns are expanded once.
Boot ==
    /\ pc = "off"
    /\ pc' = "pick"
    /\ todo' = {f \in File : bin[f] # None}
    /\ cur' = [NoFile EXCEPT !.policy = policy]
    /\ touched' = FALSE
    /\ UNCHANGED <<disk, loaded, inst, rm>>

\* The next file, the .kpm ones first; an empty one is skipped.
Pick(f) ==
    /\ pc = "pick" /\ f \in todo
    /\ f[2] = "ko" => \A g \in todo : g[2] = "ko"
    /\ todo' = todo \ {f}
    /\ IF bin[f] = Empty
       THEN UNCHANGED <<pc, cur>>
       ELSE /\ pc' = IF cur.policy = "off" THEN "load" ELSE "verify"
            /\ cur' = [cur EXCEPT !.file = f, !.args = args[f[1]]]
    /\ UNCHANGED <<disk, loaded, inst, rm, touched>>

\* `continue`, and the end of the loop's body.
Continue ==
    /\ pc' = "pick"
    /\ cur' = [NoFile EXCEPT !.policy = cur.policy]

GoOn(step) == pc' = step /\ UNCHANGED cur

EndLoop ==
    /\ pc = "pick" /\ todo = {}
    /\ pc' = "done"
    /\ cur' = NoFile
    /\ UNCHANGED <<disk, loaded, inst, rm, todo, touched>>

\* Mutant: a file that is refused is left where it is.
Quarantine_Skipped(f) == UNCHANGED <<bin, failed>>

\* mv kpm/<file> kpm/failed/<file>
Quarantine(f) ==
    /\ bin' = [bin EXCEPT ![f] = None]
    /\ failed' = failed \cup {f}

\* Mutant: any signature will do.
Valid_AnyFile(f) == sig[f[1]] # None

\* verify_kpm_sig, where openssl knows Ed25519.
Valid(f) == sig[f[1]] = bin[f] /\ bin[f] \in Signed

\* Without a signature the policy decides; one that does not verify is always
\* refused, and so is every one where openssl is missing.
Verify ==
    LET f == cur.file IN
    /\ pc = "verify"
    /\ \/ /\ sig[f[1]] = None /\ cur.policy = "strict"
          /\ Quarantine(f)
          /\ Continue
       \/ /\ sig[f[1]] = None /\ cur.policy = "warn"
          /\ GoOn("load")
          /\ UNCHANGED <<bin, failed>>
       \/ /\ sig[f[1]] # None /\ Valid(f)
          /\ GoOn("load")
          /\ UNCHANGED <<bin, failed>>
       \/ /\ sig[f[1]] # None
          /\ Quarantine(f)
          /\ GoOn("unsign")
    /\ UNCHANGED <<sig, args, policy, loaded, inst, rm, todo, touched>>

\* The signature follows the file, whichever file of that id it was.
Unsign ==
    /\ pc = "unsign"
    /\ sig' = [sig EXCEPT ![cur.file[1]] = None]
    /\ Continue
    /\ UNCHANGED <<bin, failed, args, policy, loaded, inst, rm, todo, touched>>

Load ==
    LET f == cur.file IN
    /\ pc = "load"
    /\ Continue
    /\ \/ /\ Loadable(f)
          /\ loaded' = [loaded EXCEPT ![f[1]] =
                           [bin |-> bin[f], args |-> cur.args, how |-> cur.policy]]
          /\ UNCHANGED <<bin, failed>>
       \/ Quarantine(f) /\ UNCHANGED loaded
    /\ UNCHANGED <<sig, args, policy, inst, rm, todo, touched>>

Service == Boot \/ (\E f \in File : Pick(f)) \/ EndLoop \/ Verify \/ Unsign \/ Load

\* The power fails, or a module brings the kernel down.
Crash ==
    /\ pc # "off"
    /\ pc' = "off"
    /\ loaded' = NoneLoaded
    /\ inst' = Idle
    /\ rm' = {}
    /\ todo' = {}
    /\ cur' = NoFile
    /\ touched' = FALSE
    /\ UNCHANGED disk

Next ==
    \/ User
    \/ Installer
    \/ \E id \in Ids : Forget(id)
    \/ Service
    \/ Crash

Spec == Init /\ [][Next]_vars

----------------------------------------------------------------------------
(* Properties.                                                             *)

TypeOK ==
    /\ bin \in [File -> Content]
    /\ failed \subseteq File
    /\ sig \in [Ids -> Signed \cup {None, Torn}]
    /\ args \in [Ids -> WithArgs \cup {None}]
    /\ policy \in Policies
    /\ loaded \in [Ids -> Loaded \cup {None}]
    /\ inst \in [step : {"idle", "copy", "sign", "args", "load"},
                 id : Ids \cup {None}, pkg : Packages \cup {None}]
    /\ rm \subseteq Ids
    /\ pc \in {"off", "pick", "verify", "unsign", "load", "done"}
    /\ todo \subseteq File
    /\ cur \in [file : File \cup {None}, args : WithArgs \cup {None}, policy : Policies]
    /\ touched \in BOOLEAN

\* A module that a boot under the strict policy has loaded is one whose own
\* signature came with it, although a signature outlives its package, is shared
\* by all files of an id and goes with the first one refused
\* (service.sh:151-175, install_kpm.sh:187, 224-235).
StrictLoadsSigned ==
    \A id \in Ids :
        loaded[id] # None /\ loaded[id].how = "strict" => loaded[id].bin \in Signed

\* When service.sh has gone through the modules and the user has done nothing
\* yet, the kernel has exactly the modules that the directory has: each file
\* that is not empty was loaded, and what was refused or would hide a sibling
\* is out of the way of the next boot (service.sh:137-190).
DoneMatchesStore ==
    pc = "done" /\ ~touched =>
        /\ \A f \in File : bin[f] \notin {None, Empty} =>
               loaded[f[1]] # None /\ loaded[f[1]].bin = bin[f]
        /\ \A id \in Ids : loaded[id] # None =>
               \E f \in File : f[1] = id /\ bin[f] = loaded[id].bin

----------------------------------------------------------------------------
(* What a comment says and the code does not do.                           *)

\* "warn: Load unsigned modules but emit a visible warning" (service.sh:34-35):
\* a boot under warn refuses no installed package that came without a signature.
WarnLoadsUnsigned ==
    [][/\ pc = "verify" /\ cur.policy = "warn"
       /\ cur.file[2] = "kpm" /\ bin[cur.file] \in Packages \ Signed
       => pc' # "unsign"]_vars
=============================================================================
