----------------------------- MODULE Boot_proofs -----------------------------
(***************************************************************************)
(* Theorems about a boot.  BootRecovery: what post-fs-data.sh and          *)
(* service.sh leave in the bootloop counter and the signal files, for      *)
(* every threshold.  KpmStore, for any modules and packages: what the      *)
(* strict policy loads, and what the kernel has when service.sh has gone   *)
(* through the modules.                                                    *)
(***************************************************************************)
EXTENDS BootRecovery, KpmStore, TLAPS

----------------------------------------------------------------------------
(* The bootloop counter.                                                   *)

\* What each step of post-fs-data.sh knows of the counter and of the files.
Counting ==
    /\ stage \in {"prepare", "read"} => count < begun \/ begun = Threshold
    /\ stage \in {"truncate", "write"} => current <= begun
    /\ stage \in {"mark", "request"} => count = Threshold
    /\ stage \in {"unmark", "unrequest"} => count # Threshold
    /\ stage = "request" => "marker" \in signal
    /\ stage = "unrequest" => "marker" \notin signal

\* Types, the counter and what the steps know.
Bounded == RecoveryTypeOK /\ CountIsHonest /\ Counting

CounterInv == Bounded /\ SignalIsExact

LEMMA CounterInit == RecoveryInit => CounterInv
  <1> SUFFICES ASSUME RecoveryInit PROVE CounterInv
    OBVIOUS
  <1>1. 0 \in 0 .. Threshold
    BY ThresholdAssumption
  <1> QED
    BY <1>1 DEF RecoveryInit, CounterInv, Bounded, RecoveryTypeOK, CountIsHonest, SignalIsExact, Counting, Early, Files

LEMMA BoundedStep == Bounded /\ [RecoveryNext]_recovery_vars => Bounded'
  <1> SUFFICES ASSUME Bounded, [RecoveryNext]_recovery_vars PROVE Bounded'
    OBVIOUS
  <1> USE DEF Bounded, RecoveryTypeOK, CountIsHonest, Counting, Early, Files
  <1>0. Threshold \in Nat /\ Threshold > 0
    BY ThresholdAssumption
  <1>1. CASE PowerOn
    BY <1>0, <1>1 DEF PowerOn, Goto
  <1>2. CASE Halt
    BY <1>0, <1>2 DEF Halt
  <1>3. CASE Prepare
    BY <1>0, <1>3 DEF Prepare, Goto
  <1>4. CASE Read
    BY <1>0, <1>4 DEF Read
  <1>5. CASE Truncate
    BY <1>0, <1>5 DEF Truncate, Goto
  <1>6. CASE Write
    BY <1>0, <1>6 DEF Write
  <1>7. CASE Mark
    BY <1>0, <1>7 DEF Mark, Goto
  <1>8. CASE Request
    BY <1>0, <1>8 DEF Request, Goto
  <1>9. CASE Unmark
    BY <1>0, <1>9 DEF Unmark, Goto
  <1>10. CASE Unrequest
    BY <1>0, <1>10 DEF Unrequest, Goto
  <1>11. CASE Abort
    BY <1>0, <1>11 DEF Abort
  <1>12. CASE Hello
    BY <1>0, <1>12 DEF Hello
  <1>13. CASE Reset
    BY <1>0, <1>13 DEF Reset, Goto
  <1>14. CASE Clear
    BY <1>0, <1>14 DEF Clear, Goto
  <1>15. CASE ClearRequest
    BY <1>0, <1>15 DEF ClearRequest, Goto
  <1>16. CASE LoadKpms
    BY <1>0, <1>16 DEF LoadKpms, Goto
  <1>17. CASE UNCHANGED recovery_vars
    BY <1>17 DEF recovery_vars
  <1> QED
    BY <1>1, <1>2, <1>3, <1>4, <1>5, <1>6, <1>7, <1>8, <1>9, <1>10, <1>11,
       <1>12, <1>13, <1>14, <1>15, <1>16, <1>17 DEF RecoveryNext, Scripts

LEMMA ExactStep == Bounded /\ SignalIsExact /\ [RecoveryNext]_recovery_vars => SignalIsExact'
  <1> SUFFICES ASSUME Bounded, SignalIsExact, [RecoveryNext]_recovery_vars, stage' = "late"
               PROVE  SignalIsExact'
    BY DEF SignalIsExact
  <1>1. CASE Request
    <2>1. count = Threshold /\ begun = Threshold /\ count' = count /\ begun' = begun
      BY <1>1, ThresholdAssumption DEF Bounded, RecoveryTypeOK, CountIsHonest, Counting,
         Request, Goto
    <2>2. signal' = Files
      BY <1>1 DEF Bounded, RecoveryTypeOK, Counting, Files, Request, Goto
    <2> QED
      BY <2>1, <2>2 DEF SignalIsExact
  <1>2. CASE Unrequest
    <2>1. count' # Threshold
      BY <1>2 DEF Bounded, Counting, Unrequest, Goto
    <2>2. signal' = {}
      BY <1>2 DEF Bounded, RecoveryTypeOK, Counting, Files, Unrequest, Goto
    <2> QED
      BY <2>1, <2>2 DEF SignalIsExact, Files
  <1>3. CASE UNCHANGED recovery_vars
    BY <1>3 DEF SignalIsExact, recovery_vars
  <1>4. CASE RecoveryNext /\ ~Request /\ ~Unrequest
    BY <1>4 DEF RecoveryNext, Scripts, PowerOn, Halt, Prepare, Read, Truncate, Write, Mark,
       Unmark, Abort, Hello, Reset, Clear, ClearRequest, LoadKpms, Goto
  <1> QED
    BY <1>1, <1>2, <1>3, <1>4

LEMMA CounterInductive == RecoverySpec => []CounterInv
  <1>1. CounterInv /\ [RecoveryNext]_recovery_vars => CounterInv'
    BY BoundedStep, ExactStep DEF CounterInv
  <1> QED
    BY CounterInit, <1>1, PTL DEF RecoverySpec

\* The counter and the files keep their types: it never grows past the
\* threshold.
THEOREM CounterTypes == RecoverySpec => []RecoveryTypeOK
  <1>1. CounterInv => RecoveryTypeOK
    BY DEF CounterInv, Bounded
  <1> QED
    BY <1>1, CounterInductive, PTL

\* However the writes of several boots are cut short, the counter never claims
\* more boots than have begun since the last healthy one.
THEOREM Honest == RecoverySpec => []CountIsHonest
  <1>1. CounterInv => CountIsHonest
    BY DEF CounterInv, Bounded
  <1> QED
    BY <1>1, CounterInductive, PTL

\* After post-fs-data.sh the two files agree with each other and with the count,
\* and are there only after Threshold boots.
THEOREM Exact == RecoverySpec => []SignalIsExact
  <1>1. CounterInv => SignalIsExact
    BY DEF CounterInv, Bounded
  <1> QED
    BY <1>1, CounterInductive, PTL

----------------------------------------------------------------------------
(* The loop over the modules.                                              *)

\* service.sh has come to its loop and the user has not done anything since.
Working == pc \in {"pick", "verify", "unsign", "load"}
Quiet == Working \/ (pc = "done" /\ ~touched)

\* Nobody installs or removes anything before the loop's end, and who does so
\* afterwards has been noticed.
Alone ==
    /\ inst.step # "idle" => pc = "done" /\ touched
    /\ rm # {} => pc = "done" /\ touched
    /\ inst.step # "idle" => inst.id \in Ids /\ inst.pkg \in Packages

\* The loop's file is none of those it has not come to.
AtFile ==
    /\ pc \in {"verify", "unsign", "load"} => cur.file \in File \ todo
    /\ pc \notin {"verify", "unsign", "load"} => cur.file = None
    /\ pc \in {"off", "done"} => todo = {}
    /\ pc = "off" => loaded = NoneLoaded

\* Files the loop has done with.
Passed == {f \in File : f \notin todo /\ f # cur.file}

\* They and the modules in the kernel belong to each other.
PassedIsLoaded == Quiet =>
    \A f \in Passed : bin[f] \notin {None, Empty} =>
        loaded[f[1]] # None /\ loaded[f[1]].bin = bin[f]
LoadedIsPassed == Quiet =>
    \A id \in Ids : loaded[id] # None =>
        \E f \in Passed : f[1] = id /\ bin[f] = loaded[id].bin
Unsigning == pc = "unsign" => bin[cur.file] = None

\* Under the strict policy only a signed file comes to the load.
StrictLoad ==
    pc = "load" /\ cur.policy = "strict" => bin[cur.file] \in Signed

TypeInv == TypeOK /\ Alone /\ AtFile

----------------------------------------------------------------------------
(* Type correctness.                                                       *)

LEMMA TypeInit == Init => TypeInv
  <1> SUFFICES ASSUME Init PROVE TypeInv
    OBVIOUS
  <1>1. /\ bin \in [File -> Content]
        /\ sig \in [Ids -> Signed \cup {None, Torn}]
        /\ args \in [Ids -> WithArgs \cup {None}]
        /\ loaded \in [Ids -> Loaded \cup {None}]
    BY DEF Init, NoFiles, NoneLoaded, Content
  <1>2. /\ inst \in [step : {"idle", "copy", "sign", "args", "load"},
                     id : Ids \cup {None}, pkg : Packages \cup {None}]
        /\ inst.step = "idle"
    BY DEF Init, Idle
  <1>3. /\ cur \in [file : File \cup {None}, args : WithArgs \cup {None}, policy : Policies]
        /\ cur.file = None
    BY DEF Init, NoFile, Policies
  <1> QED
    BY <1>1, <1>2, <1>3 DEF Init, TypeInv, TypeOK, Alone, AtFile, Policies

\* The user.
LEMMA TypeUser ==
    ASSUME TypeInv, User PROVE TypeInv'
  <1> USE DEF TypeInv, TypeOK, Alone, AtFile, disk, boot
  <1>1. ASSUME NEW id \in Ids, NEW pkg \in Packages, Install(id, pkg) PROVE TypeInv'
    BY <1>1 DEF Install
  <1>2. ASSUME NEW id \in Ids, Unload(id) PROVE TypeInv'
    BY <1>2 DEF Unload
  <1>3. ASSUME NEW p \in Policies, SetPolicy(p) PROVE TypeInv'
    BY <1>3 DEF SetPolicy
  <1>4. ASSUME NEW f \in File, NEW pkg \in Packages, PutFile(f, pkg) PROVE TypeInv'
    BY <1>4 DEF PutFile, Content
  <1> QED
    BY <1>1, <1>2, <1>3, <1>4 DEF User

\* install_kpm.sh.
LEMMA TypeInstaller ==
    ASSUME TypeInv, Installer PROVE TypeInv'
  <1> USE DEF TypeInv, TypeOK, Alone, AtFile, disk, boot
  <1>1. ASSUME inst.step # "idle"
        PROVE  Kpm(inst.id) \in File /\ inst.id \in Ids /\ inst.pkg \in Packages
    BY <1>1 DEF Kpm, File
  <1>2. CASE Copy
    <2>1. bin' \in [File -> Content]
      BY <1>1, <1>2 DEF Copy, Content
    <2> QED
      BY <1>1, <1>2, <2>1 DEF Copy
  <1>3. CASE Compile
    <2>1. bin' \in [File -> Content]
      BY <1>1, <1>3 DEF Compile, Content
    <2> QED
      BY <1>1, <1>3, <2>1 DEF Compile, Idle
  <1>4. CASE Sign
    <2>1. sig' \in [Ids -> Signed \cup {None, Torn}]
      BY <1>1, <1>4 DEF Sign
    <2> QED
      BY <1>1, <1>4, <2>1 DEF Sign
  <1>5. CASE WriteArgs
    <2>1. args' \in [Ids -> WithArgs \cup {None}]
      BY <1>1, <1>5 DEF WriteArgs
    <2> QED
      BY <1>1, <1>5, <2>1 DEF WriteArgs
  <1>6. CASE LoadNow
    <2>1. loaded' \in [Ids -> Loaded \cup {None}]
      BY <1>1, <1>6 DEF LoadNow, Loadable, Loaded
    <2> QED
      BY <1>6, <2>1 DEF LoadNow, Idle
  <1> QED
    BY <1>2, <1>3, <1>4, <1>5, <1>6 DEF Installer

\* The loop and the rest.
LEMMA TypeService ==
    ASSUME TypeInv, Service PROVE TypeInv'
  <1> USE DEF TypeInv, TypeOK, Alone, AtFile, disk, boot
  <1>1. CASE Boot
    BY <1>1 DEF Boot, NoFile
  <1>2. ASSUME NEW f \in File, Pick(f) PROVE TypeInv'
    <2>1. args[f[1]] \in WithArgs \cup {None}
      BY DEF File
    <2>2. CASE bin[f] = Empty
      BY <1>2, <2>2 DEF Pick
    <2>3. CASE bin[f] # Empty
      <3>1. /\ cur' = [file |-> f, args |-> args[f[1]], policy |-> cur.policy]
            /\ pc' \in {"load", "verify"}
        BY <1>2, <2>3 DEF Pick
      <3> QED
        BY <1>2, <2>1, <3>1 DEF Pick
    <2> QED
      BY <2>2, <2>3
  <1>3. CASE EndLoop
    BY <1>3 DEF EndLoop, NoFile, Policies
  <1>4. CASE Verify
    <2>1. cur.file \in File
      BY <1>4 DEF Verify
    <2>2. bin' \in [File -> Content] /\ failed' \subseteq File
      BY <1>4, <2>1 DEF Verify, Quarantine, Content
    <2>3. \/ pc' = "pick" /\ cur' = [NoFile EXCEPT !.policy = cur.policy]
          \/ pc' \in {"load", "unsign"} /\ cur' = cur
      BY <1>4 DEF Verify, Continue, GoOn
    <2> QED
      BY <1>4, <2>2, <2>3 DEF Verify, NoFile
  <1>5. CASE Unsign
    BY <1>5 DEF Unsign, Continue, NoFile
  <1>6. CASE Load
    <2>1. cur.file \in File /\ cur.file[1] \in Ids
      BY <1>6 DEF Load, File
    <2>2. /\ bin' \in [File -> Content] /\ failed' \subseteq File
          /\ loaded' \in [Ids -> Loaded \cup {None}]
      BY <1>6, <2>1 DEF Load, Loadable, Quarantine, Content, Loaded
    <2> QED
      BY <1>6, <2>2 DEF Load, Continue, NoFile
  <1> QED
    BY <1>1, <1>2, <1>3, <1>4, <1>5, <1>6 DEF Service

LEMMA TypeStep == TypeInv /\ [Next]_vars => TypeInv'
  <1> SUFFICES ASSUME TypeInv, [Next]_vars PROVE TypeInv'
    OBVIOUS
  <1>1. ASSUME NEW id \in Ids, Forget(id) PROVE TypeInv'
    BY <1>1 DEF Forget, TypeInv, TypeOK, Alone, AtFile, boot, Content
  <1>2. CASE Crash
    BY <1>2 DEF Crash, TypeInv, TypeOK, Alone, AtFile, disk, NoneLoaded, Idle, NoFile, Policies
  <1>3. CASE UNCHANGED vars
    BY <1>3 DEF vars, disk, boot, TypeInv, TypeOK, Alone, AtFile
  <1> QED
    BY <1>1, <1>2, <1>3, TypeUser, TypeInstaller, TypeService DEF Next

\* Every variable keeps its type, whatever the modules and packages
\* (install_kpm.sh, service.sh, kpm.js).
THEOREM TypeCorrect == Spec => []TypeOK
  <1>1. TypeInv => TypeOK
    BY DEF TypeInv
  <1> QED
    BY <1>1, TypeInit, TypeStep, PTL DEF Spec

----------------------------------------------------------------------------
(* The strict policy.                                                      *)

LEMMA StrictStep ==
    ASSUME TypeInv, TypeInv', StrictLoad, StrictLoadsSigned, [Next]_vars
    PROVE  StrictLoad' /\ StrictLoadsSigned'
  <1> USE DEF disk, boot
  <1>1. ASSUME User \/ Installer \/ \E id \in Ids : Forget(id) PROVE pc' # "load"
    <2>1. pc' = pc /\ pc = "done"
      BY <1>1 DEF User, Install, Unload, SetPolicy, PutFile, Installer, Copy, Compile, Sign,
                  WriteArgs, LoadNow, Forget, TypeInv, Alone
    <2> QED
      BY <2>1
  <1>2. ASSUME User \/ Installer \/ \E id \in Ids : Forget(id) PROVE StrictLoadsSigned'
    <2>1. CASE Installer
      <3>1. CASE LoadNow
        BY <3>1 DEF LoadNow, Loadable, StrictLoadsSigned, TypeInv, TypeOK
      <3> QED
        BY <2>1, <3>1 DEF Installer, Copy, Compile, Sign, WriteArgs, StrictLoadsSigned
    <2>2. ASSUME NEW id \in Ids, Unload(id) PROVE StrictLoadsSigned'
      BY <2>2 DEF Unload, StrictLoadsSigned, TypeInv, TypeOK
    <2>3. CASE UNCHANGED loaded
      BY <2>3 DEF StrictLoadsSigned
    <2> QED
      BY <1>2, <2>1, <2>2, <2>3 DEF User, Install, SetPolicy, PutFile, Forget
  <1>3. CASE Boot \/ (\E f \in File : Pick(f)) \/ EndLoop
    <2>1. UNCHANGED loaded /\ (pc' = "load" => cur'.policy = "off")
      BY <1>3 DEF Boot, Pick, EndLoop, TypeInv, TypeOK
    <2> QED
      BY <2>1 DEF StrictLoad, StrictLoadsSigned
  <1>4. CASE Verify
    <2>1. UNCHANGED loaded
      BY <1>4 DEF Verify
    <2>2. ASSUME pc' = "load", cur'.policy = "strict" PROVE bin'[cur'.file] \in Signed
      BY <1>4, <2>2 DEF Verify, Continue, GoOn, Valid, TypeInv, TypeOK
    <2> QED
      BY <2>1, <2>2 DEF StrictLoad, StrictLoadsSigned
  <1>5. CASE Unsign
    BY <1>5 DEF Unsign, Continue, StrictLoad, StrictLoadsSigned
  <1>6. CASE Load
    <2>1. pc' # "load"
      BY <1>6 DEF Load, Continue
    <2>2. ASSUME UNCHANGED loaded PROVE StrictLoadsSigned'
      BY <2>2 DEF StrictLoadsSigned
    <2>3. ASSUME loaded' = [loaded EXCEPT ![cur.file[1]] =
                               [bin |-> bin[cur.file], args |-> cur.args, how |-> cur.policy]]
          PROVE  StrictLoadsSigned'
      BY <1>6, <2>3 DEF Load, StrictLoad, StrictLoadsSigned, TypeInv, TypeOK
    <2> QED
      BY <1>6, <2>1, <2>2, <2>3 DEF Load, StrictLoad
  <1>7. CASE Crash
    BY <1>7 DEF Crash, NoneLoaded, StrictLoad, StrictLoadsSigned
  <1>8. CASE UNCHANGED vars
    BY <1>8 DEF vars, StrictLoad, StrictLoadsSigned
  <1> QED
    BY <1>1, <1>2, <1>3, <1>4, <1>5, <1>6, <1>7, <1>8 DEF Next, Service, StrictLoad

\* A boot under the strict policy loads only what came with its own signature,
\* however packages were installed over each other and wherever the power failed
\* (service.sh:151-175, kpm_verify.sh).
THEOREM StrictSafe == Spec => []StrictLoadsSigned
  <1>1. Init => StrictLoad /\ StrictLoadsSigned
    BY DEF Init, NoneLoaded, StrictLoad, StrictLoadsSigned
  <1>2. TypeInv /\ StrictLoad /\ StrictLoadsSigned /\ [Next]_vars
        => TypeInv' /\ StrictLoad' /\ StrictLoadsSigned'
    BY TypeStep, StrictStep
  <1> QED
    BY <1>1, <1>2, TypeInit, PTL DEF Spec

----------------------------------------------------------------------------
(* What the kernel has after the loop.                                     *)

Match == PassedIsLoaded /\ LoadedIsPassed /\ Unsigning

\* The loop goes on without the file it has come to, which is out of the store
\* or was never more than a size of 0.
LEMMA PassOver ==
    ASSUME TypeInv, PassedIsLoaded, LoadedIsPassed, Working,
           NEW f \in File, f \notin Passed,
           Passed' = Passed \cup {f},
           bin' = [bin EXCEPT ![f] = bin'[f]], bin'[f] \in {None, Empty},
           UNCHANGED loaded
    PROVE  PassedIsLoaded' /\ LoadedIsPassed'
  <1>1. Passed \subseteq File
    BY DEF Passed
  <1>2. \A g \in Passed : bin'[g] = bin[g]
    BY <1>1 DEF TypeInv, TypeOK
  <1>3. \A g \in Passed' : bin'[g] \notin {None, Empty} =>
            loaded'[g[1]] # None /\ loaded'[g[1]].bin = bin'[g]
    BY <1>2 DEF PassedIsLoaded, Quiet
  <1>4. \A id \in Ids : loaded'[id] # None =>
            \E g \in Passed' : g[1] = id /\ bin'[g] = loaded'[id].bin
    BY <1>2 DEF LoadedIsPassed, Quiet
  <1> QED
    BY <1>3, <1>4 DEF PassedIsLoaded, LoadedIsPassed

LEMMA MatchVerify ==
    ASSUME TypeInv, Match, Verify PROVE Match'
  <1> DEFINE f == cur.file
  <1>1. f \in File \ todo /\ f \notin Passed /\ Working /\ UNCHANGED <<todo, loaded>>
    BY DEF Verify, TypeInv, AtFile, Passed, Working
  <1>2. CASE Quarantine(f) /\ Continue
    <2>1. bin' = [bin EXCEPT ![f] = None] /\ bin'[f] = None
      BY <1>1, <1>2 DEF Quarantine, TypeInv, TypeOK
    <2>2. cur'.file = None /\ pc' = "pick"
      BY <1>2 DEF Continue, NoFile
    <2>3. Passed' = Passed \cup {f}
      BY <1>1, <2>2, NoneAssumption DEF Passed
    <2>4. PassedIsLoaded' /\ LoadedIsPassed'
      BY <1>1, <2>1, <2>3, PassOver DEF Match
    <2> QED
      BY <2>2, <2>4 DEF Match, Unsigning
  <1>3. CASE GoOn("load") /\ UNCHANGED bin
    BY <1>1, <1>3 DEF GoOn, Match, PassedIsLoaded, LoadedIsPassed, Unsigning, Quiet, Working, Passed
  <1>4. CASE GoOn("unsign") /\ Quarantine(f)
    <2>1. bin' = [bin EXCEPT ![f] = None] /\ bin'[f] = None
      BY <1>1, <1>4 DEF Quarantine, TypeInv, TypeOK
    <2>2. Passed' = Passed /\ cur' = cur /\ Quiet'
      BY <1>1, <1>4 DEF GoOn, Passed, Quiet, Working
    <2>3. \A g \in Passed : bin'[g] = bin[g]
      BY <2>1 DEF Passed, TypeInv, TypeOK
    <2> QED
      BY <1>1, <2>1, <2>2, <2>3 DEF Match, PassedIsLoaded, LoadedIsPassed, Unsigning, Quiet
  <1> QED
    BY <1>2, <1>3, <1>4 DEF Verify

LEMMA MatchUnsign ==
    ASSUME TypeInv, Match, Unsign PROVE Match'
  <1> DEFINE f == cur.file
  <1>1. f \in File \ todo /\ f \notin Passed /\ Working /\ UNCHANGED <<todo, loaded, bin>>
    BY DEF Unsign, TypeInv, AtFile, Passed, Working
  <1>2. bin' = [bin EXCEPT ![f] = bin'[f]] /\ bin'[f] = None
    BY <1>1 DEF Unsign, Match, Unsigning, TypeInv, TypeOK
  <1>3. cur'.file = None /\ pc' = "pick"
    BY DEF Unsign, Continue, NoFile
  <1>4. Passed' = Passed \cup {f}
    BY <1>1, <1>3, NoneAssumption DEF Passed
  <1>5. PassedIsLoaded' /\ LoadedIsPassed'
    BY <1>1, <1>2, <1>4, PassOver DEF Match
  <1> QED
    BY <1>3, <1>5 DEF Match, Unsigning

LEMMA MatchLoad ==
    ASSUME TypeInv, Match, Load PROVE Match'
  <1> DEFINE f == cur.file
  <1>1. f \in File \ todo /\ f \notin Passed /\ Working /\ UNCHANGED todo
    BY DEF Load, TypeInv, AtFile, Passed, Working
  <1>2. cur'.file = None /\ pc' = "pick"
    BY DEF Load, Continue, NoFile
  <1>3. Passed' = Passed \cup {f}
    BY <1>1, <1>2, NoneAssumption DEF Passed
  <1>4. CASE Quarantine(f) /\ UNCHANGED loaded
    <2>1. bin' = [bin EXCEPT ![f] = bin'[f]] /\ bin'[f] = None
      BY <1>1, <1>4 DEF Quarantine, TypeInv, TypeOK
    <2>2. PassedIsLoaded' /\ LoadedIsPassed'
      BY <1>1, <1>3, <1>4, <2>1, PassOver DEF Match
    <2> QED
      BY <1>2, <2>2 DEF Match, Unsigning
  <1>5. ASSUME Loadable(f), UNCHANGED bin,
               loaded' = [loaded EXCEPT ![f[1]] =
                             [bin |-> bin[f], args |-> cur.args, how |-> cur.policy]]
        PROVE  Match'
    <2>1. f[1] \in Ids /\ loaded[f[1]] = None
      BY <1>1, <1>5 DEF Loadable, File
    <2>2. loaded'[f[1]] # None /\ loaded'[f[1]].bin = bin[f]
      <3>1. loaded'[f[1]] = [bin |-> bin[f], args |-> cur.args, how |-> cur.policy]
        BY <1>5, <2>1 DEF TypeInv, TypeOK
      <3>2. loaded'[f[1]] \in Loaded
        BY <1>5, <3>1 DEF Loadable, Loaded, TypeInv, TypeOK
      <3> QED
        BY <3>1, <3>2, NoneAssumption
    <2>3. \A id \in Ids : id # f[1] => loaded'[id] = loaded[id]
      BY <1>5, <2>1 DEF TypeInv, TypeOK
    <2>4. ASSUME NEW g \in Passed, bin[g] \notin {None, Empty}
          PROVE  loaded'[g[1]] # None /\ loaded'[g[1]].bin = bin[g]
      <3>1. loaded[g[1]] # None /\ loaded[g[1]].bin = bin[g]
        BY <1>1, <2>4 DEF Match, PassedIsLoaded, Quiet
      <3>2. g[1] \in Ids /\ g[1] # f[1]
        BY <2>1, <3>1 DEF Passed, File
      <3> QED
        BY <2>3, <3>1, <3>2
    <2>5. ASSUME NEW id \in Ids, loaded'[id] # None
          PROVE  \E g \in Passed' : g[1] = id /\ bin'[g] = loaded'[id].bin
      <3>1. CASE id = f[1]
        BY <1>3, <1>5, <2>2, <3>1
      <3>2. CASE id # f[1]
        BY <1>1, <1>3, <1>5, <2>3, <2>5, <3>2 DEF Match, LoadedIsPassed, Quiet
      <3> QED
        BY <3>1, <3>2
    <2>6. PassedIsLoaded'
      BY <1>3, <1>5, <2>2, <2>4 DEF PassedIsLoaded
    <2>7. LoadedIsPassed'
      BY <2>5 DEF LoadedIsPassed
    <2> QED
      BY <1>2, <2>6, <2>7 DEF Match, Unsigning
  <1> QED
    BY <1>4, <1>5 DEF Load

LEMMA MatchStep ==
    ASSUME TypeInv, TypeInv', Match, [Next]_vars PROVE Match'
  <1>1. ASSUME User \/ Installer \/ \E id \in Ids : Forget(id) PROVE Match'
    <2>1. pc' = "done" /\ touched'
      BY <1>1 DEF User, Install, Unload, SetPolicy, PutFile, Installer, Copy, Compile, Sign,
                  WriteArgs, LoadNow, Forget, TypeInv, Alone, boot
    <2> QED
      BY <2>1 DEF Match, PassedIsLoaded, LoadedIsPassed, Unsigning, Quiet, Working
  <1>2. CASE Boot
    <2>1. loaded' = NoneLoaded /\ bin' = bin /\ todo' = {f \in File : bin[f] # None}
          /\ pc' = "pick"
      BY <1>2 DEF Boot, disk, TypeInv, AtFile
    <2> QED
      BY <2>1 DEF NoneLoaded, Match, PassedIsLoaded, LoadedIsPassed, Unsigning, Passed
  <1>3. ASSUME NEW f \in File, Pick(f) PROVE Match'
    <2>1. Working /\ cur.file = None /\ UNCHANGED <<bin, loaded>> /\ f \in todo
          /\ todo' = todo \ {f} /\ f \notin Passed /\ pc' # "unsign"
      BY <1>3 DEF Pick, disk, TypeInv, AtFile, Working, Passed
    <2>2. CASE bin[f] = Empty
      <3>1. Passed' = Passed \cup {f}
        BY <1>3, <2>1, <2>2, NoneAssumption DEF Pick, Passed
      <3>2. bin' = [bin EXCEPT ![f] = bin'[f]] /\ bin'[f] = Empty
        BY <2>1, <2>2 DEF TypeInv, TypeOK
      <3>3. PassedIsLoaded' /\ LoadedIsPassed'
        BY <2>1, <3>1, <3>2, PassOver DEF Match
      <3> QED
        BY <2>1, <3>3 DEF Match, Unsigning
    <2>3. CASE bin[f] # Empty
      <3>1. cur'.file = f
        BY <1>3, <2>3 DEF Pick, TypeInv, TypeOK
      <3>2. Passed' = Passed
        BY <2>1, <3>1, NoneAssumption DEF Passed
      <3> QED
        BY <2>1, <3>2 DEF Match, PassedIsLoaded, LoadedIsPassed, Unsigning, Quiet
    <2> QED
      BY <2>2, <2>3
  <1>4. CASE EndLoop
    <2>1. Working /\ Passed' = Passed /\ UNCHANGED <<bin, loaded>> /\ pc' = "done"
      BY <1>4 DEF EndLoop, disk, TypeInv, AtFile, Working, Passed, NoFile
    <2> QED
      BY <2>1 DEF Match, PassedIsLoaded, LoadedIsPassed, Unsigning, Quiet
  <1>5. CASE Crash
    BY <1>5 DEF Crash, Match, PassedIsLoaded, LoadedIsPassed, Unsigning, Quiet, Working
  <1>6. CASE UNCHANGED vars
    BY <1>6 DEF vars, disk, boot, Match, PassedIsLoaded, LoadedIsPassed, Unsigning,
                Quiet, Working, Passed
  <1> QED
    BY <1>1, <1>2, <1>3, <1>4, <1>5, <1>6, MatchVerify, MatchUnsign, MatchLoad
    DEF Next, Service

\* After service.sh's loop, and before the user does anything, the store and the
\* kernel have the same modules (service.sh:137-190): nothing refused is left for
\* the next boot, and nothing is in the kernel that the store has lost.
THEOREM DoneSafe == Spec => []DoneMatchesStore
  <1>1. Init => Match
    BY DEF Init, NoneLoaded, Match, PassedIsLoaded, LoadedIsPassed, Unsigning, Quiet, Working
  <1>2. TypeInv /\ Match /\ [Next]_vars => TypeInv' /\ Match'
    BY TypeStep, MatchStep
  <1>3. TypeInv /\ Match => DoneMatchesStore
    <2> SUFFICES ASSUME TypeInv, Match, pc = "done", ~touched
                 PROVE  /\ \A f \in File : bin[f] \notin {None, Empty} =>
                               loaded[f[1]] # None /\ loaded[f[1]].bin = bin[f]
                        /\ \A id \in Ids : loaded[id] # None =>
                               \E f \in File : f[1] = id /\ bin[f] = loaded[id].bin
      BY DEF DoneMatchesStore
    <2>1. Passed = File
      BY NoneAssumption DEF Passed, TypeInv, AtFile
    <2> QED
      BY <2>1 DEF Match, PassedIsLoaded, LoadedIsPassed, Quiet
  <1> QED
    BY <1>1, <1>2, <1>3, TypeInit, PTL DEF Spec
=============================================================================
