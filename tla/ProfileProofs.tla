--------------------------- MODULE ProfileProofs ---------------------------
(***************************************************************************)
(* What any number of commands, any settings asked for and any number of   *)
(* faults leave of the profile file.                                       *)
(***************************************************************************)
EXTENDS Profile, TLAPS

(***************************************************************************)
(* Types.                                                                  *)
(***************************************************************************)

(* Every default is of its setting's type.                                 *)
LEMMA DefaultLegal == Default \in ProfileSet
<1>1. Default \in [Settings -> Value]
  BY ValueAssumption DEF Default
<1>2. ASSUME NEW s \in Settings PROVE Default[s] \in Legal(s)
  <2>1. CASE s \in Switches
    BY <2>1 DEF Default, Legal, Settings, Switches
  <2>2. CASE s = "capacity-mb"
    BY <2>2 DEF Default, Legal, Settings, Switches
  <2>3. CASE s = "default-ttl"
    BY <2>3, ValueAssumption DEF Default, Legal, Settings, Switches
  <2>4. CASE s \notin Switches /\ s # "capacity-mb" /\ s # "default-ttl"
    BY <2>4, ValueAssumption DEF Legal
  <2> QED BY <2>1, <2>2, <2>3, <2>4
<1> QED BY <1>1, <1>2 DEF ProfileSet

(* What set stores is of its setting's type, whatever it was given.        *)
LEMMA ParsedLegal ==
    ASSUME NEW s \in Settings, NEW v \in Value, NEW x \in Parsed(s, v)
    PROVE  x \in Legal(s) /\ x \in Value
<1>1. CASE s \in Switches
  BY <1>1, ValueAssumption DEF Parsed, Legal
<1>2. CASE s = "capacity-mb"
  BY <1>2, ValueAssumption DEF Parsed, Legal, Switches
<1>3. CASE s = "default-ttl"
  BY <1>3, ValueAssumption DEF Parsed, Legal, Switches
<1>4. CASE s \notin Switches /\ s # "capacity-mb" /\ s # "default-ttl"
  BY <1>4 DEF Parsed, Legal
<1> QED BY <1>1, <1>2, <1>3, <1>4

(* Changing one setting to a value of its type leaves a profile.           *)
LEMMA EditLegal ==
    ASSUME NEW text \in ProfileSet, NEW s \in Settings, NEW v \in Value, v \in Legal(s)
    PROVE  [text EXCEPT ![s] = v] \in ProfileSet
BY DEF ProfileSet

(* What a reader makes of a file is a profile.                             *)
LEMMA LoadedLegal ==
    ASSUME NEW f \in FileSet PROVE Loaded(f) \in ProfileSet
BY DefaultLegal DEF FileSet, Loaded

(* So is what a node makes of a profile and its flags a configuration.     *)
LEMMA ConfigLegal ==
    ASSUME NEW text \in ProfileSet, NEW f \in Flags
    PROVE  build_config(text, f) \in Config
<1>1. ASSUME NEW s \in Settings \ {"log-level"}
      PROVE  (IF s \in DOMAIN f THEN f[s] ELSE text[s]) \in Value
  <2>1. CASE s \in DOMAIN f
    <3>1. f[s] \in Legal(s)
      BY <2>1, FlagAssumption
    <3> QED BY <2>1, <3>1, ValueAssumption DEF Legal
  <2>2. CASE s \notin DOMAIN f
    BY <2>2 DEF ProfileSet
  <2> QED BY <2>1, <2>2
<1> QED BY <1>1 DEF build_config, Config

LEMMA NoJobTypes == NoJob \in JobSet
<1>1. Default["node.id"] \in Value
  BY ValueAssumption DEF Settings
<1>2. Legal("node.id") = Value
  BY DEF Legal, Switches
<1> QED BY <1>1, <1>2 DEF NoJob, Settings, JobSet

(* A command that has ended has the locals it started with.                *)
LEMMA EndsTypes ==
    ASSUME TypeOK, NEW p \in Proc, Ends(p), changes' \in Nat, changes <= changes'
    PROVE  /\ pc' \in [Proc -> {"idle", "loaded", "opened", "written", "serving", "client"}]
           /\ job' \in [Proc -> JobSet]
           /\ profile' \in [Proc -> ProfileSet]
           /\ config' \in [Proc -> Config]
           /\ wanted' \in [Proc -> ProfileSet]
           /\ seen' \in [Proc -> 0..changes']
<1>1. NoJob \in JobSet
  BY NoJobTypes
<1>2. NoConfig \in Config
  BY DefaultLegal DEF NoConfig, Config, ProfileSet
<1> QED BY <1>1, <1>2, DefaultLegal DEF Ends, TypeOK

THEOREM InitTypes == Init => TypeOK
<1> SUFFICES ASSUME Init PROVE TypeOK
  OBVIOUS
<1>1. NoFile \in FileSet
  BY DefaultLegal DEF NoFile, FileSet
<1>2. NoJob \in JobSet
  BY NoJobTypes
<1>3. NoConfig \in Config
  BY DefaultLegal DEF NoConfig, Config, ProfileSet
<1> QED BY <1>1, <1>2, <1>3, DefaultLegal, BoundAssumption DEF Init, TypeOK

(* What the steps of a save make of a file is a file.                      *)
LEMMA FileTypes ==
    ASSUME NEW f \in FileSet, NEW text \in ProfileSet
    PROVE  /\ Truncated(f) \in FileSet /\ Restricted(f) \in FileSet
           /\ Wrote(f, text) \subseteq FileSet
BY DefaultLegal DEF Truncated, Restricted, Wrote, FileSet

LEMMA TypeStep == TypeOK /\ [Next]_vars => TypeOK'
<1> SUFFICES ASSUME TypeOK, [Next]_vars PROVE TypeOK'
  OBVIOUS
<1> USE DEF histVars, procVars, fileVars
<1>1. ASSUME NEW p \in Proc, SetBegins(p) PROVE TypeOK'
  <2>1. PICK r \in Asked : \E s \in Named(r.key) : \E v \in Parsed(s, r.value) :
           /\ job' = [job EXCEPT ![p] = [setting |-> s, value |-> v]]
           /\ profile' = [profile EXCEPT ![p] = [Loaded(file) EXCEPT ![s] = v]]
    BY <1>1 DEF SetBegins
  <2>a. PICK s \in Named(r.key), v \in Value :
           /\ v \in Parsed(s, r.value)
           /\ job' = [job EXCEPT ![p] = [setting |-> s, value |-> v]]
           /\ profile' = [profile EXCEPT ![p] = [Loaded(file) EXCEPT ![s] = v]]
    BY <2>1, ParsedLegal, ValueAssumption DEF Named
  <2>2. s \in Settings /\ r.value \in Value
    BY ValueAssumption DEF Named
  <2>3. v \in Legal(s) /\ v \in Value
    BY <2>a, <2>2, ParsedLegal
  <2>4. Loaded(file) \in ProfileSet
    BY LoadedLegal DEF TypeOK
  <2>5. [Loaded(file) EXCEPT ![s] = v] \in ProfileSet
    BY <2>2, <2>3, <2>4, EditLegal
  <2>6. job' \in [Proc -> JobSet]
    BY <2>a, <2>2, <2>3 DEF TypeOK, JobSet
  <2>7. profile' \in [Proc -> ProfileSet]
    BY <2>a, <2>5 DEF TypeOK
  <2>8. sets' \in 0..MaxSets
    BY <1>1, BoundAssumption DEF SetBegins, TypeOK
  <2>9. seen' \in [Proc -> 0..changes]
    BY <1>1 DEF SetBegins, TypeOK
  <2> QED BY <1>1, <2>6, <2>7, <2>8, <2>9 DEF SetBegins, TypeOK
<1>2. ASSUME NEW p \in Proc, SetRefused(p) PROVE TypeOK'
  BY <1>2, BoundAssumption DEF SetRefused, TypeOK
<1>3. ASSUME NEW p \in Proc, SaveFailsEarly(p) PROVE TypeOK'
  <2>1. changes' = changes /\ changes' \in Nat
    BY <1>3 DEF SaveFailsEarly, TypeOK
  <2> QED BY <1>3, <2>1, EndsTypes DEF SaveFailsEarly, TypeOK
<1>4. ASSUME NEW p \in Proc, Truncate(p) PROVE TypeOK'
  <2>1. file' \in FileSet
    BY <1>4, FileTypes, DefaultLegal DEF Truncate, TypeOK
  <2>2. seen' \in [Proc -> 0..changes']
    BY <1>4 DEF Truncate, TypeOK
  <2> QED BY <1>4, <2>1, <2>2 DEF Truncate, TypeOK
<1>5. ASSUME NEW p \in Proc, Write(p) PROVE TypeOK'
  <2>1. file' \in FileSet
    BY <1>5, FileTypes DEF Write, TypeOK
  <2>2. expected' \in ProfileSet
    <3>1. /\ job[p].setting \in Settings /\ job[p].value \in Value
          /\ job[p].value \in Legal(job[p].setting)
      BY DEF TypeOK, JobSet
    <3>2. expected \in ProfileSet
      BY DEF TypeOK
    <3> QED BY <1>5, <3>1, <3>2, EditLegal DEF Write
  <2>3. seen' \in [Proc -> 0..changes']
    BY <1>5 DEF Write, TypeOK
  <2> QED BY <1>5, <2>1, <2>2, <2>3 DEF Write, TypeOK
<1>6. ASSUME NEW p \in Proc, MakePrivate(p) PROVE TypeOK'
  <2>1. changes' = changes /\ changes' \in Nat
    BY <1>6 DEF MakePrivate, TypeOK
  <2>2. file' \in FileSet
    BY <1>6, FileTypes, DefaultLegal DEF MakePrivate, TypeOK
  <2>3. acked' \in ProfileSet
    <3>1. /\ job[p].setting \in Settings /\ job[p].value \in Value
          /\ job[p].value \in Legal(job[p].setting)
      BY DEF TypeOK, JobSet
    <3>2. acked \in ProfileSet
      BY DEF TypeOK
    <3> QED BY <1>6, <3>1, <3>2, EditLegal DEF MakePrivate
  <2> QED BY <1>6, <2>1, <2>2, <2>3, EndsTypes DEF MakePrivate, TypeOK
<1>7. ASSUME NEW p \in Proc, SaveDies(p) PROVE TypeOK'
  <2>1. changes' = changes /\ changes' \in Nat
    BY <1>7 DEF SaveDies, TypeOK
  <2>2. faults' \in 0..MaxFaults
    BY <1>7, BoundAssumption DEF SaveDies, TypeOK
  <2> QED BY <1>7, <2>1, <2>2, EndsTypes DEF SaveDies, TypeOK
<1>8. ASSUME NEW p \in Proc, Serve(p) PROVE TypeOK'
  <2>1. PICK flags \in Flags :
           config' = [config EXCEPT ![p] = build_config(Loaded(file), flags)]
    BY <1>8 DEF Serve
  <2>2. Loaded(file) \in ProfileSet
    BY LoadedLegal DEF TypeOK
  <2>3. config' \in [Proc -> Config]
    <3>1. build_config(Loaded(file), flags) \in Config
      BY <2>2, ConfigLegal
    <3> QED BY <2>1, <3>1 DEF TypeOK
  <2>4. runs' \in 0..MaxRuns
    BY <1>8, BoundAssumption DEF Serve, Reads, TypeOK
  <2> QED BY <1>8, <2>2, <2>3, <2>4 DEF Serve, Reads, TypeOK
<1>9. ASSUME NEW p \in Proc, ClientStarts(p) PROVE TypeOK'
  <2>1. Loaded(file) \in ProfileSet
    BY LoadedLegal DEF TypeOK
  <2>2. runs' \in 0..MaxRuns
    BY <1>9, BoundAssumption DEF ClientStarts, Reads, TypeOK
  <2> QED BY <1>9, <2>1, <2>2 DEF ClientStarts, Reads, TypeOK
<1>10. ASSUME NEW p \in Proc, Stops(p) PROVE TypeOK'
  <2>1. changes' = changes /\ changes' \in Nat
    BY <1>10 DEF Stops, TypeOK
  <2> QED BY <1>10, <2>1, EndsTypes DEF Stops, TypeOK
<1>11. ASSUME Flush PROVE TypeOK'
  BY <1>11 DEF Flush, TypeOK
<1>12. ASSUME PowerLoss PROVE TypeOK'
  <2>1. file' \in FileSet
    BY <1>12, FileTypes DEF PowerLoss, TypeOK
  <2>2. NoConfig \in Config
    BY DefaultLegal DEF NoConfig, Config, ProfileSet
  <2>3. faults' \in 0..MaxFaults
    BY <1>12, BoundAssumption DEF PowerLoss, TypeOK
  <2>4. disk' \in FileSet
    BY <1>12, <2>1 DEF PowerLoss
  <2>5. changes' \in Nat /\ seen' \in [Proc -> 0..changes']
    BY <1>12 DEF PowerLoss, TypeOK
  <2> QED BY <1>12, <2>1, <2>2, <2>3, <2>4, <2>5, NoJobTypes, DefaultLegal DEF PowerLoss, TypeOK
<1>13. ASSUME UNCHANGED vars PROVE TypeOK'
  BY <1>13 DEF vars, TypeOK
<1> QED BY <1>1, <1>2, <1>3, <1>4, <1>5, <1>6, <1>7, <1>8, <1>9, <1>10, <1>11, <1>12, <1>13
        DEF Next

(* Every variable has its type, and every setting in the file, on the disk *)
(* and in memory the form it is stored in (profile.rs:63-127, 190-234).    *)
THEOREM TypeCorrect == Spec => []TypeOK
<1> QED BY InitTypes, TypeStep, PTL DEF Spec

(***************************************************************************)
(* Where settings come from.                                               *)
(***************************************************************************)

(* What has been asked for stays asked for.                                *)
LEMMA SourcedStays ==
    ASSUME NEW text, NEW A, NEW B, A \subseteq B, Sourced(text, A)
    PROVE  Sourced(text, B)
BY DEF Sourced

LEMMA DefaultSourced == ASSUME NEW A PROVE Sourced(Default, A)
BY DEF Sourced

(* Storing a value under a name of its setting keeps a profile sourced.    *)
LEMMA EditSourced ==
    ASSUME NEW text \in [Settings -> Value], NEW A, Sourced(text, A),
           NEW s \in Settings, NEW v, NEW key \in Names(s)
    PROVE  Sourced([text EXCEPT ![s] = v], A \cup {[key |-> key, value |-> v]})
<1> DEFINE u == [text EXCEPT ![s] = v]
           B == A \cup {[key |-> key, value |-> v]}
<1>1. ASSUME NEW i \in Settings
      PROVE  u[i] = Default[i] \/ \E a \in B : a.key \in Names(i) /\ a.value = u[i]
  <2>1. CASE i = s
    <3>1. u[i] = v /\ [key |-> key, value |-> v] \in B
      BY <2>1
    <3> QED BY <2>1, <3>1
  <2>2. CASE i # s
    <3>1. u[i] = text[i] /\ A \subseteq B
      BY <2>2
    <3> QED BY <3>1 DEF Sourced
  <2> QED BY <2>1, <2>2
<1> QED BY <1>1 DEF Sourced

LEMMA SourcedStep == TypeOK /\ NothingUnasked /\ [Next]_vars => NothingUnasked'
<1> SUFFICES ASSUME TypeOK, NothingUnasked, [Next]_vars PROVE NothingUnasked'
  OBVIOUS
<1> USE DEF histVars, procVars, fileVars
<1>l. Sourced(Loaded(file), asked)
  BY DefaultSourced DEF Loaded, NothingUnasked
<1>d. Sourced(Default, asked)
  BY DefaultSourced
<1>t. DOMAIN profile = Proc /\ profile \in [Proc -> ProfileSet]
  BY DEF TypeOK
<1>1. ASSUME NEW p \in Proc, SetBegins(p) PROVE NothingUnasked'
  <2>1. PICK r \in Asked : \E s \in Named(r.key) : \E v \in Parsed(s, r.value) :
           /\ profile' = [profile EXCEPT ![p] = [Loaded(file) EXCEPT ![s] = v]]
           /\ asked' = asked \cup {[key |-> r.key, value |-> v]}
    BY <1>1 DEF SetBegins
  <2>a. PICK s \in Named(r.key) : \E v :
           /\ profile' = [profile EXCEPT ![p] = [Loaded(file) EXCEPT ![s] = v]]
           /\ asked' = asked \cup {[key |-> r.key, value |-> v]}
    BY <2>1
  <2>2. PICK v :
           /\ profile' = [profile EXCEPT ![p] = [Loaded(file) EXCEPT ![s] = v]]
           /\ asked' = asked \cup {[key |-> r.key, value |-> v]}
    BY <2>a
  <2>3. s \in Settings /\ r.key \in Names(s)
    BY DEF Named
  <2>4. Loaded(file) \in [Settings -> Value]
    BY LoadedLegal DEF TypeOK, ProfileSet
  <2>5. Sourced([Loaded(file) EXCEPT ![s] = v], asked')
    BY <1>l, <2>2, <2>3, <2>4, EditSourced
  <2>6. \A q \in Proc : Sourced(profile'[q], asked')
    BY <1>t, <2>2, <2>5, SourcedStays DEF NothingUnasked
  <2>7. Sourced(file.text, asked') /\ Sourced(disk.text, asked')
    BY <2>2, SourcedStays DEF NothingUnasked
  <2> QED BY <1>1, <2>6, <2>7 DEF SetBegins, NothingUnasked
<1>2. ASSUME NEW p \in Proc, SetRefused(p) PROVE NothingUnasked'
  BY <1>2 DEF SetRefused, NothingUnasked
<1>3. ASSUME NEW p \in Proc, SaveFailsEarly(p) PROVE NothingUnasked'
  BY <1>3, <1>d, <1>t DEF SaveFailsEarly, Ends, NothingUnasked
<1>4. ASSUME NEW p \in Proc, Truncate(p) PROVE NothingUnasked'
  <2>1. file'.text = Default
    BY <1>4 DEF Truncate, Truncated, TypeOK, FileSet
  <2> QED BY <1>4, <1>d, <2>1 DEF Truncate, NothingUnasked
<1>5. ASSUME NEW p \in Proc, Write(p) PROVE NothingUnasked'
  <2>1. file'.text = profile[p]
    BY <1>5 DEF Write, Wrote, TypeOK, FileSet
  <2> QED BY <1>5, <2>1 DEF Write, NothingUnasked
<1>6. ASSUME NEW p \in Proc, MakePrivate(p) PROVE NothingUnasked'
  <2>1. file'.text = file.text
    BY <1>6 DEF MakePrivate, Restricted, TypeOK, FileSet
  <2> QED BY <1>6, <1>d, <1>t, <2>1 DEF MakePrivate, Ends, NothingUnasked
<1>7. ASSUME NEW p \in Proc, SaveDies(p) PROVE NothingUnasked'
  BY <1>7, <1>d, <1>t DEF SaveDies, Ends, NothingUnasked
<1>8. ASSUME NEW p \in Proc, Serve(p) PROVE NothingUnasked'
  BY <1>8, <1>l, <1>t DEF Serve, Reads, NothingUnasked
<1>9. ASSUME NEW p \in Proc, ClientStarts(p) PROVE NothingUnasked'
  BY <1>9, <1>l, <1>t DEF ClientStarts, Reads, NothingUnasked
<1>10. ASSUME NEW p \in Proc, Stops(p) PROVE NothingUnasked'
  BY <1>10, <1>d, <1>t DEF Stops, Ends, NothingUnasked
<1>11. ASSUME Flush PROVE NothingUnasked'
  BY <1>11 DEF Flush, NothingUnasked
<1>12. ASSUME PowerLoss PROVE NothingUnasked'
  <2>1. file'.text \in {disk.text, Default}
    BY <1>12 DEF PowerLoss, Truncated, TypeOK, FileSet
  <2> QED BY <1>12, <1>d, <2>1 DEF PowerLoss, NothingUnasked
<1>13. ASSUME UNCHANGED vars PROVE NothingUnasked'
  BY <1>13 DEF vars, NothingUnasked
<1> QED BY <1>1, <1>2, <1>3, <1>4, <1>5, <1>6, <1>7, <1>8, <1>9, <1>10, <1>11, <1>12, <1>13
        DEF Next

(* No setting ever holds a value nobody asked for under its name.          *)
THEOREM NothingEverUnasked == Spec => []NothingUnasked
<1>1. Init => NothingUnasked
  BY DefaultSourced DEF Init, NoFile, NothingUnasked
<1> QED BY <1>1, InitTypes, TypeStep, SourcedStep, PTL DEF Spec

(***************************************************************************)
(* The file's mode.                                                        *)
(***************************************************************************)

LEMMA PublicStep == TypeOK /\ PublicOnlyWhileSaving /\ [Next]_vars => PublicOnlyWhileSaving'
<1> SUFFICES ASSUME TypeOK, PublicOnlyWhileSaving, [Next]_vars PROVE PublicOnlyWhileSaving'
  OBVIOUS
<1> USE DEF histVars, procVars, fileVars
<1>t. DOMAIN pc = Proc
  BY DEF TypeOK
<1>1. ASSUME NEW p \in Proc, SetBegins(p) PROVE PublicOnlyWhileSaving'
  BY <1>1, <1>t DEF SetBegins, PublicOnlyWhileSaving
<1>2. ASSUME NEW p \in Proc, SetRefused(p) PROVE PublicOnlyWhileSaving'
  BY <1>2 DEF SetRefused, PublicOnlyWhileSaving
<1>3. ASSUME NEW p \in Proc, SaveFailsEarly(p) PROVE PublicOnlyWhileSaving'
  BY <1>3, <1>t DEF SaveFailsEarly, Ends, PublicOnlyWhileSaving
<1>4. ASSUME NEW p \in Proc, Truncate(p) PROVE PublicOnlyWhileSaving'
  BY <1>4, <1>t DEF Truncate, PublicOnlyWhileSaving
<1>5. ASSUME NEW p \in Proc, Write(p) PROVE PublicOnlyWhileSaving'
  BY <1>5, <1>t DEF Write, PublicOnlyWhileSaving
<1>6. ASSUME NEW p \in Proc, MakePrivate(p) PROVE PublicOnlyWhileSaving'
  BY <1>6 DEF MakePrivate, Restricted, TypeOK, FileSet, PublicOnlyWhileSaving
<1>7. ASSUME NEW p \in Proc, SaveDies(p) PROVE PublicOnlyWhileSaving'
  BY <1>7 DEF SaveDies, PublicOnlyWhileSaving
<1>8. ASSUME NEW p \in Proc, Serve(p) PROVE PublicOnlyWhileSaving'
  BY <1>8, <1>t DEF Serve, PublicOnlyWhileSaving
<1>9. ASSUME NEW p \in Proc, ClientStarts(p) PROVE PublicOnlyWhileSaving'
  BY <1>9, <1>t DEF ClientStarts, PublicOnlyWhileSaving
<1>10. ASSUME NEW p \in Proc, Stops(p) PROVE PublicOnlyWhileSaving'
  BY <1>10, <1>t DEF Stops, Ends, PublicOnlyWhileSaving
<1>11. ASSUME Flush PROVE PublicOnlyWhileSaving'
  BY <1>11 DEF Flush, PublicOnlyWhileSaving
<1>12. ASSUME PowerLoss PROVE PublicOnlyWhileSaving'
  BY <1>12 DEF PowerLoss, PublicOnlyWhileSaving
<1>13. ASSUME UNCHANGED vars PROVE PublicOnlyWhileSaving'
  BY <1>13 DEF vars, PublicOnlyWhileSaving
<1> QED BY <1>1, <1>2, <1>3, <1>4, <1>5, <1>6, <1>7, <1>8, <1>9, <1>10, <1>11, <1>12, <1>13
        DEF Next

(* The file's own mode lets others read it only while it is being created, *)
(* or when that was interrupted; its directory's mode is left out.         *)
THEOREM PublicOnlyBriefly == Spec => []PublicOnlyWhileSaving
<1>1. Init => PublicOnlyWhileSaving
  BY DEF Init, NoFile, PublicOnlyWhileSaving
<1> QED BY <1>1, InitTypes, TypeStep, PublicStep, PTL DEF Spec

(***************************************************************************)
(* What quiet saves leave.                                                 *)
(***************************************************************************)

(* Somebody has changed the file under a save that will still write to it. *)
Stale == \E q \in Proc : pc[q] = "opened" /\ seen[q] # changes

Quiet == ~overlapped /\ ~cut /\ ~Stale

(* The profile p is about to save is the sets so far with its own on top.  *)
Applied(p) == profile[p] = [expected EXCEPT ![job[p].setting] = job[p].value]

(* Without overlaps a save finds the file as empty as it made it.          *)
Unmixed ==
    ~overlapped =>
       /\ Readable(file) /\ Readable(disk)
       /\ \A p \in Proc : pc[p] = "opened" /\ seen[p] = changes => file.state = "blank"

Ledger ==
    Quiet =>
       /\ \A p \in Proc : pc[p] = "opened" => Applied(p)
       /\ ~HalfSaved => Loaded(file) = expected
       /\ \A p \in Proc : pc[p] = "loaded" /\ seen[p] = changes /\ ~HalfSaved => Applied(p)

LEMMA UnmixedStep == TypeOK /\ Unmixed /\ [Next]_vars => Unmixed'
<1> SUFFICES ASSUME TypeOK, Unmixed, [Next]_vars PROVE Unmixed'
  OBVIOUS
<1> USE DEF histVars, procVars, fileVars
<1>t. /\ pc \in [Proc -> {"idle", "loaded", "opened", "written", "serving", "client"}]
      /\ seen \in [Proc -> 0..changes] /\ changes \in Nat /\ DOMAIN pc = Proc
      /\ file \in FileSet /\ disk \in FileSet
  BY DEF TypeOK
<1>1. ASSUME NEW p \in Proc, SetBegins(p) PROVE Unmixed'
  BY <1>1, <1>t DEF SetBegins, Unmixed
<1>2. ASSUME NEW p \in Proc, SetRefused(p) PROVE Unmixed'
  BY <1>2 DEF SetRefused, Unmixed
<1>3. ASSUME NEW p \in Proc, SaveFailsEarly(p) PROVE Unmixed'
  BY <1>3, <1>t DEF SaveFailsEarly, Ends, Unmixed
<1>4. ASSUME NEW p \in Proc, Truncate(p) PROVE Unmixed'
  <2>1. file'.state = "blank"
    BY <1>4, <1>t DEF Truncate, Truncated, FileSet
  <2> QED BY <1>4, <2>1 DEF Truncate, Unmixed, Readable
<1>5. ASSUME NEW p \in Proc, Write(p) PROVE Unmixed'
  <2> SUFFICES ASSUME ~overlapped' PROVE Unmixed'
    BY DEF Unmixed
  <2>1. ~overlapped /\ seen[p] = changes
    BY <1>5 DEF Write
  <2>2. file.state = "blank"
    BY <1>5, <2>1 DEF Write, Unmixed
  <2>3. file'.state = "whole"
    BY <1>5, <2>2, <1>t DEF Write, Wrote, FileSet
  <2>4. ASSUME NEW q \in Proc PROVE ~(pc'[q] = "opened" /\ seen'[q] = changes')
    BY <1>5, <1>t DEF Write
  <2> QED BY <1>5, <2>1, <2>3, <2>4 DEF Write, Unmixed, Readable
<1>6. ASSUME NEW p \in Proc, MakePrivate(p) PROVE Unmixed'
  <2>1. file'.state = file.state
    BY <1>6, <1>t DEF MakePrivate, Restricted, FileSet
  <2> QED BY <1>6, <1>t, <2>1 DEF MakePrivate, Ends, Unmixed, Readable
<1>7. ASSUME NEW p \in Proc, SaveDies(p) PROVE Unmixed'
  BY <1>7, <1>t DEF SaveDies, Ends, Unmixed
<1>8. ASSUME NEW p \in Proc, Serve(p) PROVE Unmixed'
  BY <1>8, <1>t DEF Serve, Reads, Unmixed
<1>9. ASSUME NEW p \in Proc, ClientStarts(p) PROVE Unmixed'
  BY <1>9, <1>t DEF ClientStarts, Reads, Unmixed
<1>10. ASSUME NEW p \in Proc, Stops(p) PROVE Unmixed'
  BY <1>10, <1>t DEF Stops, Ends, Unmixed
<1>11. ASSUME Flush PROVE Unmixed'
  BY <1>11 DEF Flush, Unmixed
<1>12. ASSUME PowerLoss PROVE Unmixed'
  <2>1. file'.state \in {disk.state, "blank"} /\ disk' = file'
    BY <1>12, <1>t DEF PowerLoss, Truncated, FileSet
  <2> QED BY <1>12, <2>1 DEF PowerLoss, Unmixed, Readable
<1>13. ASSUME UNCHANGED vars PROVE Unmixed'
  BY <1>13 DEF vars, Unmixed
<1> QED BY <1>1, <1>2, <1>3, <1>4, <1>5, <1>6, <1>7, <1>8, <1>9, <1>10, <1>11, <1>12, <1>13
        DEF Next

(* A step that leaves the file's text and its changes alone, and in which  *)
(* no save starts or ends half-way, leaves the ledger true.                *)
LEMMA LedgerKept ==
    ASSUME Ledger, Quiet', Loaded(file') = Loaded(file), expected' = expected,
           changes' = changes, overlapped' = overlapped, ~cut,
           NEW p \in Proc, pc[p] # "opened", pc'[p] \notin {"loaded", "opened"},
           \A q \in Proc : q # p => /\ pc'[q] = pc[q] /\ seen'[q] = seen[q]
                                    /\ job'[q] = job[q] /\ profile'[q] = profile[q]
    PROVE  Ledger'
<1>1. Quiet
  BY DEF Quiet, Stale
<1>2. HalfSaved' <=> HalfSaved
  BY DEF HalfSaved
<1>3. ASSUME NEW q \in Proc, q # p PROVE Applied(q)' <=> Applied(q)
  BY <1>3 DEF Applied
<1>4. \A q \in Proc : pc'[q] = "opened" => Applied(q)'
  BY <1>1, <1>3 DEF Ledger
<1>5. ~HalfSaved' => Loaded(file') = expected'
  BY <1>1, <1>2 DEF Ledger
<1>6. \A q \in Proc : pc'[q] = "loaded" /\ seen'[q] = changes' /\ ~HalfSaved' => Applied(q)'
  BY <1>1, <1>2, <1>3 DEF Ledger
<1> QED BY <1>4, <1>5, <1>6 DEF Ledger

LEMMA LedgerStep == TypeOK /\ Unmixed /\ Ledger /\ [Next]_vars => Ledger'
<1> SUFFICES ASSUME TypeOK, Unmixed, Ledger, [Next]_vars, Quiet' PROVE Ledger'
  BY DEF Ledger
<1> USE DEF histVars, procVars, fileVars
<1>t. /\ pc \in [Proc -> {"idle", "loaded", "opened", "written", "serving", "client"}]
      /\ seen \in [Proc -> 0..changes] /\ changes \in Nat
      /\ DOMAIN pc = Proc /\ DOMAIN seen = Proc /\ DOMAIN job = Proc /\ DOMAIN profile = Proc
      /\ file \in FileSet /\ disk \in FileSet
  BY DEF TypeOK
<1>1. ASSUME NEW p \in Proc, SetBegins(p) PROVE Ledger'
  <2>1. Quiet
    BY <1>1, <1>t DEF SetBegins, Quiet, Stale
  <2>2. HalfSaved' <=> HalfSaved
    BY <1>1, <1>t DEF SetBegins, HalfSaved
  <2>3. PICK r \in Asked : \E s \in Named(r.key) : \E v \in Parsed(s, r.value) :
           /\ job' = [job EXCEPT ![p] = [setting |-> s, value |-> v]]
           /\ profile' = [profile EXCEPT ![p] = [Loaded(file) EXCEPT ![s] = v]]
    BY <1>1 DEF SetBegins
  <2>4. PICK s, v :
           /\ job' = [job EXCEPT ![p] = [setting |-> s, value |-> v]]
           /\ profile' = [profile EXCEPT ![p] = [Loaded(file) EXCEPT ![s] = v]]
    BY <2>3
  <2>5. ~HalfSaved => Applied(p)'
    BY <1>1, <1>t, <2>1, <2>4 DEF SetBegins, Ledger, Applied
  <2>6. ASSUME NEW q \in Proc, q # p PROVE /\ Applied(q)' <=> Applied(q)
                                           /\ pc'[q] = pc[q] /\ seen'[q] = seen[q]
    BY <1>1, <1>t, <2>4, <2>6 DEF SetBegins, Applied
  <2>7. pc'[p] = "loaded"
    BY <1>1, <1>t DEF SetBegins
  <2>8. file' = file /\ expected' = expected /\ changes' = changes
    BY <1>1 DEF SetBegins
  <2>9. \A q \in Proc : pc'[q] = "opened" => Applied(q)'
    BY <2>1, <2>6, <2>7 DEF Ledger
  <2>10. ~HalfSaved' => Loaded(file') = expected'
    BY <2>1, <2>2, <2>8 DEF Ledger
  <2>11. \A q \in Proc : pc'[q] = "loaded" /\ seen'[q] = changes' /\ ~HalfSaved' => Applied(q)'
    BY <2>1, <2>2, <2>5, <2>6, <2>8 DEF Ledger
  <2> QED BY <2>9, <2>10, <2>11 DEF Ledger
<1>2. ASSUME NEW p \in Proc, SetRefused(p) PROVE Ledger'
  BY <1>2 DEF SetRefused, Ledger, Quiet, Stale, HalfSaved, Applied
<1>3. ASSUME NEW p \in Proc, SaveFailsEarly(p) PROVE Ledger'
  BY <1>3, <1>t, LedgerKept DEF SaveFailsEarly, Ends, Quiet
<1>4. ASSUME NEW p \in Proc, Truncate(p) PROVE Ledger'
  <2>1. ~overlapped /\ ~cut /\ seen[p] = changes /\ changes' = changes + 1
    BY <1>4 DEF Truncate, Quiet
  <2>2. ASSUME NEW q \in Proc, q # p PROVE pc'[q] = pc[q] /\ pc[q] # "opened"
                                         /\ seen'[q] = seen[q] /\ seen[q] # changes'
    <3>1. pc'[q] = pc[q] /\ seen'[q] = seen[q] /\ seen[q] <= changes
      BY <1>4, <1>t, <2>2 DEF Truncate
    <3>2. ~(pc'[q] = "opened" /\ seen'[q] # changes')
      BY DEF Quiet, Stale
    <3> QED BY <1>t, <2>1, <3>1, <3>2
  <2>3. pc[p] = "loaded" /\ pc'[p] = "opened"
    BY <1>4, <1>t DEF Truncate
  <2>4. ~HalfSaved /\ Quiet
    BY <2>1, <2>2, <2>3 DEF HalfSaved, Quiet, Stale
  <2>5. Applied(p)'
    BY <1>4, <2>1, <2>3, <2>4 DEF Truncate, Ledger, Applied
  <2>6. HalfSaved'
    BY <2>3 DEF HalfSaved
  <2>7. \A q \in Proc : pc'[q] = "opened" => Applied(q)'
    BY <2>2, <2>5
  <2> QED BY <2>6, <2>7 DEF Ledger
<1>5. ASSUME NEW p \in Proc, Write(p) PROVE Ledger'
  <2>1. ~overlapped /\ ~cut /\ seen[p] = changes /\ changes' = changes + 1
    BY <1>5 DEF Write, Quiet
  <2>2. pc[p] = "opened" /\ pc'[p] = "written"
    BY <1>5, <1>t DEF Write
  <2>3. ASSUME NEW q \in Proc, q # p PROVE pc'[q] = pc[q] /\ pc[q] # "opened"
    <3>1. pc'[q] = pc[q] /\ seen'[q] = seen[q] /\ seen[q] <= changes
      BY <1>5, <1>t, <2>3 DEF Write
    <3>2. ~(pc'[q] = "opened" /\ seen'[q] # changes')
      BY DEF Quiet, Stale
    <3> QED BY <1>t, <2>1, <3>1, <3>2
  <2>4. \A q \in Proc : seen'[q] # changes'
    BY <1>5, <1>t, <2>1 DEF Write
  <2>5. Applied(p)
    <3>1. Quiet
      BY <2>1, <2>2, <2>3 DEF Quiet, Stale
    <3> QED BY <2>2, <3>1 DEF Ledger
  <2>6. Loaded(file') = expected'
    <3>1. file.state = "blank"
      BY <2>1, <2>2 DEF Unmixed
    <3>2. file'.state = "whole" /\ file'.text = profile[p]
      BY <1>5, <1>t, <3>1 DEF Write, Wrote, FileSet
    <3> QED BY <1>5, <2>5, <3>2 DEF Write, Applied, Loaded
  <2>7. \A q \in Proc : pc'[q] # "opened"
    BY <2>2, <2>3
  <2> QED BY <2>4, <2>6, <2>7 DEF Ledger
<1>6. ASSUME NEW p \in Proc, MakePrivate(p) PROVE Ledger'
  <2>1. Loaded(file') = Loaded(file)
    BY <1>6, <1>t DEF MakePrivate, Restricted, FileSet, Loaded
  <2> QED BY <1>6, <1>t, <2>1, LedgerKept DEF MakePrivate, Ends, Quiet
<1>7. ASSUME NEW p \in Proc, SaveDies(p) PROVE Ledger'
  <2>1. ~cut /\ pc[p] = "written"
    BY <1>7 DEF SaveDies, Quiet
  <2> QED BY <1>7, <1>t, <2>1, LedgerKept DEF SaveDies, Ends
<1>8. ASSUME NEW p \in Proc, Serve(p) PROVE Ledger'
  BY <1>8, <1>t, LedgerKept DEF Serve, Reads, Quiet
<1>9. ASSUME NEW p \in Proc, ClientStarts(p) PROVE Ledger'
  BY <1>9, <1>t, LedgerKept DEF ClientStarts, Reads, Quiet
<1>10. ASSUME NEW p \in Proc, Stops(p) PROVE Ledger'
  BY <1>10, <1>t, LedgerKept DEF Stops, Ends, Quiet
<1>11. ASSUME Flush PROVE Ledger'
  BY <1>11 DEF Flush, Ledger, Quiet, Stale, HalfSaved, Applied
<1>12. ASSUME PowerLoss PROVE Ledger'
  <2>1. ~cut /\ ~overlapped /\ file' = file /\ \A p \in Proc : pc[p] # "opened"
    BY <1>12 DEF PowerLoss, Quiet
  <2>2. Quiet /\ ~HalfSaved
    BY <2>1 DEF Quiet, Stale, HalfSaved
  <2>3. Loaded(file') = expected'
    BY <1>12, <2>1, <2>2 DEF PowerLoss, Ledger
  <2>4. \A p \in Proc : pc'[p] = "idle"
    BY <1>12 DEF PowerLoss
  <2> QED BY <2>3, <2>4 DEF Ledger
<1>13. ASSUME UNCHANGED vars PROVE Ledger'
  BY <1>13 DEF vars, Ledger, Quiet, Stale, HalfSaved, Applied
<1> QED BY <1>1, <1>2, <1>3, <1>4, <1>5, <1>6, <1>7, <1>8, <1>9, <1>10, <1>11, <1>12, <1>13
        DEF Next

(* What commands that do not overlap save is what the next one finds,      *)
(* unless a save or what it wrote was lost half-way.                       *)
THEOREM QuietSavesAlwaysHold == Spec => []QuietSavesHold
<1>1. Init => Unmixed /\ Ledger
  <2> SUFFICES ASSUME Init PROVE Unmixed /\ Ledger
    OBVIOUS
  <2>1. \A p \in Proc : pc[p] = "idle"
    BY DEF Init
  <2>2. file = NoFile /\ disk = NoFile /\ expected = Default
    BY DEF Init
  <2> QED BY <2>1, <2>2 DEF Unmixed, Ledger, NoFile, Readable, Loaded
<1>2. Unmixed /\ Ledger => QuietSavesHold
  BY DEF Unmixed, Ledger, Quiet, Stale, HalfSaved, QuietSavesHold
<1> QED BY <1>1, <1>2, InitTypes, TypeStep, UnmixedStep, LedgerStep, PTL DEF Spec

(***************************************************************************)
(* What readers know.                                                      *)
(***************************************************************************)

(* A node or a client has the profile as it was at the change it has seen. *)
Reader(p) == pc[p] \in {"serving", "client"}

Readers ==
    /\ \A p \in Proc : Reader(p) /\ seen[p] = changes => profile[p] = Loaded(file)
    /\ \A p, q \in Proc : Reader(p) /\ Reader(q) /\ seen[p] = seen[q] => profile[p] = profile[q]
    /\ \A p \in Proc : pc[p] = "serving" =>
          \E flags \in Flags : config[p] = build_config(profile[p], flags)

(* A step after which no more commands read than before, and which counts  *)
(* its change of the file, if it makes one, leaves them right.             *)
LEMMA ReadersKept ==
    ASSUME TypeOK, Readers,
           \/ changes' = changes /\ Loaded(file') = Loaded(file)
           \/ changes' = changes + 1,
           \A q \in Proc : pc'[q] \in {"serving", "client"} =>
              /\ pc'[q] = pc[q] /\ seen'[q] = seen[q]
              /\ profile'[q] = profile[q] /\ config'[q] = config[q]
    PROVE  Readers'
<1>1. ASSUME NEW p \in Proc, Reader(p)' PROVE Reader(p) /\ seen'[p] = seen[p] /\ profile'[p] = profile[p]
  BY <1>1 DEF Reader
<1>2. ASSUME NEW p \in Proc, Reader(p)', seen'[p] = changes' PROVE profile'[p] = Loaded(file')
  <2>1. seen[p] \in 0..changes /\ changes \in Nat
    BY DEF TypeOK
  <2>2. changes' = changes /\ Loaded(file') = Loaded(file)
    BY <1>1, <1>2, <2>1
  <2> QED BY <1>1, <1>2, <2>2 DEF Readers
<1>3. ASSUME NEW p \in Proc, NEW q \in Proc, Reader(p)', Reader(q)', seen'[p] = seen'[q]
      PROVE  profile'[p] = profile'[q]
  BY <1>1, <1>3 DEF Readers
<1>4. ASSUME NEW p \in Proc, pc'[p] = "serving"
      PROVE  \E flags \in Flags : config'[p] = build_config(profile'[p], flags)
  <2>1. pc[p] = "serving" /\ profile'[p] = profile[p] /\ config'[p] = config[p]
    BY <1>4
  <2> QED BY <2>1 DEF Readers
<1> QED BY <1>2, <1>3, <1>4 DEF Readers

(* So does a step in which one command reads the file.                     *)
LEMMA ReadersJoined ==
    ASSUME TypeOK, Readers, NEW p \in Proc, Reads(p), changes' = changes, file' = file,
           \/ pc'[p] = "client"
           \/ \E flags \in Flags : config'[p] = build_config(Loaded(file), flags),
           \A q \in Proc : q # p => pc'[q] = pc[q] /\ config'[q] = config[q]
    PROVE  Readers'
<1>1. profile'[p] = Loaded(file) /\ seen'[p] = changes
  BY DEF Reads, TypeOK
<1>2. ASSUME NEW q \in Proc, q # p
      PROVE  (Reader(q)' <=> Reader(q)) /\ seen'[q] = seen[q] /\ profile'[q] = profile[q]
  BY <1>2 DEF Reads, TypeOK, Reader
<1>3. ASSUME NEW q \in Proc, Reader(q)', seen'[q] = changes' PROVE profile'[q] = Loaded(file')
  BY <1>1, <1>2, <1>3 DEF Readers
<1>4. ASSUME NEW q \in Proc, NEW r \in Proc, Reader(q)', Reader(r)', seen'[q] = seen'[r]
      PROVE  profile'[q] = profile'[r]
  <2>1. CASE q # p /\ r # p
    BY <1>2, <1>4, <2>1 DEF Readers
  <2>2. CASE q = p \/ r = p
    BY <1>1, <1>3, <1>4, <2>2
  <2> QED BY <2>1, <2>2
<1>5. ASSUME NEW q \in Proc, pc'[q] = "serving"
      PROVE  \E flags \in Flags : config'[q] = build_config(profile'[q], flags)
  <2>1. CASE q = p
    BY <1>1, <1>5, <2>1
  <2>2. CASE q # p
    <3>1. pc[q] = "serving" /\ config'[q] = config[q] /\ profile'[q] = profile[q]
      BY <1>2, <1>5, <2>2
    <3> QED BY <3>1 DEF Readers
  <2> QED BY <2>1, <2>2
<1> QED BY <1>3, <1>4, <1>5 DEF Readers

LEMMA ReadersStep == TypeOK /\ Readers /\ [Next]_vars => Readers'
<1> SUFFICES ASSUME TypeOK, Readers, [Next]_vars PROVE Readers'
  OBVIOUS
<1> USE DEF histVars, procVars, fileVars
<1>t. /\ DOMAIN pc = Proc /\ DOMAIN seen = Proc /\ DOMAIN profile = Proc /\ DOMAIN config = Proc
      /\ file \in FileSet
  BY DEF TypeOK, Config
<1>1. ASSUME NEW p \in Proc, SetBegins(p) PROVE Readers'
  <2>1. \A q \in Proc : q # p => profile'[q] = profile[q]
    BY <1>1, <1>t DEF SetBegins
  <2> QED BY <1>1, <1>t, <2>1, ReadersKept DEF SetBegins
<1>2. ASSUME NEW p \in Proc, SetRefused(p) PROVE Readers'
  BY <1>2, ReadersKept DEF SetRefused
<1>3. ASSUME NEW p \in Proc, SaveFailsEarly(p) PROVE Readers'
  BY <1>3, <1>t, ReadersKept DEF SaveFailsEarly, Ends
<1>4. ASSUME NEW p \in Proc, Truncate(p) PROVE Readers'
  BY <1>4, <1>t, ReadersKept DEF Truncate
<1>5. ASSUME NEW p \in Proc, Write(p) PROVE Readers'
  BY <1>5, <1>t, ReadersKept DEF Write
<1>6. ASSUME NEW p \in Proc, MakePrivate(p) PROVE Readers'
  <2>1. Loaded(file') = Loaded(file)
    BY <1>6, <1>t DEF MakePrivate, Restricted, FileSet, Loaded
  <2> QED BY <1>6, <1>t, <2>1, ReadersKept DEF MakePrivate, Ends
<1>7. ASSUME NEW p \in Proc, SaveDies(p) PROVE Readers'
  BY <1>7, <1>t, ReadersKept DEF SaveDies, Ends
<1>8. ASSUME NEW p \in Proc, Serve(p) PROVE Readers'
  <2>1. PICK flags \in Flags :
           config' = [config EXCEPT ![p] = build_config(Loaded(file), flags)]
    BY <1>8 DEF Serve
  <2>2. config'[p] = build_config(Loaded(file), flags)
    BY <1>t, <2>1
  <2>3. \A q \in Proc : q # p => pc'[q] = pc[q] /\ config'[q] = config[q]
    BY <1>8, <1>t, <2>1 DEF Serve
  <2> QED BY <1>8, <2>2, <2>3, ReadersJoined DEF Serve
<1>9. ASSUME NEW p \in Proc, ClientStarts(p) PROVE Readers'
  <2>1. pc'[p] = "client" /\ \A q \in Proc : q # p => pc'[q] = pc[q] /\ config'[q] = config[q]
    BY <1>9, <1>t DEF ClientStarts
  <2> QED BY <1>9, <2>1, ReadersJoined DEF ClientStarts
<1>10. ASSUME NEW p \in Proc, Stops(p) PROVE Readers'
  BY <1>10, <1>t, ReadersKept DEF Stops, Ends
<1>11. ASSUME Flush PROVE Readers'
  BY <1>11, ReadersKept DEF Flush
<1>12. ASSUME PowerLoss PROVE Readers'
  BY <1>12, ReadersKept DEF PowerLoss
<1>13. ASSUME UNCHANGED vars PROVE Readers'
  BY <1>13, ReadersKept DEF vars
<1> QED BY <1>1, <1>2, <1>3, <1>4, <1>5, <1>6, <1>7, <1>8, <1>9, <1>10, <1>11, <1>12, <1>13
        DEF Next

(* The address a client dials is one the listener answers at.              *)
LEMMA DialableListens ==
    ASSUME NEW bind PROVE dialable(bind) \in ListensAt(bind)
<1>1. CASE \E q \in Port : bind \in Wildcards(q)
  <2> DEFINE q == CHOOSE r \in Port : bind \in Wildcards(r)
  <2>1. q \in Port /\ bind \in Wildcards(q)
    BY <1>1
  <2>2. dialable(bind) = Loopback(q)
    BY <1>1 DEF dialable
  <2> QED BY <2>1, <2>2 DEF ListensAt
<1>2. CASE ~\E q \in Port : bind \in Wildcards(q)
  BY <1>2 DEF dialable, ListensAt
<1> QED BY <1>1, <1>2

(* A client and a node that read the profile at the same change agree on   *)
(* where to meet and on the key.                                           *)
THEOREM ClientAlwaysFindsNode == Spec => []ClientFindsNode
<1>1. Init => Readers
  BY DEF Init, Readers, Reader
<1>2. Readers => ClientFindsNode
  <2> SUFFICES ASSUME Readers, NEW n \in Proc, NEW q \in Proc,
                      pc[n] = "serving", pc[q] = "client", seen[n] = seen[q],
                      config[n]["http-bind"] = profile[n]["http-bind"],
                      target[q] = Resolve(profile[q], [addr |-> Unset, api_key |-> Unset])
               PROVE  /\ target[q].addr \in ListensAt(config[n]["http-bind"])
                      /\ AuthOn(config[n]) => target[q].api_key = config[n]["api-key"]
    BY DEF ClientFindsNode
  <2>1. profile[q] = profile[n]
    BY DEF Readers, Reader
  <2>2. PICK flags \in Flags : config[n] = build_config(profile[n], flags)
    BY DEF Readers
  <2>3. config[n]["api-key"] = profile[n]["api-key"]
    BY <2>2, FlagAssumption DEF build_config, Settings, Overridable
  <2>4. target[q] = [addr |-> dialable(profile[n]["http-bind"]), api_key |-> profile[n]["api-key"]]
    BY <2>1 DEF Resolve
  <2> QED BY <2>3, <2>4, DialableListens
<1> QED BY <1>1, <1>2, InitTypes, TypeStep, ReadersStep, PTL DEF Spec
=============================================================================
