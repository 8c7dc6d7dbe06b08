------------------------- MODULE SourceCacheProofs -------------------------
(***************************************************************************)
(* Proofs about the folder firedbg/ (SourceCache): the types; that maps of *)
(* an older command never pass for current ones; that a map tells its age; *)
(* and that an undisturbed command has the breakpoints of what it runs.    *)
(***************************************************************************)
EXTENDS SourceCache, TLAPS

-----------------------------------------------------------------------------
(***************************************************************************)
(* Types.                                                                  *)
(***************************************************************************)
Busy == {"check", "recreate", "clean", "pin", "pin_write", "cache", "parse", "create",
         "write", "build", "debug"}

LEMMA InitTyped == Init => TypeOK
<1> SUFFICES ASSUME Init PROVE TypeOK
  OBVIOUS
<1>1. /\ 0 \in Times /\ 0 \in 0 .. MaxTool /\ 0 \in 0 .. MaxRuns
      /\ [content |-> 0, modified |-> 0] \in [content : Times, modified : Times]
  BY CacheAssumption DEF Times
<1> QED BY <1>1 DEF Init, TypeOK, Over, Subcommands

LEMMA EditTyped == ASSUME TypeOK, NEW f \in Files, Edit(f) PROVE TypeOK'
<1>1. clock + 1 \in Times
  BY CacheAssumption DEF TypeOK, Edit, Times
<1> QED BY <1>1 DEF TypeOK, Edit, processVars

LEMMA UpgradeTyped == TypeOK /\ Upgrade => TypeOK'
BY CacheAssumption DEF TypeOK, Upgrade, runVars, processVars

LEMMA StartTyped == ASSUME TypeOK, NEW p \in Processes, Start(p) PROVE TypeOK'
<1>1. runs + 1 \in 0 .. MaxRuns
  BY CacheAssumption DEF TypeOK, Start
<1> QED BY <1>1 DEF TypeOK, Start, diskVars

LEMMA CrashTyped == ASSUME TypeOK, NEW p \in Processes, Crash(p) PROVE TypeOK'
BY DEF TypeOK, Crash, diskVars, Over

LEMMA DispatchTyped ==
    ASSUME TypeOK, NEW p \in Processes, Dispatch(p)
    PROVE  /\ at' \in [Processes -> Over \cup Busy]
           /\ todo' \in [Processes -> SUBSET (Files \cup {VersionFile})]
<1>1. at \in [Processes -> Over \cup Busy] /\ todo \in [Processes -> SUBSET (Files \cup {VersionFile})]
  BY DEF TypeOK, Busy
<1>2. Entries \in SUBSET (Files \cup {VersionFile}) /\ {"clean", "cache"} \subseteq Busy
  BY DEF Entries, Busy
<1> QED BY <1>1, <1>2 DEF Dispatch, Goto

LEMMA CheckVersionTyped == ASSUME TypeOK, NEW p \in Processes, CheckVersion(p) PROVE TypeOK'
<1>1. /\ at' \in [Processes -> Over \cup Busy]
      /\ todo' \in [Processes -> SUBSET (Files \cup {VersionFile})]
  <2>1. CASE Dispatch(p)
    BY <2>1, DispatchTyped
  <2>2. CASE Goto(p, "failed") /\ UNCHANGED todo
    BY <2>2 DEF TypeOK, Goto, Over, Busy
  <2>3. CASE Goto(p, "recreate") /\ todo' = [todo EXCEPT ![p] = Entries]
    BY <2>3 DEF TypeOK, Goto, Over, Busy, Entries
  <2> QED BY <2>1, <2>2, <2>3 DEF CheckVersion
<1> QED BY <1>1 DEF TypeOK, CheckVersion, diskVars, runVars, Busy

LEMMA RemoveTyped == ASSUME TypeOK, NEW p \in Processes, Remove(p) PROVE TypeOK'
<1> PICK entry \in todo[p] :
        /\ todo' = [todo EXCEPT ![p] = @ \ {entry}]
        /\ IF entry = VersionFile
           THEN version' = Absent /\ UNCHANGED map
           ELSE map' = [map EXCEPT ![entry] = Absent] /\ UNCHANGED version
  BY DEF Remove
<1>1. /\ todo' \in [Processes -> SUBSET (Files \cup {VersionFile})]
      /\ map' \in [Files -> Maps \cup {Absent}]
      /\ version' \in 0 .. MaxTool \cup {Absent, Truncated}
  BY DEF TypeOK
<1> QED BY <1>1 DEF TypeOK, Remove, runVars

LEMMA PinTyped == ASSUME TypeOK, NEW p \in Processes, Pin(p) PROVE TypeOK'
BY DEF TypeOK, Pin, Goto, runVars

LEMMA PinWriteTyped == ASSUME TypeOK, NEW p \in Processes, PinWrite(p) PROVE TypeOK'
<1>1. /\ at' \in [Processes -> Over \cup Busy]
      /\ todo' \in [Processes -> SUBSET (Files \cup {VersionFile})]
  BY DispatchTyped DEF PinWrite
<1> QED BY <1>1 DEF TypeOK, PinWrite, runVars, Busy

LEMMA SkipTyped == ASSUME TypeOK, NEW p \in Processes, NEW f \in Files, Skip(p, f) PROVE TypeOK'
BY DEF TypeOK, Skip, diskVars, runVars

LEMMA RefreshTyped ==
    ASSUME TypeOK, NEW p \in Processes, NEW f \in Files, Refresh(p, f) PROVE TypeOK'
BY DEF TypeOK, Refresh, Goto, diskVars, runVars

LEMMA ParseTyped == ASSUME TypeOK, NEW p \in Processes, Parse(p) PROVE TypeOK'
BY DEF TypeOK, Parse, Goto, Unparsed, diskVars

LEMMA CreateMapTyped == ASSUME TypeOK, NEW p \in Processes, CreateMap(p) PROVE TypeOK'
<1>1. [functions |-> Truncated, age |-> 0, modified |-> clock, by |-> mine[p]] \in Maps
  BY CacheAssumption DEF TypeOK, Maps, Times
<1> QED BY <1>1 DEF TypeOK, CreateMap, Goto, runVars

LEMMA WriteMapTyped == ASSUME TypeOK, NEW p \in Processes, WriteMap(p) PROVE TypeOK'
<1>1. MapOf(p) \in Maps
  BY DEF TypeOK, Maps, MapOf
<1> QED BY <1>1 DEF TypeOK, WriteMap, Goto, runVars

LEMMA BuildTyped == ASSUME TypeOK, NEW p \in Processes, Build(p) PROVE TypeOK'
BY DEF TypeOK, Build, Goto, diskVars, runVars

(* Steps that only go on. *)
LEMMA OthersTyped ==
    ASSUME TypeOK, NEW p \in Processes, Removed(p) \/ Cached(p) \/ Debug(p) PROVE TypeOK'
BY DEF TypeOK, Removed, Cached, Debug, Goto, Over, diskVars, runVars

LEMMA NextTyped == TypeOK /\ [Next]_vars => TypeOK'
<1> SUFFICES ASSUME TypeOK, [Next]_vars PROVE TypeOK'
  OBVIOUS
<1>1. CASE UNCHANGED vars
  BY <1>1 DEF TypeOK, vars, diskVars, runVars, processVars
<1>2. CASE Next
  BY <1>2, EditTyped, UpgradeTyped, StartTyped, CrashTyped, CheckVersionTyped, RemoveTyped,
     PinTyped, PinWriteTyped, SkipTyped, RefreshTyped, ParseTyped, CreateMapTyped,
     WriteMapTyped, BuildTyped, OthersTyped DEF Next, Run
<1> QED BY <1>1, <1>2

(* Every variable of the cache keeps its type (command/src/main.rs, parser/src/serde.rs). *)
THEOREM CacheTypeCorrect == Spec => []TypeOK
BY InitTyped, NextTyped, PTL DEF Spec

-----------------------------------------------------------------------------
(***************************************************************************)
(* Versions.  As long as all commands at work are of one version, one that *)
(* recreates the folder has still before it whatever is of another         *)
(* version; after that there is nothing of another left.                   *)
(***************************************************************************)
AfterRecreate == Busy \ {"check", "recreate", "clean"}

OneVersion == \A p, q \in Working : mine[p] = mine[q]

OldIsListed ==
    \A p \in Processes : at[p] = "recreate" =>
        /\ \A f \in Files : map[f] # Absent /\ map[f].by # mine[p] => f \in todo[p]
        /\ version \in {Absent, Truncated, mine[p]} \/ VersionFile \in todo[p]

OldIsGone ==
    \A p \in Processes : at[p] \in AfterRecreate =>
        /\ \A f \in Files : map[f] # Absent => map[f].by = mine[p]
        /\ version \in {Absent, Truncated, mine[p]}

VersionInv == TypeOK /\ OneVersion /\ OldIsListed /\ OldIsGone /\ MapsAreCurrent

LEMMA InitVersions == Init => VersionInv
BY InitTyped DEF Init, VersionInv, OneVersion, OldIsListed, OldIsGone, MapsAreCurrent,
    Working, Over, AfterRecreate, Busy

LEMMA EditVersions == ASSUME VersionInv, NEW f \in Files, Edit(f) PROVE VersionInv'
BY EditTyped DEF Edit, VersionInv, OneVersion, OldIsListed, OldIsGone, MapsAreCurrent,
    Working, processVars

(* An upgrade changes nothing of the commands at work, whatever their version. *)
LEMMA UpgradeVersions == VersionInv /\ Upgrade => VersionInv'
BY UpgradeTyped DEF Upgrade, VersionInv, OneVersion, OldIsListed, OldIsGone, MapsAreCurrent,
    Working, runVars, processVars

(* A command that starts where no other version is at work. *)
LEMMA StartVersions ==
    ASSUME VersionInv, NEW p \in Processes, Start(p), ~mixed' PROVE VersionInv'
<1>1. "check" \notin AfterRecreate \cup {"recreate"}
  BY DEF AfterRecreate, Busy
<1>2. /\ at[p] \in Over /\ \A q \in Working : mine[q] = tool
      /\ UNCHANGED <<map, version, todo>>
      /\ at' = [at EXCEPT ![p] = "check"] /\ mine' = [mine EXCEPT ![p] = tool]
  BY DEF Start, diskVars
<1>3. /\ at'[p] = "check" /\ mine'[p] = tool
      /\ \A q \in Processes : q # p => at'[q] = at[q] /\ mine'[q] = mine[q]
  BY <1>2 DEF VersionInv, TypeOK
<1>4. OneVersion'
  BY <1>2, <1>3 DEF OneVersion, Working
<1>5. OldIsListed' /\ OldIsGone' /\ MapsAreCurrent'
  BY <1>1, <1>2, <1>3 DEF VersionInv, OldIsListed, OldIsGone, MapsAreCurrent
<1> QED BY <1>4, <1>5, StartTyped DEF VersionInv

LEMMA CrashVersions == ASSUME VersionInv, NEW p \in Processes, Crash(p) PROVE VersionInv'
<1>1. "idle" \notin AfterRecreate \cup {"recreate"} /\ "idle" \in Over
  BY DEF AfterRecreate, Busy, Over
<1> QED BY <1>1, CrashTyped DEF Crash, VersionInv, TypeOK, OneVersion, OldIsListed, OldIsGone,
    MapsAreCurrent, Working, diskVars

(* The subcommand proper starts where nothing is older. *)
LEMMA DispatchVersions ==
    ASSUME VersionInv, NEW p \in Processes, at[p] \notin Over, Dispatch(p),
           \A f \in Files : map[f] # Absent => map[f].by = mine[p],
           version' \in {version, mine[p]}, version' \in {Absent, Truncated, mine[p]},
           UNCHANGED <<map, mine>>
    PROVE  OneVersion' /\ OldIsListed' /\ OldIsGone' /\ MapsAreCurrent'
<1>1. /\ at' \in {[at EXCEPT ![p] = "clean"], [at EXCEPT ![p] = "cache"]}
      /\ \A q \in Processes : q # p => todo'[q] = todo[q]
  BY DEF Dispatch, Goto, VersionInv, TypeOK
<1>2. {"clean", "cache"} \cap Over = {} /\ "recreate" \notin {"clean", "cache"}
  BY DEF Over
<1>3. at'[p] \in {"clean", "cache"} /\ \A q \in Processes : q # p => at'[q] = at[q]
  BY <1>1 DEF VersionInv, TypeOK
<1>4. \A q \in Processes : at[q] \notin Over => mine[q] = mine[p]
  BY DEF VersionInv, OneVersion, Working
<1>5. OneVersion'
  BY <1>2, <1>3, <1>4 DEF OneVersion, Working
<1>6. OldIsListed'
  <2>1. "recreate" \notin Over
    BY DEF Over
  <2> QED BY <1>1, <1>2, <1>3, <1>4, <2>1 DEF VersionInv, OldIsListed
<1>7. OldIsGone'
  <2>1. AfterRecreate \cap Over = {}
    BY DEF AfterRecreate, Busy, Over
  <2> QED BY <1>3, <1>4, <2>1 DEF VersionInv, OldIsGone
<1>8. MapsAreCurrent'
  BY DEF MapsAreCurrent
<1> QED BY <1>5, <1>6, <1>7, <1>8

LEMMA CheckVersionVersions ==
    ASSUME VersionInv, NEW p \in Processes, CheckVersion(p) PROVE VersionInv'
<1>1. at[p] = "check" /\ at[p] \notin Over /\ UNCHANGED <<map, version, mine>>
  BY DEF CheckVersion, Over, diskVars, runVars
<1>2. mine[p] \in Nat
  BY CacheAssumption DEF VersionInv, TypeOK
<1>3. CASE Goto(p, "failed") /\ UNCHANGED todo
  <2>1. "failed" \notin AfterRecreate \cup {"recreate"} /\ "failed" \in Over
    BY DEF AfterRecreate, Busy, Over
  <2> QED BY <1>1, <1>3, <2>1, CheckVersionTyped DEF Goto, VersionInv, TypeOK, OneVersion, OldIsListed,
          OldIsGone, MapsAreCurrent, Working
<1>4. CASE version = mine[p] /\ Dispatch(p)
  <2>1. version \notin {Absent, Truncated}
    BY <1>2, <1>4, CacheAssumption
  <2>2. \A f \in Files : map[f] # Absent => map[f].by = mine[p]
    BY <1>2, <1>4, <2>1 DEF VersionInv, MapsAreCurrent
  <2> QED BY <1>1, <1>2, <1>4, <2>2, DispatchVersions, CheckVersionTyped DEF VersionInv
<1>5. CASE Goto(p, "recreate") /\ todo' = [todo EXCEPT ![p] = Entries]
  <2>1. "recreate" \notin AfterRecreate \cup Over
    BY DEF AfterRecreate, Over
  <2>2. /\ \A f \in Files : map[f] # Absent => f \in Entries
        /\ version = Absent \/ VersionFile \in Entries
    BY DEF Entries
  <2> HIDE DEF Entries
  <2> QED BY <1>1, <1>5, <2>1, <2>2, CheckVersionTyped DEF Goto, VersionInv, TypeOK, OneVersion, OldIsListed,
          OldIsGone, MapsAreCurrent, Working
<1> QED BY <1>3, <1>4, <1>5 DEF CheckVersion

LEMMA RemoveVersions == ASSUME VersionInv, NEW p \in Processes, Remove(p) PROVE VersionInv'
<1>1. PICK entry \in todo[p] :
        /\ todo' = [todo EXCEPT ![p] = @ \ {entry}]
        /\ IF entry = VersionFile
           THEN version' = Absent /\ UNCHANGED map
           ELSE map' = [map EXCEPT ![entry] = Absent] /\ UNCHANGED version
  BY DEF Remove
<1>2. UNCHANGED <<at, mine>>
  BY DEF Remove, runVars
<1>3. \A q \in Processes : todo[q] \ {entry} \subseteq todo'[q]
  BY <1>1 DEF VersionInv, TypeOK
<1>4. \A f \in Files : map'[f] # Absent => f # entry /\ map'[f] = map[f]
  BY <1>1, CacheAssumption DEF VersionInv, TypeOK
<1>5. version' # Absent => entry # VersionFile /\ version' = version
  BY <1>1
<1>6. OneVersion' /\ MapsAreCurrent'
  BY <1>2, <1>4, <1>5 DEF VersionInv, OneVersion, MapsAreCurrent, Working
<1>7. OldIsListed'
  BY <1>2, <1>3, <1>4, <1>5 DEF VersionInv, OldIsListed
<1>8. OldIsGone'
  BY <1>2, <1>4, <1>5 DEF VersionInv, OldIsGone
<1> QED BY <1>6, <1>7, <1>8, RemoveTyped DEF VersionInv

(* With an empty list nothing older is left. *)
LEMMA RemovedVersions == ASSUME VersionInv, NEW p \in Processes, Removed(p) PROVE VersionInv'
<1>1. /\ at' \in {[at EXCEPT ![p] = "done"], [at EXCEPT ![p] = "pin"]}
      /\ at'[p] = "pin" => at[p] = "recreate"
      /\ at[p] \notin Over /\ todo[p] = {}
      /\ UNCHANGED <<map, version, mine, todo>>
  BY DEF Removed, Goto, Over, VersionInv, TypeOK, diskVars, runVars
<1>2. "done" \in Over /\ {"done", "pin"} \cap {"recreate"} = {} /\ "done" \notin AfterRecreate
  BY DEF Over, AfterRecreate, Busy
<1>3. at'[p] = "pin" => /\ \A f \in Files : map[f] # Absent => map[f].by = mine[p]
                        /\ version \in {Absent, Truncated, mine[p]}
  BY <1>1 DEF VersionInv, OldIsListed
<1>4. \A q \in Processes : q # p => at'[q] = at[q]
  BY <1>1 DEF VersionInv, TypeOK
<1>5. at'[p] \in {"done", "pin"}
  BY <1>1 DEF VersionInv, TypeOK
<1>6. OneVersion' /\ MapsAreCurrent'
  BY <1>1, <1>2, <1>4, <1>5 DEF VersionInv, OneVersion, MapsAreCurrent, Working
<1>7. OldIsListed'
  BY <1>1, <1>2, <1>4, <1>5 DEF VersionInv, OldIsListed
<1>8. OldIsGone'
  BY <1>1, <1>2, <1>3, <1>4, <1>5 DEF VersionInv, OldIsGone
<1> QED BY <1>6, <1>7, <1>8, OthersTyped DEF VersionInv

LEMMA PinVersions == ASSUME VersionInv, NEW p \in Processes, Pin(p) PROVE VersionInv'
<1>1. /\ at[p] = "pin" /\ at' = [at EXCEPT ![p] = "pin_write"] /\ version' = Truncated
      /\ UNCHANGED <<map, mine, todo>>
  BY DEF Pin, Goto, runVars
<1>2. {"pin", "pin_write"} \cap (Over \cup {"recreate"}) = {} /\ {"pin", "pin_write"} \subseteq AfterRecreate
  BY DEF Over, AfterRecreate, Busy
<1> QED BY <1>1, <1>2, PinTyped DEF VersionInv, TypeOK, OneVersion, OldIsListed, OldIsGone,
        MapsAreCurrent, Working

LEMMA PinWriteVersions == ASSUME VersionInv, NEW p \in Processes, PinWrite(p) PROVE VersionInv'
<1>1. at[p] = "pin_write" /\ version' = mine[p] /\ Dispatch(p) /\ UNCHANGED <<map, mine>>
  BY DEF PinWrite, runVars
<1>2. at[p] \notin Over /\ at[p] \in AfterRecreate
  BY <1>1 DEF Over, AfterRecreate, Busy
<1>3. \A f \in Files : map[f] # Absent => map[f].by = mine[p]
  BY <1>2 DEF VersionInv, OldIsGone
<1> QED BY <1>1, <1>2, <1>3, DispatchVersions, PinWriteTyped DEF VersionInv

(* A command that has checked the version goes on; what it writes is of its own version. *)
LEMMA GoingOnVersions ==
    ASSUME VersionInv, NEW p \in Processes, at[p] \in AfterRecreate,
           NEW where \in AfterRecreate \cup {"done", "failed"}, Goto(p, where),
           \A f \in Files : map'[f] = map[f] \/ map'[f].by = mine[p],
           UNCHANGED <<version, mine>>,
           \A q \in Processes : at[q] = "recreate" => todo'[q] = todo[q]
    PROVE  OneVersion' /\ OldIsListed' /\ OldIsGone' /\ MapsAreCurrent'
<1>1. /\ at[p] \notin Over \cup {"recreate"} /\ {"done", "failed"} \subseteq Over
      /\ "recreate" \notin AfterRecreate \cup {"done", "failed"}
      /\ {"done", "failed"} \cap AfterRecreate = {}
  BY DEF Over, AfterRecreate, Busy
<1>2. \A q \in Processes : at[q] \notin Over => mine[q] = mine[p]
  BY <1>1 DEF VersionInv, OneVersion, Working
<1>3. /\ \A f \in Files : map[f] # Absent => map[f].by = mine[p]
      /\ version \in {Absent, Truncated, mine[p]}
  BY DEF VersionInv, OldIsGone
<1>4. \A f \in Files : map'[f] # Absent => map'[f].by = mine[p]
  BY <1>2, <1>3
<1>5. at'[p] = where /\ \A q \in Processes : q # p => at'[q] = at[q]
  BY DEF Goto, VersionInv, TypeOK
<1>6. OneVersion'
  BY <1>1, <1>2, <1>5 DEF VersionInv, OneVersion, Working
<1>7. OldIsListed'
  <2>1. "recreate" \notin Over
    BY DEF Over
  <2> QED BY <1>1, <1>2, <1>4, <1>3, <1>5, <2>1 DEF OldIsListed
<1>8. OldIsGone'
  <2>1. AfterRecreate \cap Over = {}
    BY DEF AfterRecreate, Busy, Over
  <2> QED BY <1>1, <1>2, <1>3, <1>4, <1>5, <2>1 DEF VersionInv, OldIsGone
<1>9. MapsAreCurrent'
  BY <1>3, <1>4 DEF MapsAreCurrent
<1> QED BY <1>6, <1>7, <1>8, <1>9

LEMMA CachingVersions ==
    ASSUME VersionInv, NEW p \in Processes,
           \/ \E f \in Files : Refresh(p, f)
           \/ Parse(p) \/ CreateMap(p) \/ WriteMap(p) \/ Cached(p) \/ Build(p) \/ Debug(p)
    PROVE  VersionInv'
<1>1. {"cache", "parse", "create", "write", "build", "debug"} \subseteq AfterRecreate
      /\ "recreate" \notin AfterRecreate
  BY DEF AfterRecreate, Busy
<1>2. ASSUME NEW f \in Files, Refresh(p, f) PROVE VersionInv'
  <2>1. /\ at[p] = "cache" /\ Goto(p, "parse") /\ UNCHANGED <<map, version, mine>>
        /\ \A q \in Processes : q # p => todo'[q] = todo[q]
    BY <1>2 DEF Refresh, diskVars, runVars, VersionInv, TypeOK
  <2>2. TypeOK'
    BY <1>2, RefreshTyped DEF VersionInv
  <2> QED BY <1>1, <2>1, <2>2, GoingOnVersions DEF VersionInv
<1>3. CASE Parse(p)
  <2>1. at[p] = "parse" /\ Goto(p, "create") /\ UNCHANGED <<map, version, mine, todo>>
    BY <1>3 DEF Parse, diskVars
  <2>2. TypeOK'
    BY <1>3, ParseTyped DEF VersionInv
  <2> QED BY <1>1, <2>1, <2>2, GoingOnVersions DEF VersionInv
<1>4. CASE CreateMap(p)
  <2>1. /\ at[p] = "create" /\ Goto(p, "write") /\ UNCHANGED <<version, mine, todo>>
        /\ \A f \in Files : map'[f] = map[f] \/ map'[f].by = mine[p]
    BY <1>4 DEF CreateMap, runVars, VersionInv, TypeOK
  <2>2. TypeOK'
    BY <1>4, CreateMapTyped DEF VersionInv
  <2> QED BY <1>1, <2>1, <2>2, GoingOnVersions DEF VersionInv
<1>5. CASE WriteMap(p)
  <2>1. /\ at[p] = "write" /\ Goto(p, "cache") /\ UNCHANGED <<version, mine, todo>>
        /\ \A f \in Files : map'[f] = map[f] \/ map'[f].by = mine[p]
    BY <1>5 DEF WriteMap, MapOf, runVars, VersionInv, TypeOK
  <2>2. TypeOK'
    BY <1>5, WriteMapTyped DEF VersionInv
  <2> QED BY <1>1, <2>1, <2>2, GoingOnVersions DEF VersionInv
<1>6. CASE Cached(p)
  <2>1. /\ at[p] = "cache" /\ (Goto(p, "build") \/ Goto(p, "done"))
        /\ UNCHANGED <<map, version, mine, todo>>
    BY <1>6 DEF Cached, diskVars, runVars
  <2>2. TypeOK'
    BY <1>6, OthersTyped DEF VersionInv
  <2> QED BY <1>1, <2>1, <2>2, GoingOnVersions DEF VersionInv
<1>7. CASE Build(p)
  <2>1. at[p] = "build" /\ Goto(p, "debug") /\ UNCHANGED <<map, version, mine, todo>>
    BY <1>7 DEF Build, diskVars, runVars
  <2>2. TypeOK'
    BY <1>7, BuildTyped DEF VersionInv
  <2> QED BY <1>1, <2>1, <2>2, GoingOnVersions DEF VersionInv
<1>8. CASE Debug(p)
  <2>1. /\ at[p] = "debug" /\ (Goto(p, "done") \/ Goto(p, "failed"))
        /\ UNCHANGED <<map, version, mine, todo>>
    BY <1>8 DEF Debug, diskVars, runVars
  <2>2. TypeOK'
    BY <1>8, OthersTyped DEF VersionInv
  <2> QED BY <1>1, <2>1, <2>2, GoingOnVersions DEF VersionInv
<1> QED BY <1>2, <1>3, <1>4, <1>5, <1>6, <1>7, <1>8

LEMMA SkipVersions ==
    ASSUME VersionInv, NEW p \in Processes, NEW f \in Files, Skip(p, f) PROVE VersionInv'
<1>1. /\ at[p] = "cache" /\ UNCHANGED <<at, map, version, mine>>
      /\ \A q \in Processes : q # p => todo'[q] = todo[q]
  BY DEF Skip, diskVars, runVars, VersionInv, TypeOK
<1> QED BY <1>1, SkipTyped DEF VersionInv, OneVersion, OldIsListed, OldIsGone,
        MapsAreCurrent, Working

LEMMA ProcessVersions ==
    ASSUME VersionInv, NEW p \in Processes, Crash(p) \/ Run(p) PROVE VersionInv'
BY CrashVersions, CheckVersionVersions, RemoveVersions, RemovedVersions, PinVersions,
   PinWriteVersions, CachingVersions, SkipVersions DEF Run

(* Once two versions have been at work at once, nothing more is claimed. *)
MixedInv == TypeOK /\ (~mixed => VersionInv)

LEMMA NextVersions == MixedInv /\ [Next]_vars => MixedInv'
<1> SUFFICES ASSUME MixedInv, [Next]_vars, ~mixed' PROVE VersionInv'
  BY NextTyped DEF MixedInv
<1>1. ~mixed
  BY NextTyped DEF Next, vars, runVars, Edit, Upgrade, Start, Crash, Run, CheckVersion, Remove,
     Removed, Pin, PinWrite, Skip, Refresh, Parse, CreateMap, WriteMap, Cached, Build, Debug
<1>2. VersionInv
  BY <1>1 DEF MixedInv
<1>3. CASE UNCHANGED vars
  BY <1>2, <1>3, NextTyped DEF vars, diskVars, runVars, processVars, VersionInv, OneVersion,
     OldIsListed, OldIsGone, MapsAreCurrent, Working
<1>4. CASE Next
  BY <1>2, <1>4, EditVersions, UpgradeVersions, StartVersions, ProcessVersions DEF Next
<1> QED BY <1>3, <1>4

(* Maps of an older command are gone before the folder gets a newer one's version, with kills and     *)
(* upgrades at any point and by any number of commands at once, as long as no two of them are of      *)
(* different versions (re_create_firedbg_folder, pin_firedbg_version).                                *)
THEOREM OldMapsNeverPass == Spec => []PinnedMapsAreCurrent
<1>1. Init => MixedInv
  BY InitVersions, InitTyped DEF MixedInv
<1>2. MixedInv => PinnedMapsAreCurrent
  BY DEF MixedInv, VersionInv, PinnedMapsAreCurrent
<1> QED BY <1>1, <1>2, NextVersions, PTL DEF Spec

-----------------------------------------------------------------------------
(***************************************************************************)
(* Times.  A source's content is named by the time it was saved, and the   *)
(* command notes a source's time before it reads the source: what it reads *)
(* is never older than what it notes.                                      *)
(***************************************************************************)
Clocks ==
    \A f \in Files :
        /\ source[f].content = source[f].modified /\ source[f].modified <= clock
        /\ map[f] # Absent => map[f].modified <= clock

\* Functions noted with an age come from a version between that age and now.
Between(age, noted, f) == noted \in Nat => age <= noted /\ noted <= source[f].content

MapsAreAged == \A f \in Files : map[f] # Absent => Between(map[f].age, map[f].functions, f)

NotesAreAged ==
    \A p \in Processes :
        /\ at[p] = "parse" => src_modified[p] <= source[file[p]].modified
        /\ at[p] \in {"create", "write"} => Between(src_modified[p], functions[p], file[p])

TimesInv == TypeOK /\ Clocks /\ MapsAreAged /\ NotesAreAged

LEMMA InitTimes == Init => TimesInv
<1> SUFFICES ASSUME Init PROVE TimesInv
  OBVIOUS
<1>1. \A f \in Files : map[f] = Absent /\ source[f].content = 0 /\ source[f].modified = 0
  BY DEF Init
<1>2. \A p \in Processes : at[p] = "idle"
  BY DEF Init
<1> QED BY <1>1, <1>2, InitTyped DEF Init, TimesInv, Clocks, MapsAreAged, NotesAreAged

LEMMA EditTimes == ASSUME TimesInv, NEW f \in Files, Edit(f) PROVE TimesInv'
<1>1. /\ clock' = clock + 1 /\ clock \in Nat
      /\ source' = [source EXCEPT ![f] = [content |-> clock + 1, modified |-> clock + 1]]
      /\ UNCHANGED <<map, at, file, src_modified, functions>>
  BY CacheAssumption DEF Edit, processVars, TimesInv, TypeOK, Times
<1>2. \A g \in Files : /\ source'[g].content = source'[g].modified /\ source'[g].modified <= clock'
                       /\ source[g].modified <= source'[g].modified
                       /\ source[g].content <= source'[g].content
                       /\ {source[g].content, source'[g].content, source[g].modified, source'[g].modified} \subseteq Nat
  BY <1>1 DEF TimesInv, TypeOK, Clocks, Times
<1>3. Clocks'
  <2>1. \A g \in Files : map[g] # Absent => map[g].modified <= clock /\ map[g].modified \in Nat
    BY DEF TimesInv, TypeOK, Clocks, Maps, Times
  <2> QED BY <1>1, <1>2, <2>1 DEF Clocks
<1>4. \A g \in Files : \A age \in Nat : \A noted : Between(age, noted, g) => Between(age, noted, g)'
  BY <1>2 DEF Between
<1>5. \A g \in Files : map[g] # Absent => map[g].age \in Nat
  BY DEF TimesInv, TypeOK, Maps, Times
<1>6. MapsAreAged'
  BY <1>1, <1>4, <1>5 DEF TimesInv, MapsAreAged, Between
<1>7. \A p \in Processes : src_modified[p] \in Nat /\ file[p] \in Files
  BY DEF TimesInv, TypeOK, Times
<1>8. NotesAreAged'
  BY <1>1, <1>2, <1>4, <1>7 DEF TimesInv, NotesAreAged, Between
<1> QED BY <1>3, <1>6, <1>8, EditTyped DEF TimesInv

(* The sources stay, maps stay or go, and nothing is noted. *)
LEMMA RestTimes ==
    ASSUME TimesInv, TypeOK', UNCHANGED <<source, clock, file, src_modified, functions>>,
           \A f \in Files : map'[f] \in {map[f], Absent},
           \A p \in Processes : at'[p] \in {"parse", "create", "write"} => at'[p] = at[p]
    PROVE  TimesInv'
<1>1. Clocks' /\ MapsAreAged'
  BY DEF TimesInv, Clocks, MapsAreAged, Between
<1>2. NotesAreAged'
  BY DEF TimesInv, NotesAreAged, Between
<1> QED BY <1>1, <1>2 DEF TimesInv

LEMMA DispatchTimes ==
    ASSUME TypeOK, NEW p \in Processes, Dispatch(p)
    PROVE  \A q \in Processes : at'[q] \in {"parse", "create", "write"} => at'[q] = at[q]
<1>1. at' \in {[at EXCEPT ![p] = "clean"], [at EXCEPT ![p] = "cache"]}
  BY DEF Dispatch, Goto
<1> QED BY <1>1 DEF TypeOK

LEMMA OtherStepsTimes ==
    ASSUME TimesInv, NEW p \in Processes,
           \/ Start(p) \/ Crash(p) \/ CheckVersion(p) \/ Remove(p) \/ Removed(p) \/ Pin(p)
           \/ PinWrite(p) \/ \E f \in Files : Skip(p, f)
           \/ Cached(p) \/ Build(p) \/ Debug(p)
    PROVE  TimesInv'
<1> DEFINE Plain == \A q \in Processes : at'[q] \in {"parse", "create", "write"} => at'[q] = at[q]
           Kept  == /\ UNCHANGED <<source, clock, file, src_modified, functions>>
                    /\ \A f \in Files : map'[f] \in {map[f], Absent}
<1>1. Kept
  <2>1. CASE Remove(p)
    BY <2>1 DEF Remove, TimesInv, TypeOK, runVars
  <2>2. CASE ~Remove(p)
    BY <2>2 DEF Start, Crash, CheckVersion, Removed, Pin, PinWrite, Skip, Cached, Build, Debug,
       diskVars, runVars
  <2> QED BY <2>1, <2>2
<1>2. Plain
  <2>1. CASE CheckVersion(p) \/ PinWrite(p)
    BY <2>1, DispatchTimes DEF CheckVersion, PinWrite, Goto, TimesInv, TypeOK
  <2>2. CASE Remove(p) \/ \E f \in Files : Skip(p, f)
    BY <2>2 DEF Remove, Skip
  <2>3. CASE Start(p) \/ Crash(p) \/ Removed(p) \/ Pin(p) \/ Cached(p) \/ Build(p) \/ Debug(p)
    <3>1. at' \in {[at EXCEPT ![p] = where] : where \in {"check", "idle", "done", "pin", "pin_write", "build", "debug", "failed"}}
      BY <2>3 DEF Start, Crash, Removed, Pin, Cached, Build, Debug, Goto
    <3> QED BY <3>1 DEF TimesInv, TypeOK
  <2> QED BY <2>1, <2>2, <2>3
<1>3. TypeOK'
  BY StartTyped, CrashTyped, CheckVersionTyped, RemoveTyped, PinTyped, PinWriteTyped,
     SkipTyped, BuildTyped, OthersTyped DEF TimesInv
<1> QED BY <1>1, <1>2, <1>3, RestTimes

(* The time is noted before the source is read. *)
LEMMA RefreshTimes ==
    ASSUME TimesInv, NEW p \in Processes, NEW f \in Files, Refresh(p, f) PROVE TimesInv'
<1>1. /\ UNCHANGED <<source, map, clock, functions>>
      /\ at' = [at EXCEPT ![p] = "parse"] /\ file' = [file EXCEPT ![p] = f]
      /\ src_modified' = [src_modified EXCEPT ![p] = source[f].modified]
  BY DEF Refresh, Goto, diskVars
<1>2. source[f].modified \in Nat
  BY DEF TimesInv, TypeOK, Times
<1>3. Clocks' /\ MapsAreAged'
  BY <1>1 DEF TimesInv, Clocks, MapsAreAged, Between
<1>4. NotesAreAged'
  BY <1>1, <1>2 DEF TimesInv, TypeOK, NotesAreAged, Between
<1> QED BY <1>3, <1>4, RefreshTyped DEF TimesInv

LEMMA ParseTimes == ASSUME TimesInv, NEW p \in Processes, Parse(p) PROVE TimesInv'
<1>1. /\ UNCHANGED <<source, map, clock, file, src_modified>>
      /\ at[p] = "parse" /\ at' = [at EXCEPT ![p] = "create"] /\ file[p] \in Files
      /\ \/ functions' = [functions EXCEPT ![p] = source[file[p]].content]
         \/ functions' = [functions EXCEPT ![p] = NoFunctions]
  BY DEF Parse, Goto, Unparsed, diskVars, TimesInv, TypeOK
<1>2. /\ source[file[p]].content = source[file[p]].modified /\ source[file[p]].content \in Nat
      /\ src_modified[p] <= source[file[p]].modified /\ NoFunctions \notin Nat
  BY <1>1, CacheAssumption DEF TimesInv, TypeOK, Clocks, NotesAreAged, Times
<1>3. Clocks' /\ MapsAreAged'
  BY <1>1 DEF TimesInv, Clocks, MapsAreAged, Between
<1>4. NotesAreAged'
  <2>1. \A q \in Processes : q # p => at'[q] = at[q] /\ functions'[q] = functions[q]
    BY <1>1 DEF TimesInv, TypeOK
  <2>2. at'[p] = "create" /\ functions'[p] \in {source[file[p]].content, NoFunctions}
    BY <1>1 DEF TimesInv, TypeOK
  <2> QED BY <1>1, <1>2, <2>1, <2>2 DEF TimesInv, NotesAreAged, Between
<1> QED BY <1>3, <1>4, ParseTyped DEF TimesInv

LEMMA CreateMapTimes == ASSUME TimesInv, NEW p \in Processes, CreateMap(p) PROVE TimesInv'
<1>1. /\ UNCHANGED <<source, clock, file, src_modified, functions>>
      /\ at[p] = "create" /\ at' = [at EXCEPT ![p] = "write"]
      /\ map' = [map EXCEPT ![file[p]] =
                  [functions |-> Truncated, age |-> 0, modified |-> clock, by |-> mine[p]]]
      /\ Truncated \notin Nat /\ clock \in Nat
  BY CacheAssumption DEF CreateMap, Goto, runVars, TimesInv, TypeOK, Times
<1>2. \A f \in Files : \/ map'[f] = map[f]
                       \/ map'[f].functions = Truncated /\ map'[f].modified = clock
  BY <1>1 DEF TimesInv, TypeOK
<1>3. Clocks' /\ MapsAreAged'
  BY <1>1, <1>2 DEF TimesInv, Clocks, MapsAreAged, Between
<1>4. NotesAreAged'
  BY <1>1 DEF TimesInv, TypeOK, NotesAreAged, Between
<1> QED BY <1>3, <1>4, CreateMapTyped DEF TimesInv

LEMMA WriteMapTimes == ASSUME TimesInv, NEW p \in Processes, WriteMap(p) PROVE TimesInv'
<1>1. /\ UNCHANGED <<source, clock, file, src_modified, functions>>
      /\ at[p] = "write" /\ at' = [at EXCEPT ![p] = "cache"]
      /\ map' = [map EXCEPT ![file[p]] = MapOf(p)]
      /\ clock \in Nat
  BY CacheAssumption DEF WriteMap, Goto, runVars, TimesInv, TypeOK, Times
<1>2. \A f \in Files : \/ map'[f] = map[f]
                       \/ /\ f = file[p] /\ map'[f].functions = functions[p]
                          /\ map'[f].age = src_modified[p] /\ map'[f].modified = clock
  BY <1>1 DEF TimesInv, TypeOK, MapOf
<1>3. Clocks'
  BY <1>1, <1>2 DEF TimesInv, Clocks
<1>4. MapsAreAged'
  BY <1>1, <1>2 DEF TimesInv, MapsAreAged, NotesAreAged, Between
<1>5. NotesAreAged'
  BY <1>1 DEF TimesInv, TypeOK, NotesAreAged, Between
<1> QED BY <1>3, <1>4, <1>5, WriteMapTyped DEF TimesInv

LEMMA NextTimes == TimesInv /\ [Next]_vars => TimesInv'
<1> SUFFICES ASSUME TimesInv, [Next]_vars PROVE TimesInv'
  OBVIOUS
<1>1. CASE UNCHANGED vars
  BY <1>1, NextTyped DEF vars, diskVars, runVars, processVars, TimesInv, Clocks, MapsAreAged,
     NotesAreAged, Between
<1>2. CASE Upgrade
  <2>1. UNCHANGED <<source, map, clock, at, file, src_modified, functions>>
    BY <1>2 DEF Upgrade, processVars
  <2> QED BY <1>2, <2>1, UpgradeTyped, RestTimes DEF TimesInv
<1>3. CASE \E f \in Files : Edit(f)
  BY <1>3, EditTimes
<1>4. ASSUME NEW p \in Processes, Start(p) \/ Crash(p) \/ Run(p) PROVE TimesInv'
  BY <1>4, OtherStepsTimes, RefreshTimes, ParseTimes, CreateMapTimes, WriteMapTimes DEF Run
<1> QED BY <1>1, <1>2, <1>3, <1>4 DEF Next

(* A map is never of another version of the source than its age tells, with any number of commands at *)
(* once, kills and edits at any point: src_modified is taken before the source is read                *)
(* (cache_workspace).                                                                                 *)
THEOREM AgesAlwaysTell == Spec => []AgeTells
<1>1. TimesInv => AgeTells
  <2> SUFFICES ASSUME TimesInv, NEW f \in Files, map[f] # Absent, map[f].age = source[f].modified
               PROVE  map[f].functions \in {source[f].content, NoFunctions, Truncated}
    BY DEF AgeTells
  <2>1. map[f].functions \in Nat \cup {NoFunctions, Truncated} /\ source[f].content \in Nat
    BY DEF TimesInv, TypeOK, Maps, Times
  <2>2. Between(map[f].age, map[f].functions, f) /\ source[f].content = source[f].modified
    BY DEF TimesInv, MapsAreAged, Clocks
  <2> QED BY <2>1, <2>2 DEF Between
<1> QED BY <1>1, InitTimes, NextTimes, PTL DEF Spec

-----------------------------------------------------------------------------
(***************************************************************************)
(* Undisturbed commands.  One command works at a time; a map that would be *)
(* skipped is of the source as it is, but for the one being written; and   *)
(* the command has been through the files that are off its list.           *)
(***************************************************************************)
Alone == \A p, q \in Working : p = q

Fit(f) == map[f] # Absent /\ map[f].functions = source[f].content

UpToDateFits ==
    \A f \in Files :
        UpToDate(f) /\ (\A p \in Processes : at[p] = "write" => file[p] # f) => Fit(f)

CachedBy(p) ==
    /\ at[p] = "cache" => \A f \in Files \ todo[p] : UpToDate(f)
    /\ at[p] \in {"parse", "create", "write"} =>
            \A f \in Files \ (todo[p] \cup {file[p]}) : UpToDate(f)
    /\ at[p] \in {"create", "write"} => functions[p] = source[file[p]].content
    /\ at[p] \in {"build", "debug"} => \A f \in Files : Fit(f)
    /\ at[p] = "debug" => \A f \in Files : binary[p][f] = source[f].content

Undisturbed == Alone /\ UpToDateFits /\ \A p \in Processes : CachedBy(p)

QuietInv == TimesInv /\ (~disturbed => Undisturbed)

LEMMA InitQuiet == Init => QuietInv
<1> SUFFICES ASSUME Init PROVE QuietInv
  OBVIOUS
<1>1. /\ \A p \in Processes : at[p] = "idle"
      /\ \A f \in Files : map[f] = Absent
  BY DEF Init
<1> QED BY <1>1, InitTimes DEF QuietInv, Undisturbed, Alone, Working, Over, UpToDateFits, UpToDate, CachedBy

(* An edit between two commands makes the file younger than its map. *)
LEMMA EditQuiet == ASSUME QuietInv, NEW f \in Files, Edit(f) PROVE QuietInv'
<1> SUFFICES ASSUME ~disturbed' PROVE Undisturbed'
  BY EditTimes DEF QuietInv
<1>1. /\ ~disturbed /\ Working = {} /\ UNCHANGED <<map, at, file>>
      /\ clock \in Nat
      /\ source' = [source EXCEPT ![f] = [content |-> clock + 1, modified |-> clock + 1]]
  <2>1. disturbed \in BOOLEAN /\ clock \in Nat
    BY CacheAssumption DEF QuietInv, TimesInv, TypeOK, Times
  <2> QED BY <2>1 DEF Edit, processVars
<1>2. \A p \in Processes : at[p] \in Over /\ at'[p] \in Over
  BY <1>1 DEF Working
<1>3. ~UpToDate(f)'
  <2>1. map[f] # Absent => map[f].modified <= clock /\ map[f].modified \in Nat
    BY DEF QuietInv, TimesInv, Clocks, TypeOK, Maps, Times
  <2>2. source'[f].modified = clock + 1
    BY <1>1 DEF QuietInv, TimesInv, TypeOK
  <2> QED BY <1>1, <2>1, <2>2 DEF UpToDate
<1>4. \A g \in Files : g # f => source'[g] = source[g]
  BY <1>1 DEF QuietInv, TimesInv, TypeOK
<1>5. UpToDateFits'
  BY <1>1, <1>3, <1>4 DEF QuietInv, Undisturbed, UpToDateFits, UpToDate, Fit
<1>6. Alone' /\ \A p \in Processes : CachedBy(p)'
  BY <1>2 DEF Alone, Working, CachedBy, Over
<1> QED BY <1>5, <1>6 DEF Undisturbed

LEMMA StartQuiet == ASSUME QuietInv, NEW p \in Processes, Start(p) PROVE QuietInv'
<1> SUFFICES ASSUME ~disturbed' PROVE Undisturbed'
  BY OtherStepsTimes DEF QuietInv
<1>1. /\ ~disturbed /\ Working = {} /\ UNCHANGED <<source, map, file>>
      /\ at' = [at EXCEPT ![p] = "check"]
  BY DEF Start, diskVars, QuietInv, TimesInv, TypeOK
<1>2. \A q \in Processes : at[q] \in Over /\ (q # p => at'[q] \in Over)
  BY <1>1 DEF Working, QuietInv, TimesInv, TypeOK
<1>3. at'[p] = "check"
  BY <1>1 DEF QuietInv, TimesInv, TypeOK
<1>4. UpToDateFits'
  BY <1>1, <1>2 DEF Over, QuietInv, Undisturbed, UpToDateFits, UpToDate, Fit
<1>5. Alone' /\ \A q \in Processes : CachedBy(q)'
  BY <1>2, <1>3 DEF Alone, Working, CachedBy, Over
<1> QED BY <1>4, <1>5 DEF Undisturbed

(* An undisturbed step is of the only command at work. *)
LEMMA Solo ==
    ASSUME TypeOK, Alone, NEW p \in Processes, at[p] \notin Over,
           \A q \in Processes : q # p => at'[q] = at[q]
    PROVE  /\ Alone'
           /\ \A q \in Processes : q # p => at[q] \in Over /\ at'[q] \in Over
BY DEF Alone, Working

LEMMA OverIsCached == \A p \in Processes : at[p] \in Over => CachedBy(p)
BY DEF CachedBy, Over

(* Before the caching begins: maps only go, and none is being written. *)
LEMMA BeforeCachingQuiet ==
    ASSUME QuietInv, ~disturbed, NEW p \in Processes,
           at[p] \in {"check", "recreate", "clean", "pin", "pin_write"},
           NEW where \in {"failed", "done", "recreate", "clean", "pin", "pin_write", "cache"},
           Goto(p, where) \/ (where = at[p] /\ UNCHANGED at),
           where = "cache" => todo'[p] = Files,
           \A f \in Files : map'[f] \in {map[f], Absent}, UNCHANGED source
    PROVE  Undisturbed'
<1>1. at'[p] = where /\ \A q \in Processes : q # p => at'[q] = at[q]
  BY DEF Goto, QuietInv, TimesInv, TypeOK
<1>2. at[p] \notin Over
  BY DEF Over
<1>3. Alone' /\ \A q \in Processes : q # p => at[q] \in Over /\ at'[q] \in Over
  BY <1>1, <1>2, Solo DEF QuietInv, TimesInv, Undisturbed
<1>4. \A q \in Processes : at[q] # "write"
  BY <1>3 DEF Over
<1>5. UpToDateFits'
  <2>1. \A f \in Files : UpToDate(f) => Fit(f)
    BY <1>4 DEF QuietInv, Undisturbed, UpToDateFits
  <2>2. \A f \in Files : UpToDate(f)' => UpToDate(f) /\ map'[f] = map[f]
    BY DEF UpToDate
  <2> QED BY <2>1, <2>2 DEF UpToDateFits, Fit
<1>6. CachedBy(p)'
  BY <1>1 DEF CachedBy
<1>7. \A q \in Processes : q # p => CachedBy(q)'
  BY <1>3 DEF CachedBy, Over
<1> QED BY <1>3, <1>5, <1>6, <1>7 DEF Undisturbed

LEMMA DispatchGoes ==
    ASSUME TypeOK, NEW p \in Processes, Dispatch(p)
    PROVE  Goto(p, "clean") \/ (Goto(p, "cache") /\ todo'[p] = Files)
BY DEF Dispatch, TypeOK

LEMMA VersionQuiet ==
    ASSUME QuietInv, NEW p \in Processes,
           CheckVersion(p) \/ Remove(p) \/ Removed(p) \/ Pin(p) \/ PinWrite(p)
    PROVE  QuietInv'
<1> SUFFICES ASSUME ~disturbed' PROVE Undisturbed'
  BY OtherStepsTimes DEF QuietInv
<1>1. /\ ~disturbed /\ TypeOK /\ UNCHANGED source
      /\ at[p] \in {"check", "recreate", "clean", "pin", "pin_write"}
  BY DEF CheckVersion, Remove, Removed, Pin, PinWrite, diskVars, runVars, QuietInv, TimesInv
<1>2. \A f \in Files : map'[f] \in {map[f], Absent}
  BY <1>1 DEF CheckVersion, Remove, Removed, Pin, PinWrite, diskVars, TypeOK
<1>3. CASE Dispatch(p)
  BY <1>1, <1>2, <1>3, DispatchGoes, BeforeCachingQuiet
<1>4. CASE CheckVersion(p) /\ ~Dispatch(p)
  <2>1. Goto(p, "failed") \/ Goto(p, "recreate")
    BY <1>4 DEF CheckVersion
  <2> QED BY <1>1, <1>2, <2>1, BeforeCachingQuiet
<1>5. CASE Remove(p)
  <2>1. UNCHANGED at /\ at[p] \in {"recreate", "clean"}
    BY <1>5 DEF Remove
  <2> QED BY <1>1, <1>2, <2>1, BeforeCachingQuiet
<1>6. CASE Removed(p)
  <2>1. Goto(p, "done") \/ Goto(p, "pin")
    BY <1>6 DEF Removed
  <2> QED BY <1>1, <1>2, <2>1, BeforeCachingQuiet
<1>7. CASE Pin(p)
  <2>1. Goto(p, "pin_write")
    BY <1>7 DEF Pin
  <2> QED BY <1>1, <1>2, <2>1, BeforeCachingQuiet
<1> QED BY <1>3, <1>4, <1>5, <1>6, <1>7 DEF PinWrite

(* From then on: it is enough to look at the command at work and at the maps. *)
LEMMA SoloQuiet ==
    ASSUME QuietInv, ~disturbed, NEW p \in Processes, at[p] \notin Over,
           \A q \in Processes : q # p => at'[q] = at[q],
           CachedBy(p)',
           \A f \in Files : UpToDate(f)' /\ (at'[p] = "write" => file'[p] # f) => Fit(f)'
    PROVE  Undisturbed'
<1>1. Alone' /\ \A q \in Processes : q # p => at[q] \in Over /\ at'[q] \in Over
  BY Solo DEF QuietInv, TimesInv, Undisturbed
<1>2. \A q \in Processes : q # p => CachedBy(q)'
  BY <1>1 DEF CachedBy, Over
<1>3. UpToDateFits'
  BY DEF UpToDateFits
<1> QED BY <1>1, <1>2, <1>3 DEF Undisturbed

(* What an undisturbed command at work knows. *)
LEMMA SoloKnows ==
    ASSUME QuietInv, ~disturbed, NEW p \in Processes, at[p] \notin Over
    PROVE  /\ TypeOK /\ CachedBy(p)
           /\ \A f \in Files : UpToDate(f) /\ (at[p] = "write" => file[p] # f) => Fit(f)
<1>1. \A q \in Processes : q # p => at[q] \in Over
  BY Solo DEF QuietInv, TimesInv, Undisturbed, Alone, Working
<1>2. \A q \in Processes : q # p => at[q] # "write"
  BY <1>1 DEF Over
<1> QED BY <1>2 DEF QuietInv, TimesInv, Undisturbed, UpToDateFits

LEMMA SkipQuiet ==
    ASSUME QuietInv, NEW p \in Processes, NEW f \in Files, Skip(p, f) PROVE QuietInv'
<1> SUFFICES ASSUME ~disturbed' PROVE Undisturbed'
  BY OtherStepsTimes DEF QuietInv
<1>1. /\ ~disturbed /\ at[p] = "cache" /\ UpToDate(f) /\ UNCHANGED <<source, map, at, file>>
      /\ todo' = [todo EXCEPT ![p] = @ \ {f}]
  BY DEF Skip, diskVars, runVars
<1>2. at[p] \notin Over
  BY <1>1 DEF Over
<1>3. TypeOK /\ CachedBy(p) /\ \A g \in Files : UpToDate(g) => Fit(g)
  BY <1>1, <1>2, SoloKnows
<1>4. todo'[p] = todo[p] \ {f}
  BY <1>1, <1>3 DEF TypeOK
<1>5. \A g \in Files : (UpToDate(g)' <=> UpToDate(g)) /\ (Fit(g)' <=> Fit(g))
  BY <1>1 DEF UpToDate, Fit
<1>6. CachedBy(p)'
  BY <1>1, <1>3, <1>4, <1>5 DEF CachedBy
<1> QED BY <1>1, <1>2, <1>3, <1>5, <1>6, SoloQuiet

LEMMA RefreshQuiet ==
    ASSUME QuietInv, NEW p \in Processes, NEW f \in Files, Refresh(p, f) PROVE QuietInv'
<1> SUFFICES ASSUME ~disturbed' PROVE Undisturbed'
  BY RefreshTimes DEF QuietInv
<1>1. /\ ~disturbed /\ at[p] = "cache" /\ UNCHANGED <<source, map>>
      /\ todo' = [todo EXCEPT ![p] = @ \ {f}] /\ file' = [file EXCEPT ![p] = f]
      /\ at' = [at EXCEPT ![p] = "parse"]
  BY DEF Refresh, Goto, diskVars, runVars
<1>2. at[p] \notin Over
  BY <1>1 DEF Over
<1>3. TypeOK /\ CachedBy(p) /\ \A g \in Files : UpToDate(g) => Fit(g)
  BY <1>1, <1>2, SoloKnows
<1>4. /\ todo'[p] = todo[p] \ {f} /\ file'[p] = f /\ at'[p] = "parse"
      /\ \A q \in Processes : q # p => at'[q] = at[q]
  BY <1>1, <1>3 DEF TypeOK
<1>5. \A g \in Files : (UpToDate(g)' <=> UpToDate(g)) /\ (Fit(g)' <=> Fit(g))
  BY <1>1 DEF UpToDate, Fit
<1>6. CachedBy(p)'
  BY <1>1, <1>3, <1>4, <1>5 DEF CachedBy
<1> QED BY <1>1, <1>2, <1>3, <1>4, <1>5, <1>6, SoloQuiet

(* A file that cannot be parsed disturbs; any other is read as it is. *)
LEMMA ParseQuiet == ASSUME QuietInv, NEW p \in Processes, Parse(p) PROVE QuietInv'
<1> SUFFICES ASSUME ~disturbed' PROVE Undisturbed'
  BY ParseTimes DEF QuietInv
<1>1. /\ ~disturbed /\ at[p] = "parse" /\ UNCHANGED <<source, map, todo, file>>
      /\ functions' = [functions EXCEPT ![p] = source[file[p]].content]
      /\ at' = [at EXCEPT ![p] = "create"]
  BY DEF Parse, Goto, diskVars
<1>2. at[p] \notin Over
  BY <1>1 DEF Over
<1>3. TypeOK /\ CachedBy(p) /\ \A g \in Files : UpToDate(g) => Fit(g)
  BY <1>1, <1>2, SoloKnows
<1>4. /\ functions'[p] = source[file[p]].content /\ at'[p] = "create"
      /\ \A q \in Processes : q # p => at'[q] = at[q]
  BY <1>1, <1>3 DEF TypeOK
<1>5. \A g \in Files : (UpToDate(g)' <=> UpToDate(g)) /\ (Fit(g)' <=> Fit(g))
  BY <1>1 DEF UpToDate, Fit
<1>6. CachedBy(p)'
  BY <1>1, <1>3, <1>4, <1>5 DEF CachedBy
<1> QED BY <1>1, <1>2, <1>3, <1>4, <1>5, <1>6, SoloQuiet

LEMMA CreateMapQuiet == ASSUME QuietInv, NEW p \in Processes, CreateMap(p) PROVE QuietInv'
<1> SUFFICES ASSUME ~disturbed' PROVE Undisturbed'
  BY CreateMapTimes DEF QuietInv
<1>1. /\ ~disturbed /\ at[p] = "create" /\ UNCHANGED <<source, todo, file, functions>>
      /\ at' = [at EXCEPT ![p] = "write"]
  BY DEF CreateMap, Goto, runVars
<1>2. at[p] \notin Over
  BY <1>1 DEF Over
<1>3. TypeOK /\ CachedBy(p) /\ \A g \in Files : UpToDate(g) => Fit(g)
  BY <1>1, <1>2, SoloKnows
<1>4. at'[p] = "write" /\ \A q \in Processes : q # p => at'[q] = at[q]
  BY <1>1, <1>3 DEF TypeOK
<1>5. \A g \in Files : g # file[p] => map'[g] = map[g]
  BY <1>3 DEF CreateMap, TypeOK
<1>6. \A g \in Files : g # file[p] => (UpToDate(g)' <=> UpToDate(g)) /\ (Fit(g)' <=> Fit(g))
  BY <1>1, <1>5 DEF UpToDate, Fit
<1>7. CachedBy(p)'
  BY <1>1, <1>3, <1>4, <1>6 DEF CachedBy
<1> QED BY <1>1, <1>2, <1>3, <1>4, <1>6, <1>7, SoloQuiet

(* The map that is written is of the source as it is, and not older. *)
LEMMA WriteMapQuiet == ASSUME QuietInv, NEW p \in Processes, WriteMap(p) PROVE QuietInv'
<1> SUFFICES ASSUME ~disturbed' PROVE Undisturbed'
  BY WriteMapTimes DEF QuietInv
<1>1. /\ ~disturbed /\ at[p] = "write" /\ UNCHANGED <<source, todo, file, functions>>
      /\ at' = [at EXCEPT ![p] = "cache"]
      /\ map' = [map EXCEPT ![file[p]] = MapOf(p)]
  BY DEF WriteMap, Goto, runVars
<1>2. at[p] \notin Over
  BY <1>1 DEF Over
<1>3. TypeOK /\ CachedBy(p) /\ \A g \in Files : UpToDate(g) /\ file[p] # g => Fit(g)
  BY <1>1, <1>2, SoloKnows
<1>4. at'[p] = "cache" /\ \A q \in Processes : q # p => at'[q] = at[q]
  BY <1>1, <1>3 DEF TypeOK
<1>5. /\ \A g \in Files : g # file[p] => map'[g] = map[g]
      /\ map'[file[p]].functions = functions[p] /\ map'[file[p]].modified = clock
      /\ file[p] \in Files /\ map'[file[p]] = MapOf(p)
  BY <1>1, <1>3 DEF TypeOK, MapOf
<1>6. \A g \in Files : g # file[p] => (UpToDate(g)' <=> UpToDate(g)) /\ (Fit(g)' <=> Fit(g))
  BY <1>1, <1>5 DEF UpToDate, Fit
<1>7. UpToDate(file[p])' /\ Fit(file[p])'
  <2>1. source[file[p]].modified <= clock
    BY <1>5 DEF QuietInv, TimesInv, Clocks
  <2>2. functions[p] = source[file[p]].content
    BY <1>1, <1>3 DEF CachedBy
  <2>3. MapOf(p) # Absent
    <3>1. MapOf(p) \in Maps
      BY <1>3 DEF TypeOK, Maps, MapOf
    <3> QED BY <3>1, CacheAssumption
  <2> QED BY <1>1, <1>5, <2>1, <2>2, <2>3 DEF UpToDate, Fit
<1>8. CachedBy(p)'
  BY <1>1, <1>3, <1>4, <1>6, <1>7 DEF CachedBy
<1> QED BY <1>1, <1>2, <1>3, <1>4, <1>6, <1>7, <1>8, SoloQuiet

(* With an empty list every map is of its source; the build reads the same sources. *)
LEMMA AfterCachingQuiet ==
    ASSUME QuietInv, NEW p \in Processes, Cached(p) \/ Build(p) \/ Debug(p) PROVE QuietInv'
<1> SUFFICES ASSUME ~disturbed' PROVE Undisturbed'
  BY OtherStepsTimes DEF QuietInv
<1>1. /\ ~disturbed /\ at[p] \in {"cache", "build", "debug"} /\ UNCHANGED <<source, map, todo, file>>
  BY DEF Cached, Build, Debug, diskVars, runVars
<1>2. at[p] \notin Over
  BY <1>1 DEF Over
<1>3. TypeOK /\ CachedBy(p) /\ \A g \in Files : UpToDate(g) => Fit(g)
  BY <1>1, <1>2, SoloKnows
<1>4. \A g \in Files : (UpToDate(g)' <=> UpToDate(g)) /\ (Fit(g)' <=> Fit(g))
  BY <1>1 DEF UpToDate, Fit
<1>5. /\ \A q \in Processes : q # p => at'[q] = at[q]
      /\ Cached(p) => at'[p] \in {"build", "done"}
      /\ Build(p) => at'[p] = "debug"
      /\ Debug(p) => at'[p] \in {"done", "failed"}
  BY <1>3 DEF Cached, Build, Debug, Goto, TypeOK
<1>6. CachedBy(p)'
  <2>1. CASE Cached(p)
    <3>1. \A g \in Files : Fit(g)
      BY <1>1, <1>3, <2>1 DEF Cached, CachedBy
    <3> QED BY <1>4, <1>5, <2>1, <3>1 DEF CachedBy
  <2>2. CASE Build(p)
    <3>1. \A g \in Files : Fit(g) /\ binary'[p][g] = source[g].content
      BY <1>3, <2>2 DEF Build, CachedBy, TypeOK
    <3> QED BY <1>1, <1>4, <1>5, <2>2, <3>1 DEF CachedBy
  <2>3. CASE Debug(p)
    BY <1>5, <2>3 DEF CachedBy
  <2> QED BY <2>1, <2>2, <2>3
<1>7. at'[p] # "write"
  BY <1>5
<1> QED BY <1>1, <1>2, <1>3, <1>4, <1>5, <1>6, SoloQuiet

LEMMA NextQuiet == QuietInv /\ [Next]_vars => QuietInv'
<1> SUFFICES ASSUME QuietInv, [Next]_vars PROVE QuietInv'
  OBVIOUS
<1>1. TimesInv'
  BY NextTimes DEF QuietInv
<1>2. CASE UNCHANGED vars \/ Upgrade
  <2>1. UNCHANGED <<source, map, disturbed, at, todo, file, functions, binary>>
    BY <1>2 DEF Upgrade, vars, diskVars, runVars, processVars
  <2>2. Undisturbed => Undisturbed'
    BY <2>1 DEF Undisturbed, Alone, Working, UpToDateFits, UpToDate, Fit, CachedBy
  <2> QED BY <1>1, <2>1, <2>2 DEF QuietInv
<1>3. CASE \E f \in Files : Edit(f)
  BY <1>3, EditQuiet
<1>4. ASSUME NEW p \in Processes, Crash(p) PROVE QuietInv'
  BY <1>1, <1>4 DEF Crash, QuietInv
<1>5. ASSUME NEW p \in Processes, Start(p) \/ Run(p) PROVE QuietInv'
  BY <1>5, StartQuiet, VersionQuiet, SkipQuiet, RefreshQuiet, ParseQuiet, CreateMapQuiet,
     WriteMapQuiet, AfterCachingQuiet DEF Run
<1> QED BY <1>2, <1>3, <1>4, <1>5 DEF Next

(* When the debugger starts, the functions it will break at are those of the program it runs, whatever *)
(* was edited, cached, upgraded or cleaned before; unless a kill, an edit during a command, a second   *)
(* command at the same time or an unreadable source came between (cache_workspace, run_binary).        *)
THEOREM BreakpointsAlwaysFit == Spec => []BreakpointsFit
<1>1. QuietInv => BreakpointsFit
  BY DEF QuietInv, Undisturbed, CachedBy, Fit, BreakpointsFit
<1> QED BY <1>1, InitQuiet, NextQuiet, PTL DEF Spec
=============================================================================
