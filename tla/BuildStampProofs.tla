-------------------------- MODULE BuildStampProofs --------------------------
(***************************************************************************)
(* Proofs about BuildStamp: a run that does not warn is current, for any   *)
(* number of builds, runs and versions, and wherever builds are cut off.   *)
(***************************************************************************)
EXTENDS BuildStamp, TLAPS

Working(b) == builder[b] \notin BuildOver

\* One build at a time, and nobody edits meanwhile: what it reads is current.
BuildInv ==
  /\ \A b, c \in Builder : Working(b) /\ Working(c) => b = c
  /\ \A b \in Builder : Working(b) => read[b] = toml
  /\ \A b \in Builder : builder[b] = "writing" => built = Torn
  /\ \A b \in Builder :
       builder[b] \in {"written", "raw", "stamping"} => built = toml

\* Whatever a hash or a run is about is no newer than the pipeline, unless that
\* is torn; then it will be written anew, from the current version.
Covered(v) ==
  v \in Versions => v <= toml /\ (built \in Versions => v <= built)

StampInv == Covered(stamp) /\ \A r \in Runner : Covered(at[r])

\* A torn hash makes for a warning.
RunInv ==
  \A r \in Runner :
    /\ runner[r] \in {"unwarned", "runs"} => at[r] \in Versions
    /\ runner[r] = "runs" => runs[r] >= at[r]

Inv == BuildInv /\ StampInv /\ RunInv

-----------------------------------------------------------------------------
LEMMA TypeInit == Bounds /\ Init => TypeOK
BY DEF Bounds, Init, TypeOK, Versions, BuildOver

LEMMA TypeStep == Bounds /\ TypeOK /\ [Next]_vars => TypeOK'
<1> SUFFICES ASSUME Bounds, TypeOK, [Next]_vars PROVE TypeOK'
  OBVIOUS
<1> USE DEF Bounds, TypeOK, Versions, BuildOver
<1>1. CASE Edit
  BY <1>1 DEF Edit, buildVars, runVars
<1>2. ASSUME NEW b \in Builder,
             Parse(b) \/ TruncateBuilt(b) \/ WriteBuilt(b) \/ ReadRaw(b)
      PROVE  TypeOK'
  BY <1>2 DEF Parse, TruncateBuilt, WriteBuilt, ReadRaw, BuildStep, runVars
<1>3. ASSUME NEW b \in Builder, TruncateStamp(b) \/ WriteStamp(b) \/ BuildStops(b)
      PROVE  TypeOK'
  BY <1>3 DEF TruncateStamp, WriteStamp, BuildStops, BuildStep, runVars
<1>4. ASSUME NEW r \in Runner, ReadStamp(r) \/ Compare(r) \/ Load(r)
      PROVE  TypeOK'
  BY <1>4 DEF ReadStamp, Compare, Load, RunStep, buildVars
<1>5. CASE UNCHANGED vars
  BY <1>5 DEF vars, buildVars, runVars
<1>. QED BY <1>1, <1>2, <1>3, <1>4, <1>5 DEF Next

\* Every variable keeps its type (mantafile.toml, its two files, and what builds
\* and runs have read of them).
THEOREM TypeCorrect ==
  ASSUME Bounds PROVE Spec => []TypeOK
BY TypeInit, TypeStep, PTL DEF Spec

-----------------------------------------------------------------------------
LEMMA BuildStays ==
  ASSUME Quiet, Bounds, TypeOK, BuildInv, [Next]_vars PROVE BuildInv'
<1> USE DEF Bounds, TypeOK, Versions, BuildInv, Working, BuildOver
<1>1. CASE Edit
  BY <1>1 DEF Edit, buildVars, runVars
<1>2. ASSUME NEW b \in Builder, Parse(b) PROVE BuildInv'
  BY <1>2 DEF Parse, BuildStep, runVars
<1>3. ASSUME NEW b \in Builder, TruncateBuilt(b) \/ WriteBuilt(b) \/ ReadRaw(b)
      PROVE  BuildInv'
  BY <1>3 DEF TruncateBuilt, WriteBuilt, ReadRaw, BuildStep, runVars
<1>4. ASSUME NEW b \in Builder, TruncateStamp(b) \/ WriteStamp(b) \/ BuildStops(b)
      PROVE  BuildInv'
  BY <1>4 DEF TruncateStamp, WriteStamp, BuildStops, BuildStep, runVars
<1>5. ASSUME NEW r \in Runner, ReadStamp(r) \/ Compare(r) \/ Load(r)
      PROVE  BuildInv'
  BY <1>5 DEF ReadStamp, Compare, Load, buildVars
<1>6. CASE UNCHANGED vars
  BY <1>6 DEF vars, buildVars, runVars
<1>. QED BY <1>1, <1>2, <1>3, <1>4, <1>5, <1>6 DEF Next

LEMMA StampStays ==
  ASSUME Bounds, TypeOK, BuildInv, StampInv, [Next]_vars PROVE StampInv'
<1> USE DEF Bounds, TypeOK, Versions, BuildInv, Working, BuildOver, StampInv, Covered
<1>1. CASE Edit
  BY <1>1 DEF Edit, buildVars, runVars
<1>2. ASSUME NEW b \in Builder,
             Parse(b) \/ TruncateBuilt(b) \/ WriteBuilt(b) \/ ReadRaw(b)
      PROVE  StampInv'
  BY <1>2 DEF Parse, TruncateBuilt, WriteBuilt, ReadRaw, BuildStep, runVars
<1>3. ASSUME NEW b \in Builder, TruncateStamp(b) \/ WriteStamp(b) \/ BuildStops(b)
      PROVE  StampInv'
  BY <1>3 DEF TruncateStamp, WriteStamp, BuildStops, BuildStep, runVars
<1>4. ASSUME NEW r \in Runner, ReadStamp(r) \/ Compare(r) \/ Load(r)
      PROVE  StampInv'
  BY <1>4 DEF ReadStamp, Compare, Load, buildVars
<1>5. CASE UNCHANGED vars
  BY <1>5 DEF vars, buildVars, runVars
<1>. QED BY <1>1, <1>2, <1>3, <1>4, <1>5 DEF Next

LEMMA RunStays ==
  ASSUME Bounds, TypeOK, StampInv, RunInv, [Next]_vars PROVE RunInv'
<1> USE DEF Bounds, TypeOK, Versions, RunInv
<1>1. CASE UNCHANGED runVars
  BY <1>1 DEF runVars
<1>2. ASSUME NEW r \in Runner, ReadStamp(r) PROVE RunInv'
  BY <1>2 DEF ReadStamp, RunStep
<1>3. ASSUME NEW r \in Runner, Compare(r) PROVE RunInv'
  BY <1>3 DEF Compare, RunStep
<1>4. ASSUME NEW r \in Runner, Load(r) PROVE RunInv'
  BY <1>4 DEF Load, StampInv, Covered
<1>. QED
  BY <1>1, <1>2, <1>3, <1>4 DEF Next, Edit, Parse, TruncateBuilt, WriteBuilt,
     ReadRaw, TruncateStamp, WriteStamp, BuildStops, vars

\* A run that finds a hash and does not warn runs a pipeline that was built from
\* the mantafile.toml that it compared, or from a later one (commands.go 333-366
\* and 411-424): a torn or stale file, or a build that was cut off, is never
\* taken for the current one.
THEOREM UnwarnedRunsCurrent ==
  ASSUME Bounds, Quiet PROVE Spec => []UnwarnedIsCurrent
<1>1. Init => Inv
  BY DEF Init, Inv, BuildInv, Working, BuildOver, StampInv, Covered, RunInv,
     Versions, Bounds
<1>2. TypeOK /\ Inv /\ [Next]_vars => Inv'
  BY BuildStays, StampStays, RunStays DEF Inv
<1>3. Inv => UnwarnedIsCurrent
  BY DEF Inv, RunInv, UnwarnedIsCurrent
<1>. QED BY <1>1, <1>2, <1>3, TypeCorrect, PTL DEF Spec
=============================================================================
