---------------------------- MODULE BuildStamp ----------------------------
(***************************************************************************)
(* The built pipeline and the hash beside it, by which a run warns that    *)
(* mantafile.toml has changed since (cli/commands.go pipelineBuild,        *)
(* pipelineRun; the reload in startSession, cli/daemon.go).  Both files    *)
(* are written in place: between the truncation and the write they hold    *)
(* nothing that can be read.                                               *)
(*                                                                         *)
(* A version of mantafile.toml is a number; at is a history variable.      *)
(***************************************************************************)
EXTENDS Naturals

CONSTANTS
  Builder,      \* one `build` each
  Runner,       \* one `run` each
  MaxVersion,   \* bound on the versions of mantafile.toml
  Quiet,        \* mantafile.toml is not edited while it is built, and one build
                \* runs at a time
  Torn          \* the contents of a file that is being written

\* Assumed by the proofs, and of the instance that is checked.
Bounds == MaxVersion \in Nat \ {0} /\ Torn \notin 0..MaxVersion

VARIABLES
  toml,      \* the version of mantafile.toml
  built,     \* the version in the pipeline file, 0 if there is none
  stamp,     \* the version hashed in mantafile.hash, 0 if there is none
  builder,   \* where each build is
  read,      \* the version it has read last
  runner,    \* where each run is
  at,        \* the version of mantafile.toml that the run has compared
  runs       \* the version that its session runs

buildVars == <<builder, read>>
runVars == <<runner, at, runs>>
vars == <<toml, built, stamp, buildVars, runVars>>

BuildOver == {"idle", "built", "failed"}

Init ==
  /\ toml = 1 /\ built = 0 /\ stamp = 0
  /\ builder = [b \in Builder |-> "idle"]
  /\ read = [b \in Builder |-> 0]
  /\ runner = [r \in Runner |-> "idle"]
  /\ at = [r \in Runner |-> 0]
  /\ runs = [r \in Runner |-> 0]

Edit ==
  /\ toml < MaxVersion
  /\ Quiet => \A b \in Builder : builder[b] \in BuildOver
  /\ toml' = toml + 1
  /\ UNCHANGED <<built, stamp, buildVars, runVars>>

-----------------------------------------------------------------------------
(* pipelineBuild.                                                          *)

BuildStep(b, from, to) ==
  builder[b] = from /\ builder' = [builder EXCEPT ![b] = to]

\* parseMantafile and validateGraph; what they refuse is not built.
Parse(b) ==
  /\ Quiet => \A c \in Builder : builder[c] \in BuildOver
  /\ \E to \in {"parsed", "failed"} : BuildStep(b, "idle", to)
  /\ read' = [read EXCEPT ![b] = toml]
  /\ UNCHANGED <<toml, built, stamp, runVars>>

\* Seeded fault: the hash is written before the pipeline.
StampFirst(b) ==
  /\ BuildStep(b, "parsed", "writing") /\ built' = built /\ stamp' = read[b]
  /\ UNCHANGED <<toml, read, runVars>>

TruncateBuilt(b) ==
  /\ BuildStep(b, "parsed", "writing") /\ built' = Torn
  /\ UNCHANGED <<toml, stamp, read, runVars>>

WriteBuilt(b) ==
  /\ BuildStep(b, "writing", "written") /\ built' = read[b]
  /\ UNCHANGED <<toml, stamp, read, runVars>>

\* mantafile.toml is read a second time for its hash.
ReadRaw(b) ==
  /\ BuildStep(b, "written", "raw") /\ read' = [read EXCEPT ![b] = toml]
  /\ UNCHANGED <<toml, built, stamp, runVars>>

TruncateStamp(b) ==
  /\ BuildStep(b, "raw", "stamping") /\ stamp' = Torn
  /\ UNCHANGED <<toml, built, read, runVars>>

WriteStamp(b) ==
  /\ BuildStep(b, "stamping", "built") /\ stamp' = read[b]
  /\ UNCHANGED <<toml, built, read, runVars>>

\* Interrupted, or a write that fails.
BuildStops(b) ==
  /\ builder[b] \notin BuildOver
  /\ builder' = [builder EXCEPT ![b] = "failed"]
  /\ UNCHANGED <<toml, built, stamp, read, runVars>>

-----------------------------------------------------------------------------
(* pipelineRun.                                                            *)

RunStep(r, from, to) ==
  runner[r] = from /\ runner' = [runner EXCEPT ![r] = to]

ReadStamp(r) ==
  /\ RunStep(r, "idle", IF stamp = 0 THEN "unwarned" ELSE "stored")
  /\ at' = [at EXCEPT ![r] = stamp]
  /\ UNCHANGED <<toml, built, stamp, buildVars, runs>>

\* A hash that differs, or is torn, makes for a warning.
Compare(r) ==
  /\ RunStep(r, "stored", IF at[r] = toml THEN "unwarned" ELSE "warned")
  /\ UNCHANGED <<toml, built, stamp, buildVars, at, runs>>

\* The daemon reads the pipeline again for every session.
Load(r) ==
  /\ runner[r] \in {"unwarned", "warned"}
  /\ IF built \in {0, Torn}
     THEN /\ runner' = [runner EXCEPT ![r] = "refused"]
          /\ UNCHANGED runs
     ELSE /\ runner' = [runner EXCEPT ![r] =
                          IF @ = "warned" THEN "runswarned" ELSE "runs"]
          /\ runs' = [runs EXCEPT ![r] = built]
  /\ UNCHANGED <<toml, built, stamp, buildVars, at>>

-----------------------------------------------------------------------------
Next ==
  \/ Edit
  \/ \E b \in Builder :
       \/ Parse(b) \/ TruncateBuilt(b) \/ WriteBuilt(b) \/ ReadRaw(b)
       \/ TruncateStamp(b) \/ WriteStamp(b) \/ BuildStops(b)
  \/ \E r \in Runner : ReadStamp(r) \/ Compare(r) \/ Load(r)

Spec == Init /\ [][Next]_vars

-----------------------------------------------------------------------------
(* Properties.                                                             *)

Versions == 0..MaxVersion

TypeOK ==
  /\ toml \in 1..MaxVersion
  /\ built \in Versions \cup {Torn} /\ stamp \in Versions \cup {Torn}
  /\ builder \in [Builder -> BuildOver \cup
       {"parsed", "writing", "written", "raw", "stamping"}]
  /\ read \in [Builder -> Versions]
  /\ runner \in [Runner -> {"idle", "stored", "unwarned", "warned", "refused",
                            "runs", "runswarned"}]
  /\ at \in [Runner -> Versions \cup {Torn}]
  /\ runs \in [Runner -> Versions]

\* commands.go 418: a run that finds a hash and does not warn that mantafile.toml
\* "has changed since last build" runs what was in it when the two were compared,
\* or a later build, wherever builds were interrupted.
UnwarnedIsCurrent ==
  \A r \in Runner : runner[r] = "runs" => runs[r] >= at[r]
=============================================================================
