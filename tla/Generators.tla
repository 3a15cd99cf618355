------------------------------ MODULE Generators ------------------------------
(***************************************************************************)
(* The gpp commands that write a tree of files (cmd/gpp): new, gen module, *)
(* gen terraform, gen hosting and extract service.  Each writes a temporary *)
(* directory beside its target and renames it; gen module first looks for  *)
(* the highest migration version of the modules, and extract audits the    *)
(* files of a module as it reads them.  What someone edits meanwhile, and  *)
(* other commands, may come between any two calls of the file system.      *)
(***************************************************************************)
EXTENDS Naturals, Sequences, FiniteSets, FiniteSetsExt

CONSTANTS
    Commands,      \* invocations of gpp
    ModuleNames,   \* of modules
    MaxFileErrors, \* bound: calls of the file system that fail
    MaxCrashes,    \* bound: commands that are killed
    MaxEdits,      \* bound: files of a module that someone changes
    Nothing

VARIABLES
    tree,          \* what is at each target: Nothing, or [by, version, files]
    temporary,     \* the temporary directory of each command: Nothing, or its last file
    command,       \* [Commands -> what it does and where it is]
    fileErrors, crashes, edits

generatorVars == <<tree, temporary, command, fileErrors, crashes, edits>>

\* internal/modules/<name>, services/<name>, and the target of new, terraform and
\* hosting, which differ in nothing but their files.
Targets == [kind : {"module", "service"}, name : ModuleNames] \cup {[kind |-> "app", name |-> "app"]}
Module(name) == [kind |-> "module", name |-> name]

\* Of a module's files one has Build and one Migrations; each passes its audit
\* (no symbolic link, no secret, no import across the boundary, ...) or not.
Files == 1 .. 2
Whole == Max(Files)

ASSUME GeneratorsAssumption ==
    /\ IsFiniteSet(ModuleNames) /\ Commands \cap Targets = {}
    /\ Nothing \notin Commands \cup Targets \cup [by : Commands \cup {Nothing}, version : Nat, files : [Files -> {"good", "bad"}]]

IdleCommand == [at |-> "idle", target |-> Nothing, remaining |-> {}, opened |-> Nothing, migrations |-> FALSE, maximum |-> 0,
         version |-> 0, read |-> <<>>, before |-> 0, beside |-> {}]
EndedStates == {"idle", "done", "failed", "crashed"}
RunningCommands == {c \in Commands : command[c].at \notin EndedStates}

GeneratorsInit ==
    /\ tree \in {[t \in Targets |-> Nothing]} \cup
          {[t \in Targets |-> IF t = Module(name) THEN [by |-> Nothing, version |-> 1, files |-> files] ELSE Nothing] :
               name \in ModuleNames, files \in [Files -> {"good", "bad"}]}
    /\ temporary = [c \in Commands |-> Nothing]
    /\ command = [c \in Commands |-> IdleCommand]
    /\ fileErrors = 0 /\ crashes = 0 /\ edits = 0

Versions == {tree[t].version : t \in {u \in Targets : u.kind = "module" /\ tree[u] # Nothing}}

\* before and beside: the versions there were, and the commands it met.
BeginCommand(c, target) ==
    /\ command[c] = IdleCommand
    /\ command' = [d \in Commands |->
          IF d = c THEN [IdleCommand EXCEPT !.target = target, !.before = Max(Versions \cup {0}), !.beside = RunningCommands,
                            !.at = CASE target.kind = "module" -> "listing"
                                     [] target.kind = "service" -> IF tree[Module(target.name)] = Nothing THEN "failed" ELSE "auditing"
                                     [] OTHER -> "checking"]
          ELSE IF d \in RunningCommands THEN [command[d] EXCEPT !.beside = @ \cup {c}] ELSE command[d]]
    /\ UNCHANGED <<tree, temporary, fileErrors, crashes, edits>>

Set(c, to) == [command EXCEPT ![c] = to]
CommandTo(c, to) == [command EXCEPT ![c].at = to]

\* nextMigrationVersion walks internal/modules, where the temporary directories of
\* other modules are, too.  An entry is a module's name or the command it is of.
Temporaries == {c \in Commands : temporary[c] # Nothing /\ command[c].target.kind = "module"}
There(entry) == IF entry \in Commands THEN entry \in Temporaries ELSE tree[entry] # Nothing

List(c) ==
    /\ command[c].at = "listing"
    /\ command' = Set(c, [command[c] EXCEPT !.at = "walking",
                            !.remaining = Temporaries \cup {t \in Targets : t.kind = "module" /\ tree[t] # Nothing}])
    /\ UNCHANGED <<tree, temporary, fileErrors, crashes, edits>>

\* Names that begin with a dot come first.  A directory that is gone is passed by.
OpenEntry(c, entry) ==
    /\ command[c].at = "walking" /\ command[c].opened = Nothing
    /\ entry \in command[c].remaining
    /\ entry \in Targets => command[c].remaining \cap Commands = {}
    /\ command' = Set(c, IF There(entry) /\ (entry \in Commands => temporary[entry] > 0)
                         THEN [command[c] EXCEPT !.opened = entry, !.migrations = entry \in Commands => temporary[entry] = Whole]
                         ELSE [command[c] EXCEPT !.remaining = @ \ {entry}])
    /\ UNCHANGED <<tree, temporary, fileErrors, crashes, edits>>

\* Mutant: the new module has the highest version that is taken.
LastVersion(maximum) == maximum
NextVersion(maximum) == maximum + 1
Counts(c, maximum) == [command[c] EXCEPT !.at = "checking", !.opened = Nothing, !.remaining = {}, !.version = NextVersion(maximum)]

VersionIn(entry) == IF entry \in Commands THEN command[entry].version ELSE tree[entry].version

\* A file that is gone when it is read ends the walk, and what was seen till then
\* counts.
Read(c) ==
    /\ command[c].at = "walking" /\ command[c].opened # Nothing
    /\ LET entry == command[c].opened
           seen == IF command[c].migrations THEN Max({command[c].maximum, VersionIn(entry)}) ELSE command[c].maximum
       IN  command' = Set(c, IF There(entry)
                             THEN [command[c] EXCEPT !.opened = Nothing, !.remaining = @ \ {entry}, !.maximum = seen]
                             ELSE Counts(c, command[c].maximum))
    /\ UNCHANGED <<tree, temporary, fileErrors, crashes, edits>>

CountVersions(c) ==
    /\ command[c].at = "walking" /\ command[c].remaining = {}
    /\ command' = Set(c, Counts(c, command[c].maximum))
    /\ UNCHANGED <<tree, temporary, fileErrors, crashes, edits>>

\* extract audits a file and keeps what it read of it.
Audit(c) ==
    /\ command[c].at = "auditing"
    /\ LET file == tree[Module(command[c].target.name)].files[Len(command[c].read) + 1]
           read == Append(command[c].read, file)
       IN  command' = Set(c, [command[c] EXCEPT !.read = read,
                                !.at = IF file = "bad" THEN "failed" ELSE IF Len(read) = Whole THEN "checking" ELSE "auditing"])
    /\ UNCHANGED <<tree, temporary, fileErrors, crashes, edits>>

\* publishGeneratedTree refuses a target that exists ...
Check(c) ==
    /\ command[c].at = "checking"
    /\ command' = CommandTo(c, IF tree[command[c].target] # Nothing THEN "failed" ELSE "making")
    /\ UNCHANGED <<tree, temporary, fileErrors, crashes, edits>>

Make(c) ==
    /\ command[c].at = "making"
    /\ temporary' = [temporary EXCEPT ![c] = 0]
    /\ command' = CommandTo(c, "writing")
    /\ UNCHANGED <<tree, fileErrors, crashes, edits>>

WriteFile(c) ==
    /\ command[c].at = "writing"
    /\ temporary' = [temporary EXCEPT ![c] = @ + 1]
    /\ command' = CommandTo(c, IF temporary'[c] = Whole THEN "renaming" ELSE "writing")
    /\ UNCHANGED <<tree, fileErrors, crashes, edits>>

\* ... and the file system one that exists by now.
Generated(c) == IF command[c].target.kind = "service" THEN command[c].read ELSE [i \in Files |-> "good"]
Rename(c) ==
    /\ command[c].at = "renaming"
    /\ IF tree[command[c].target] # Nothing
       THEN command' = CommandTo(c, "cleaning") /\ UNCHANGED <<tree, temporary>>
       ELSE /\ tree' = [tree EXCEPT ![command[c].target] = [by |-> c, version |-> command[c].version, files |-> Generated(c)]]
            /\ temporary' = [temporary EXCEPT ![c] = Nothing]
            /\ command' = CommandTo(c, "done")
    /\ UNCHANGED <<fileErrors, crashes, edits>>

\* An error returns, and takes the temporary directory away if that can be done.
FileCallFails(c) ==
    /\ c \in RunningCommands /\ fileErrors < MaxFileErrors
    /\ fileErrors' = fileErrors + 1
    /\ command' = CommandTo(c, IF temporary[c] # Nothing /\ command[c].at # "cleaning" THEN "cleaning" ELSE "failed")
    /\ UNCHANGED <<tree, temporary, crashes, edits>>

Clean(c) ==
    /\ command[c].at = "cleaning"
    /\ temporary' = [temporary EXCEPT ![c] = Nothing]
    /\ command' = CommandTo(c, "failed")
    /\ UNCHANGED <<tree, fileErrors, crashes, edits>>

CommandCrashes(c) ==
    /\ c \in RunningCommands /\ crashes < MaxCrashes
    /\ crashes' = crashes + 1
    /\ command' = CommandTo(c, "crashed")
    /\ UNCHANGED <<tree, temporary, fileErrors, edits>>

\* Someone edits a module.
Edit(name, i) ==
    /\ edits < MaxEdits /\ tree[Module(name)] # Nothing
    /\ edits' = edits + 1
    /\ tree' = [tree EXCEPT ![Module(name)].files[i] = IF @ = "good" THEN "bad" ELSE "good"]
    /\ UNCHANGED <<temporary, command, fileErrors, crashes>>

CommandSteps(c) ==
    \/ List(c) \/ Read(c) \/ CountVersions(c) \/ Audit(c) \/ Check(c) \/ Make(c) \/ WriteFile(c) \/ Rename(c) \/ Clean(c)
    \/ \E entry \in Commands \cup Targets : OpenEntry(c, entry)

GeneratorsNext ==
    \/ \E c \in Commands : CommandSteps(c) \/ FileCallFails(c) \/ CommandCrashes(c) \/ \E target \in Targets : BeginCommand(c, target)
    \/ \E name \in ModuleNames, i \in Files : Edit(name, i)

-----------------------------------------------------------------------------
\* What is at a target is what one command wrote, all of it, and nobody overwrote:
\* a command that says it is done has its tree there, one that failed or was
\* killed has none.
Published == \A c \in Commands :
    command[c].at = "done" <=> \E t \in Targets : tree[t] # Nothing /\ tree[t].by = c

\* A module that was generated while no other command ran has a version above
\* those that were taken, whatever killed commands left.
FreshVersions == \A t \in Targets : t.kind = "module" /\ tree[t] # Nothing =>
    \/ tree[t].by = Nothing
    \/ command[tree[t].by].beside # {}
    \/ tree[t].version > command[tree[t].by].before

\* What was extracted has passed the audit, also when the module changed meanwhile.
Audited == \A t \in Targets : t.kind = "service" /\ tree[t] # Nothing => \A i \in Files : tree[t].files[i] = "good"

GeneratorsSound == Published /\ FreshVersions /\ Audited
=============================================================================
