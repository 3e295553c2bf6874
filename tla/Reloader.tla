------------------------------ MODULE Reloader ------------------------------
(***************************************************************************)
(* Rule hot reload: the watch loop, doReload (hash the directory, compile  *)
(* it, publish a snapshot) and the compiler's content cache, while someone *)
(* edits the rule files.                                                   *)
(*                                                                         *)
(* Every access to the file system is one action, so an edit can fall      *)
(* between any two of them. A file's bytes are one Content; the SHA-256 of *)
(* the directory is the function from names to contents that was read      *)
(* (no collisions). The rules directory itself is always there.            *)
(***************************************************************************)
EXTENDS Naturals, FiniteSets

CONSTANTS
    Files,      \* names of *.star files, ordered as the names are
    Contents,   \* what a file may hold
    Bad,        \* the contents that do not compile
    RuleId,     \* rule_id of a content
    Absent,     \* the file is not there
    None,       \* no hash, no snapshot
    MaxEdits,   \* bound: how many times a file changes
    MayRevert   \* may a file get back a content it had before

ASSUME FilesAssumption == Files \subseteq Nat /\ IsFiniteSet(Files)
ASSUME ContentsAssumption ==
    /\ Bad \subseteq Contents
    /\ Absent \notin Contents
    /\ DOMAIN RuleId = Contents
ASSUME EditsAssumption == MaxEdits \in Nat /\ MayRevert \in BOOLEAN

Dirs == [Files -> Contents \cup {Absent}]
\* filepath.Glob
Listed(d) == {f \in Files : d[f] # Absent}

ASSUME NoneAssumption == None \notin Dirs

VARIABLES
    dir,       \* the rules directory
    edits,     \* changes made so far
    past,      \* history: per file, the contents it has had
    missed,    \* history: a change was made that no watcher saw
    watch,     \* the fsnotify watcher: "unset", "on" or "off"
    fsEvent,   \* fsnotify events wait to be received
    debounce,  \* the debounce timer is armed
    reloadCh,  \* a reload is requested
    pc,        \* the reloader goroutine
    todo,      \* files hashDir has still to read
    hash,      \* hash being computed; None after a read error
    lastHash,  \* Reloader.lastHash
    comp,      \* per file: its compile goroutine
    cache,     \* Compiler.cache: content to rule object, 0 for none
    made,      \* rule objects made so far
    ready,     \* Reloader.Ready
    snapshot,  \* the published snapshot: the content of each file
    rules      \* the published snapshot: the rule object of each file

vars == <<dir, edits, past, missed, watch, fsEvent, debounce, reloadCh, pc,
          todo, hash, lastHash, comp, cache, made, ready, snapshot, rules>>
dirVars == <<dir, edits, past, missed>>
loopVars == <<watch, fsEvent, debounce, reloadCh>>
compilerVars == <<comp, cache, made>>
outVars == <<lastHash, ready, snapshot, rules>>

NoFile == [st |-> "none", src |-> Absent, obj |-> 0]
AllAbsent == [f \in Files |-> Absent]

\* NewReloader: it begins by listing the directory for its first hash.
Init ==
    /\ dir \in Dirs
    /\ edits = 0
    /\ past = [f \in Files |-> {dir[f]}]
    /\ missed = FALSE
    /\ watch = "unset"
    /\ fsEvent = FALSE
    /\ debounce = FALSE
    /\ reloadCh = FALSE
    /\ pc = "hash"
    /\ todo = Listed(dir)
    /\ hash = AllAbsent
    /\ lastHash = None
    /\ comp = [f \in Files |-> NoFile]
    /\ cache = [c \in Contents |-> 0]
    /\ made = 0
    /\ ready = FALSE
    /\ snapshot = None
    /\ rules = [f \in Files |-> 0]

-----------------------------------------------------------------------------
(* The outside: whoever edits the rules, and the reload endpoint.          *)

\* A file is written, created or deleted.
Edit(f, c) ==
    /\ edits < MaxEdits
    /\ c # dir[f]
    /\ MayRevert \/ c \notin past[f]
    /\ dir' = [dir EXCEPT ![f] = c]
    /\ edits' = edits + 1
    /\ past' = [past EXCEPT ![f] = @ \cup {c}]
    /\ fsEvent' = (fsEvent \/ watch = "on")
    /\ missed' = (missed \/ watch # "on")
    /\ UNCHANGED <<watch, debounce, reloadCh, pc, todo, hash, compilerVars, outVars>>

\* Reload(): the channel holds one request, a second is dropped.
Reload ==
    /\ ready
    /\ reloadCh' = TRUE
    /\ UNCHANGED <<dirVars, watch, fsEvent, debounce, pc, todo, hash, compilerVars, outVars>>

-----------------------------------------------------------------------------
(* Run: the watch loop.                                                    *)

\* NewWatcher and Add, which may fail.
StartWatch ==
    /\ pc = "start"
    /\ watch' \in {"on", "off"}
    /\ pc' = "idle"
    /\ UNCHANGED <<dirVars, fsEvent, debounce, reloadCh, todo, hash, compilerVars, outVars>>

\* A defect: the armed timer is stopped and not armed again.
FsEventDisarms ==
    /\ pc = "idle"
    /\ fsEvent
    /\ fsEvent' = FALSE
    /\ debounce' = ~debounce
    /\ UNCHANGED <<dirVars, watch, reloadCh, pc, todo, hash, compilerVars, outVars>>

\* An event (re)arms the debounce timer.
FsEvent ==
    /\ pc = "idle"
    /\ fsEvent
    /\ fsEvent' = FALSE
    /\ debounce' = TRUE
    /\ UNCHANGED <<dirVars, watch, reloadCh, pc, todo, hash, compilerVars, outVars>>

\* The watcher's channels are closed: poll only from here on.
WatchLost ==
    /\ pc = "idle"
    /\ watch = "on"
    /\ watch' = "off"
    /\ missed' = (missed \/ fsEvent)
    /\ fsEvent' = FALSE
    /\ UNCHANGED <<dir, edits, past, debounce, reloadCh, pc, todo, hash, compilerVars, outVars>>

\* doReload begins: hashDir lists the directory.
BeginReload ==
    /\ pc = "idle"
    /\ pc' = "hash"
    /\ todo' = Listed(dir)
    /\ hash' = AllAbsent
    /\ UNCHANGED <<dirVars, compilerVars, outVars>>

DebounceFire ==
    /\ debounce
    /\ debounce' = FALSE
    /\ BeginReload
    /\ UNCHANGED <<watch, fsEvent, reloadCh>>

TakeRequest ==
    /\ reloadCh
    /\ reloadCh' = FALSE
    /\ BeginReload
    /\ UNCHANGED <<watch, fsEvent, debounce>>

Poll ==
    /\ BeginReload
    /\ UNCHANGED loopVars

\* The context is cancelled.
Stop ==
    /\ pc = "idle"
    /\ pc' = "stopped"
    /\ debounce' = FALSE
    /\ UNCHANGED <<dirVars, watch, fsEvent, reloadCh, todo, hash, compilerVars, outVars>>

-----------------------------------------------------------------------------
(* doReload.                                                               *)

\* hashDir reads the next file by name; a file that is gone is an error.
HashRead ==
    /\ pc = "hash"
    /\ \E f \in todo :
          /\ \A g \in todo : f <= g
          /\ \/ /\ dir[f] = Absent
                /\ hash' = None
                /\ todo' = {}
             \/ /\ dir[f] # Absent
                /\ hash' = [hash EXCEPT ![f] = dir[f]]
                /\ todo' = todo \ {f}
    /\ UNCHANGED <<dirVars, loopVars, pc, compilerVars, outVars>>

\* Nothing changed since the last successful compile: nothing to do.
Skip ==
    /\ pc = "hash"
    /\ todo = {}
    /\ hash # None
    /\ hash = lastHash
    /\ pc' = "idle"
    /\ UNCHANGED <<dirVars, loopVars, todo, hash, compilerVars, outVars>>

\* CompileDir lists the directory and starts a goroutine per file.
CompileStart ==
    /\ pc = "hash"
    /\ todo = {}
    /\ hash = None \/ hash # lastHash
    /\ pc' = "compile"
    /\ comp' = [f \in Files |->
                  IF f \in Listed(dir) THEN [NoFile EXCEPT !.st = "read"] ELSE NoFile]
    /\ UNCHANGED <<dirVars, loopVars, todo, hash, cache, made, outVars>>

CompileRead(f) ==
    /\ comp[f].st = "read"
    /\ comp' = [comp EXCEPT ![f].src = dir[f],
                            ![f].st = IF dir[f] = Absent THEN "err" ELSE "lookup"]
    /\ UNCHANGED <<dirVars, loopVars, pc, todo, hash, cache, made, outVars>>

\* cachedCompile: the lookup under the mutex.
CacheLookup(f) ==
    /\ comp[f].st = "lookup"
    /\ LET o == cache[comp[f].src]
       IN comp' = [comp EXCEPT ![f].obj = o,
                               ![f].st = IF o = 0 THEN "compile" ELSE "ok"]
    /\ UNCHANGED <<dirVars, loopVars, pc, todo, hash, cache, made, outVars>>

\* CompileSource, and the store under the mutex.
CacheStore(f) ==
    /\ comp[f].st = "compile"
    /\ LET c == comp[f].src
       IN IF c \in Bad
          THEN /\ comp' = [comp EXCEPT ![f].st = "err"]
               /\ UNCHANGED <<cache, made>>
          ELSE /\ made' = made + 1
               /\ cache' = [cache EXCEPT ![c] = made + 1]
               /\ comp' = [comp EXCEPT ![f].obj = made + 1, ![f].st = "ok"]
    /\ UNCHANGED <<dirVars, loopVars, pc, todo, hash, outVars>>

\* wg.Wait()
Compiled == pc = "compile" /\ \A f \in Files : comp[f].st \in {"none", "ok", "err"}
HasRule(f) == comp[f].st = "ok"
\* Two files with one rule_id.
Duplicate ==
    \E f, g \in Files : /\ f # g
                        /\ HasRule(f) /\ HasRule(g)
                        /\ RuleId[comp[f].src] = RuleId[comp[g].src]

\* A defect: no check for a second file with the same rule_id.
RejectedNoDup == \E f \in Files : comp[f].st = "err"

\* CompileDir returns an error: all or nothing.
Rejected == (\E f \in Files : comp[f].st = "err") \/ Duplicate

\* prune: what the compile did not use leaves the cache.
Pruned == [c \in Contents |->
             IF \E f \in Files : HasRule(f) /\ comp[f].src = c THEN cache[c] ELSE 0]

\* A defect: a failed compile throws the cache away.
CompileFailedForgets ==
    /\ Compiled
    /\ Rejected
    /\ pc' = IF ready THEN "idle" ELSE "failed"
    /\ cache' = [c \in Contents |-> 0]
    /\ comp' = [f \in Files |-> NoFile]
    /\ UNCHANGED <<dirVars, loopVars, todo, hash, made, outVars>>

\* The old snapshot stays, and so does the old hash: the reload is retried.
\* At start-up there is no old snapshot, and the process ends.
CompileFailed ==
    /\ Compiled
    /\ Rejected
    /\ pc' = IF ready THEN "idle" ELSE "failed"
    /\ comp' = [f \in Files |-> NoFile]
    /\ UNCHANGED <<dirVars, loopVars, todo, hash, cache, made, outVars>>

\* A defect: the hash is taken after the compile.
PublishHashLate ==
    /\ Compiled
    /\ ~Rejected
    /\ cache' = Pruned
    /\ lastHash' = dir
    /\ snapshot' = [f \in Files |-> comp[f].src]
    /\ rules' = [f \in Files |-> comp[f].obj]
    /\ ready' = TRUE
    /\ pc' = IF ready THEN "idle" ELSE "start"
    /\ comp' = [f \in Files |-> NoFile]
    /\ UNCHANGED <<dirVars, loopVars, todo, hash, made>>

Publish ==
    /\ Compiled
    /\ ~Rejected
    /\ cache' = Pruned
    /\ lastHash' = IF hash # None THEN hash ELSE lastHash
    /\ snapshot' = [f \in Files |-> comp[f].src]
    /\ rules' = [f \in Files |-> comp[f].obj]
    /\ ready' = TRUE
    /\ pc' = IF ready THEN "idle" ELSE "start"
    /\ comp' = [f \in Files |-> NoFile]
    /\ UNCHANGED <<dirVars, loopVars, todo, hash, made>>

\* The first compile failed and the process is gone.
Gone == pc = "failed" /\ UNCHANGED vars

-----------------------------------------------------------------------------
CompileFile(f) == CompileRead(f) \/ CacheLookup(f) \/ CacheStore(f)

DoReload ==
    \/ HashRead \/ Skip \/ CompileStart
    \/ \E f \in Files : CompileFile(f)
    \/ CompileFailed \/ Publish

Outside == Reload \/ \E f \in Files, c \in Contents \cup {Absent} : Edit(f, c)

Loop == StartWatch \/ FsEvent \/ WatchLost \/ DebounceFire \/ TakeRequest \/ Poll \/ Stop

Next == Outside \/ Loop \/ DoReload \/ Gone

Spec == Init /\ [][Next]_vars

\* The reloader goroutine runs, and a reload that has begun comes to its end.
FairSpec == Spec /\ WF_vars(DoReload) /\ WF_vars(StartWatch)

\* Hypotheses of single properties: the poll ticker ticks; fsnotify delivers its
\* events and the debounce timer fires.
PollTicks == WF_vars(Poll)
WatchWorks == WF_vars(FsEvent) /\ WF_vars(DebounceFire)

-----------------------------------------------------------------------------
(* Properties.                                                             *)

CompStates == {"none", "read", "lookup", "compile", "ok", "err"}

\* What the variables hold; a published snapshot has a compiled rule for each of
\* its files.
TypeOK ==
    /\ dir \in Dirs
    /\ edits \in 0..MaxEdits
    /\ past \in [Files -> SUBSET (Contents \cup {Absent})]
    /\ missed \in BOOLEAN
    /\ watch \in {"unset", "on", "off"}
    /\ fsEvent \in BOOLEAN
    /\ debounce \in BOOLEAN
    /\ reloadCh \in BOOLEAN
    /\ pc \in {"hash", "compile", "start", "idle", "stopped", "failed"}
    /\ todo \in SUBSET Files
    /\ hash \in Dirs \cup {None}
    /\ lastHash \in Dirs \cup {None}
    /\ comp \in [Files -> [st : CompStates, src : Contents \cup {Absent}, obj : Nat]]
    /\ cache \in [Contents -> Nat]
    /\ made \in Nat
    /\ ready \in BOOLEAN
    /\ snapshot \in Dirs \cup {None}
    /\ rules \in [Files -> Nat]
    /\ snapshot # None => \A f \in Files : rules[f] # 0 <=> snapshot[f] # Absent

\* The rules in d compile and have distinct ids.
Loadable(d) ==
    /\ \A f \in Listed(d) : d[f] \notin Bad
    /\ \A f, g \in Listed(d) : f # g => RuleId[d[f]] # RuleId[d[g]]

\* A reload is skipped only when the snapshot that workers use holds what the
\* directory holds: doReload's hash never stands for content that was not
\* compiled, whatever was edited between the hash and the compile.
SkipIsSafe == lastHash = dir => snapshot = dir

\* All or nothing: workers never see a snapshot with a rule that does not
\* compile, or with two rules of one id, whichever mixture of old and new files
\* the compile read. From the first publication on there is always a snapshot.
AllOrNothing ==
    /\ ready => snapshot # None
    /\ snapshot # None => Loadable(snapshot)

\* A rule whose source is in both the old and the new snapshot is the same
\* object in both, failed reloads in between or not: its prefilter counter and
\* its statistics survive the reload.
StatsSurvive ==
    [][\A f, g \in Files :
          snapshot # None /\ snapshot'[f] = snapshot[g] => rules'[f] = rules[g]]_<<snapshot, rules>>

Settled == pc \in {"stopped", "failed"} \/ ~Loadable(dir) \/ snapshot = dir

\* Polling alone converges: once the edits end, the workers' snapshot becomes
\* and stays what the directory holds, unless that does not load.
Converges == PollTicks => <>[]Settled

\* The watcher alone converges, if it saw all the edits: an event that arrives
\* during a reload, or while the debounce timer runs, is not forgotten.
WatchConverges == WatchWorks => <>[](Settled \/ missed)

=============================================================================
