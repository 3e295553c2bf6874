--------------------------- MODULE ReloaderProofs ---------------------------
(***************************************************************************)
(* Machine-checked proofs about Reloader, for every set of files and       *)
(* contents and any number of edits.                                       *)
(***************************************************************************)
EXTENDS Reloader, TLAPS

FileStates == [st : CompStates, src : Contents \cup {Absent}, obj : Nat]

\* The part of TypeOK that the arguments below rest on.
Shape ==
    /\ dir \in Dirs
    /\ past \in [Files -> SUBSET (Contents \cup {Absent})]
    /\ todo \in SUBSET Files
    /\ hash \in Dirs \cup {None}
    /\ todo # {} => pc = "hash" /\ hash # None
    /\ lastHash \in Dirs \cup {None}
    /\ comp \in [Files -> FileStates]
    /\ \A f \in Files : comp[f].st \in {"lookup", "compile", "ok"} => comp[f].src \in Contents
    /\ \A f \in Files : comp[f].st = "none" => comp[f] = NoFile
    /\ cache \in [Contents -> Nat]
    /\ made \in Nat
    /\ ready \in BOOLEAN
    /\ snapshot \in Dirs \cup {None}
    /\ rules \in [Files -> Nat]

\* NewReloader starts well shaped.
LEMMA ShapeInit == Init => Shape
<1> SUFFICES ASSUME Init PROVE Shape
  OBVIOUS
<1>1. AllAbsent \in Dirs /\ hash = AllAbsent /\ hash # None
  BY NoneAssumption DEF Init, AllAbsent, Dirs
<1>2. /\ comp \in [Files -> FileStates]
      /\ \A f \in Files : comp[f].st = "none" /\ comp[f] = NoFile
  BY DEF Init, NoFile, FileStates, CompStates
<1>3. todo \in SUBSET Files
  BY DEF Init, Listed
<1>4. past \in [Files -> SUBSET (Contents \cup {Absent})]
  BY DEF Init, Dirs
<1> QED BY <1>1, <1>2, <1>3, <1>4 DEF Init, Shape

\* Every step of the loop, the hash and the compile keeps the shape.
LEMMA ShapeNext == Shape /\ [Next]_vars => Shape'
<1> SUFFICES ASSUME Shape, [Next]_vars PROVE Shape'
  OBVIOUS
<1> USE DEF Shape
<1>1. ASSUME NEW f \in Files, NEW c \in Contents \cup {Absent}, Edit(f, c) PROVE Shape'
  BY <1>1 DEF Edit, Dirs, compilerVars, outVars
<1>2. CASE Reload
  BY <1>2 DEF Reload, dirVars, compilerVars, outVars
<1>3. CASE StartWatch
  BY <1>3 DEF StartWatch, dirVars, compilerVars, outVars
<1>4. CASE FsEvent
  BY <1>4 DEF FsEvent, dirVars, compilerVars, outVars
<1>5. CASE WatchLost
  BY <1>5 DEF WatchLost, compilerVars, outVars
<1>6. CASE BeginReload
  <2>1. AllAbsent \in Dirs /\ AllAbsent # None
    BY NoneAssumption DEF AllAbsent, Dirs
  <2>2. todo' \in SUBSET Files
    BY <1>6 DEF BeginReload, Listed
  <2> QED BY <1>6, <2>1, <2>2 DEF BeginReload, dirVars, compilerVars, outVars
<1>7. CASE Stop
  BY <1>7 DEF Stop, dirVars, compilerVars, outVars
<1>8. CASE HashRead
  <2> PICK f \in todo :
         \/ /\ dir[f] = Absent
            /\ hash' = None
            /\ todo' = {}
         \/ /\ dir[f] # Absent
            /\ hash' = [hash EXCEPT ![f] = dir[f]]
            /\ todo' = todo \ {f}
    BY <1>8 DEF HashRead
  <2>1. hash' \in Dirs \cup {None} /\ (todo' # {} => hash' # None)
    BY NoneAssumption DEF Dirs
  <2> QED BY <1>8, <2>1 DEF HashRead, dirVars, compilerVars, outVars
<1>9. CASE Skip
  BY <1>9 DEF Skip, dirVars, compilerVars, outVars
<1>10. CASE CompileStart
  <2>1. /\ comp' \in [Files -> FileStates]
        /\ \A f \in Files : comp'[f].st \in {"none", "read"}
        /\ \A f \in Files : comp'[f].st = "none" => comp'[f] = NoFile
    BY <1>10 DEF CompileStart, NoFile, FileStates, CompStates
  <2> QED BY <1>10, <2>1 DEF CompileStart, dirVars, outVars
<1>11. ASSUME NEW f \in Files, CompileRead(f) PROVE Shape'
  <2>1. /\ comp' \in [Files -> FileStates]
        /\ \A g \in Files \ {f} : comp'[g] = comp[g]
        /\ comp'[f].st = "lookup" => comp'[f].src \in Contents
        /\ comp'[f].st \in {"lookup", "err"}
    BY <1>11 DEF CompileRead, FileStates, CompStates, Dirs
  <2> QED BY <1>11, <2>1 DEF CompileRead, dirVars, outVars
<1>12. ASSUME NEW f \in Files, CacheLookup(f) PROVE Shape'
  <2>1. /\ comp' \in [Files -> FileStates]
        /\ \A g \in Files \ {f} : comp'[g] = comp[g]
        /\ comp'[f].src \in Contents
        /\ comp'[f].st \in {"compile", "ok"}
    BY <1>12 DEF CacheLookup, FileStates, CompStates
  <2> QED BY <1>12, <2>1 DEF CacheLookup, dirVars, outVars
<1>13. ASSUME NEW f \in Files, CacheStore(f) PROVE Shape'
  <2>1. /\ comp' \in [Files -> FileStates]
        /\ \A g \in Files \ {f} : comp'[g] = comp[g]
        /\ comp'[f].src \in Contents
        /\ comp'[f].st \in {"err", "ok"}
        /\ cache' \in [Contents -> Nat]
        /\ made' \in Nat
    BY <1>13 DEF CacheStore, FileStates, CompStates
  <2> QED BY <1>13, <2>1 DEF CacheStore, dirVars, outVars
<1>14. ASSUME comp' = [f \in Files |-> NoFile]
       PROVE  /\ comp' \in [Files -> FileStates]
              /\ \A f \in Files : comp'[f].st = "none" /\ comp'[f] = NoFile
  BY <1>14 DEF NoFile, FileStates, CompStates
<1>15. CASE CompileFailed
  BY <1>14, <1>15 DEF CompileFailed, Compiled, dirVars, outVars
<1>16. CASE Publish
  <2>1. cache' \in [Contents -> Nat]
    BY <1>16 DEF Publish, Pruned
  <2>2. snapshot' \in Dirs /\ rules' \in [Files -> Nat]
    BY <1>16 DEF Publish, Dirs, FileStates
  <2>3. lastHash' \in Dirs \cup {None} /\ ready' \in BOOLEAN /\ todo' = {}
    BY <1>16 DEF Publish, Compiled
  <2> QED BY <1>14, <1>16, <2>1, <2>2, <2>3 DEF Publish, dirVars
<1>17. CASE UNCHANGED vars
  BY <1>17 DEF vars
<1> QED BY <1>1, <1>2, <1>3, <1>4, <1>5, <1>6, <1>7, <1>8, <1>9, <1>10, <1>11, <1>12,
           <1>13, <1>15, <1>16, <1>17
        DEF Next, Outside, Loop, DoReload, CompileFile, DebounceFire, TakeRequest, Poll, Gone

-----------------------------------------------------------------------------
(* The hash never stands for content that was not compiled.                *)

\* What is known of file f when a source src of it has been compiled: if the hash
\* h still agrees with the directory on f, nothing happened to f in between.
Agrees(h, f, src) == h # None /\ h[f] = dir[f] => src = dir[f]

\* Hashes are made of contents the files have had, and each of them was read no
\* later than the source it goes with. Without reverts a file that changes gets
\* a content no hash has seen.
Hashes ==
    /\ \A f \in Files : dir[f] \in past[f]
    /\ \A f \in Files : hash # None /\ f \notin todo => hash[f] \in past[f]
    /\ \A f \in Files : lastHash # None => lastHash[f] \in past[f]
    /\ lastHash # None => snapshot # None
    /\ \A f \in Files : Agrees(lastHash, f, snapshot[f])
    /\ pc = "compile" =>
          \A f \in Files : comp[f].st # "read" =>
              Agrees(hash, f, comp[f].src) /\ Agrees(lastHash, f, comp[f].src)

\* Before the first hash there is nothing to agree with.
LEMMA HashesInit == Init => Hashes
<1> SUFFICES ASSUME Init PROVE Hashes
  OBVIOUS
<1>1. \A f \in Files : f \notin todo => dir[f] = Absent /\ hash[f] = Absent
  BY DEF Init, Listed, AllAbsent
<1> QED BY <1>1 DEF Init, Hashes, Agrees

\* Each read, edit and publication keeps hashes behind the sources they go with.
LEMMA HashesNext == ~MayRevert /\ Shape /\ Hashes /\ [Next]_vars => Hashes'
<1> SUFFICES ASSUME ~MayRevert, Shape, Hashes, [Next]_vars PROVE Hashes'
  OBVIOUS
<1> USE DEF Shape, Hashes, Agrees
\* A step that reads and changes neither files nor hashes.
<1>0. ASSUME UNCHANGED <<dir, past, hash, todo, lastHash, snapshot>>,
             pc' # "compile" \/ (pc' = pc /\ comp' = comp)
      PROVE  Hashes'
  BY <1>0
<1>1. ASSUME NEW f \in Files, NEW c \in Contents \cup {Absent}, Edit(f, c) PROVE Hashes'
  <2>1. /\ c \notin past[f]
        /\ dir'[f] = c /\ past'[f] = past[f] \cup {c}
        /\ \A g \in Files \ {f} : dir'[g] = dir[g] /\ past'[g] = past[g]
    BY <1>1 DEF Edit, Dirs
  <2>2. UNCHANGED <<pc, todo, hash, comp, lastHash, snapshot>>
    BY <1>1 DEF Edit, compilerVars, outVars
  <2>3. pc = "compile" => todo = {}
    OBVIOUS
  <2> QED BY <2>1, <2>2, <2>3
<1>2. CASE Reload
  BY <1>0, <1>2 DEF Reload, dirVars, compilerVars, outVars
<1>3. CASE StartWatch
  BY <1>0, <1>3 DEF StartWatch, dirVars, compilerVars, outVars
<1>4. CASE FsEvent
  BY <1>0, <1>4 DEF FsEvent, dirVars, compilerVars, outVars
<1>5. CASE WatchLost
  BY <1>0, <1>5 DEF WatchLost, compilerVars, outVars
<1>6. CASE BeginReload
  <2>1. \A f \in Files : f \notin todo' => dir[f] = Absent /\ hash'[f] = Absent
    BY <1>6 DEF BeginReload, Listed, AllAbsent
  <2> QED BY <1>6, <2>1 DEF BeginReload, dirVars, compilerVars, outVars
<1>7. CASE Stop
  BY <1>0, <1>7 DEF Stop, dirVars, compilerVars, outVars
<1>8. CASE HashRead
  <2> PICK f \in todo :
         \/ /\ dir[f] = Absent
            /\ hash' = None
            /\ todo' = {}
         \/ /\ dir[f] # Absent
            /\ hash' = [hash EXCEPT ![f] = dir[f]]
            /\ todo' = todo \ {f}
    BY <1>8 DEF HashRead
  <2>1. \A g \in Files : hash' # None /\ g \notin todo' => hash'[g] \in past[g]
    BY DEF Dirs
  <2> QED BY <1>8, <2>1 DEF HashRead, dirVars, compilerVars, outVars
<1>9. CASE Skip
  BY <1>0, <1>9 DEF Skip, dirVars, compilerVars, outVars
<1>10. CASE CompileStart
  <2>1. \A f \in Files : comp'[f].st # "read" => comp'[f].src = Absent /\ dir[f] = Absent
    BY <1>10 DEF CompileStart, NoFile, Listed
  <2> QED BY <1>10, <2>1 DEF CompileStart, dirVars, outVars
<1>11. ASSUME NEW f \in Files, CompileRead(f) PROVE Hashes'
  <2>1. comp'[f].src = dir[f] /\ \A g \in Files \ {f} : comp'[g] = comp[g]
    BY <1>11 DEF CompileRead, FileStates
  <2> QED BY <1>11, <2>1 DEF CompileRead, dirVars, outVars
<1>12. ASSUME NEW f \in Files, CacheLookup(f) PROVE Hashes'
  <2>1. /\ comp[f].st # "read" /\ comp'[f].src = comp[f].src
        /\ \A g \in Files \ {f} : comp'[g] = comp[g]
    BY <1>12 DEF CacheLookup, FileStates
  <2> QED BY <1>12, <2>1 DEF CacheLookup, dirVars, outVars
<1>13. ASSUME NEW f \in Files, CacheStore(f) PROVE Hashes'
  <2>1. /\ comp[f].st # "read" /\ comp'[f].src = comp[f].src
        /\ \A g \in Files \ {f} : comp'[g] = comp[g]
    BY <1>13 DEF CacheStore, FileStates
  <2> QED BY <1>13, <2>1 DEF CacheStore, dirVars, outVars
<1>14. CASE CompileFailed
  <2>1. pc' # "compile"
    BY <1>14 DEF CompileFailed
  <2> QED BY <1>0, <1>14, <2>1 DEF CompileFailed, dirVars, outVars
<1>15. CASE Publish
  <2>1. /\ pc = "compile" /\ pc' # "compile" /\ todo = {}
        /\ \A f \in Files : comp[f].st # "read" /\ snapshot'[f] = comp[f].src
    BY <1>15 DEF Publish, Compiled
  <2>2. snapshot' # None
    BY <1>15, NoneAssumption DEF Publish, Dirs, FileStates
  <2>3. /\ UNCHANGED <<dir, past, todo, hash>>
        /\ lastHash' \in {hash, lastHash}
    BY <1>15 DEF Publish, dirVars
  <2> QED BY <2>1, <2>2, <2>3
<1>16. CASE UNCHANGED vars
  BY <1>0, <1>16 DEF vars
<1> QED BY <1>1, <1>2, <1>3, <1>4, <1>5, <1>6, <1>7, <1>8, <1>9, <1>10, <1>11, <1>12,
           <1>13, <1>14, <1>15, <1>16
        DEF Next, Outside, Loop, DoReload, CompileFile, DebounceFire, TakeRequest, Poll, Gone

\* SkipIsSafe for every directory, unless a file gets back a content it had
\* before: doReload's comparison with lastHash skips only a reload that would
\* change nothing.
THEOREM SkipIsSafeCorrect == ASSUME ~MayRevert PROVE Spec => []SkipIsSafe
<1>1. Init => Shape /\ Hashes
  BY ShapeInit, HashesInit
<1>2. Shape /\ Hashes /\ [Next]_vars => Shape' /\ Hashes'
  BY ShapeNext, HashesNext
<1>3. Shape /\ Hashes => SkipIsSafe
  <2> SUFFICES ASSUME Shape, Hashes, lastHash = dir PROVE snapshot = dir
    BY DEF SkipIsSafe
  <2>1. lastHash # None /\ snapshot \in Dirs /\ dir \in Dirs
    BY NoneAssumption DEF Shape, Hashes
  <2>2. \A f \in Files : snapshot[f] = dir[f]
    BY <2>1 DEF Hashes, Agrees
  <2> QED BY <2>1, <2>2 DEF Dirs
<1> QED BY <1>1, <1>2, <1>3, PTL DEF Spec

-----------------------------------------------------------------------------
(* What is published.                                                      *)

\* The cache holds only rules that compile; a goroutine that ended well has one;
\* two goroutines with one source and two objects are a duplicate. The rules of
\* the snapshot are in the cache, so no compile makes them again.
Objects ==
    /\ \A c \in Contents : cache[c] # 0 => c \notin Bad
    /\ \A f \in Files : comp[f].st = "ok" =>
          /\ comp[f].src \notin Bad
          /\ comp[f].obj # 0
          /\ \/ comp[f].obj = cache[comp[f].src]
             \/ \E g \in Files \ {f} : comp[g].st = "ok" /\ comp[g].src = comp[f].src
    /\ ready => snapshot # None
    /\ snapshot # None =>
          /\ Loadable(snapshot)
          /\ \A g \in Files : snapshot[g] = Absent => rules[g] = 0
          /\ \A g \in Files : snapshot[g] # Absent =>
                /\ rules[g] # 0
                /\ cache[snapshot[g]] = rules[g]
                /\ \A f \in Files : comp[f].src = snapshot[g] =>
                      /\ comp[f].st # "compile"
                      /\ comp[f].st = "ok" => comp[f].obj = rules[g]

\* Before the first compile the cache is empty and nothing is published.
LEMMA ObjectsInit == Init => Objects
BY DEF Init, Objects, NoFile

\* What a successful compile has found.
LEMMA PublishFacts ==
    ASSUME Shape, Objects, Publish
    PROVE  /\ snapshot' \in Dirs /\ rules' \in [Files -> Nat]
           /\ \A f \in Files : snapshot'[f] = comp[f].src /\ rules'[f] = comp[f].obj
           /\ \A f \in Files : comp[f].st = "none" => comp[f].src = Absent /\ comp[f].obj = 0
           /\ \A f \in Files : comp[f].st # "none" =>
                 /\ comp[f].st = "ok" /\ comp[f].src \in Contents /\ comp[f].src # Absent
                 /\ comp[f].obj = cache[comp[f].src]
           /\ \A f, g \in Files : f # g /\ comp[f].st = "ok" /\ comp[g].st = "ok" =>
                 RuleId[comp[f].src] # RuleId[comp[g].src]
           /\ cache' = Pruned
<1>1. snapshot' \in Dirs /\ rules' \in [Files -> Nat] /\ cache' = Pruned
  BY DEF Shape, Publish, Dirs, FileStates
<1>2. \A f \in Files : snapshot'[f] = comp[f].src /\ rules'[f] = comp[f].obj
  BY DEF Publish
<1>3. \A f \in Files : comp[f].st = "none" => comp[f].src = Absent /\ comp[f].obj = 0
  BY DEF Shape, NoFile
<1>4. \A f \in Files : comp[f].st # "none" =>
        comp[f].st = "ok" /\ comp[f].src \in Contents /\ comp[f].src # Absent
  BY ContentsAssumption DEF Shape, Publish, Compiled, Rejected
<1>5. \A f, g \in Files : f # g /\ comp[f].st = "ok" /\ comp[g].st = "ok" =>
        RuleId[comp[f].src] # RuleId[comp[g].src]
  BY DEF Publish, Rejected, Duplicate, HasRule
<1>6. \A f \in Files : comp[f].st = "ok" => comp[f].obj = cache[comp[f].src]
  BY <1>5 DEF Objects
<1> QED BY <1>1, <1>2, <1>3, <1>4, <1>5, <1>6

\* Lookups, stores, prune and publication keep cache and snapshot in step.
LEMMA ObjectsNext == Shape /\ Objects /\ [Next]_vars => Objects'
<1> SUFFICES ASSUME Shape, Objects, [Next]_vars PROVE Objects'
  OBVIOUS
\* A step outside the compiler.
<1>0. ASSUME UNCHANGED <<comp, cache, ready, snapshot, rules>> PROVE Objects'
  BY <1>0 DEF Objects, Loadable, Listed
<1>1. ASSUME NEW f \in Files, NEW c \in Contents \cup {Absent}, Edit(f, c) PROVE Objects'
  BY <1>0, <1>1 DEF Edit, compilerVars, outVars
<1>2. CASE Reload
  BY <1>0, <1>2 DEF Reload, compilerVars, outVars
<1>3. CASE StartWatch
  BY <1>0, <1>3 DEF StartWatch, compilerVars, outVars
<1>4. CASE FsEvent
  BY <1>0, <1>4 DEF FsEvent, compilerVars, outVars
<1>5. CASE WatchLost
  BY <1>0, <1>5 DEF WatchLost, compilerVars, outVars
<1>6. CASE BeginReload
  BY <1>0, <1>6 DEF BeginReload, compilerVars, outVars
<1>7. CASE Stop
  BY <1>0, <1>7 DEF Stop, compilerVars, outVars
<1>8. CASE HashRead
  BY <1>0, <1>8 DEF HashRead, compilerVars, outVars
<1>9. CASE Skip
  BY <1>0, <1>9 DEF Skip, compilerVars, outVars
\* A step that resets the goroutines.
<1>10. ASSUME UNCHANGED <<cache, ready, snapshot, rules>>,
              \A f \in Files : comp'[f].st \in {"none", "read"} /\ comp'[f].src = Absent
       PROVE  Objects'
  BY <1>10 DEF Objects, Loadable, Listed
<1>11. CASE CompileStart
  <2>1. \A f \in Files : comp'[f].st \in {"none", "read"} /\ comp'[f].src = Absent
    BY <1>11 DEF CompileStart, NoFile
  <2> QED BY <1>10, <1>11, <2>1 DEF CompileStart, outVars
<1>12. CASE CompileFailed
  <2>1. \A f \in Files : comp'[f].st \in {"none", "read"} /\ comp'[f].src = Absent
    BY <1>12 DEF CompileFailed, NoFile
  <2> QED BY <1>10, <1>12, <2>1 DEF CompileFailed, outVars
<1>13. ASSUME NEW f \in Files, CompileRead(f) PROVE Objects'
  <2>1. /\ comp[f].st = "read"
        /\ comp'[f].st \in {"lookup", "err"}
        /\ \A g \in Files \ {f} : comp'[g] = comp[g]
    BY <1>13 DEF Shape, CompileRead, FileStates
  <2>2. UNCHANGED <<cache, ready, snapshot, rules>>
    BY <1>13 DEF CompileRead, outVars
  <2> QED BY <2>1, <2>2 DEF Objects, Loadable, Listed
<1>14. ASSUME NEW f \in Files, CacheLookup(f) PROVE Objects'
  <2>1. /\ comp[f].st = "lookup" /\ comp[f].src \in Contents
        /\ comp'[f].src = comp[f].src
        /\ comp'[f].obj = cache[comp[f].src]
        /\ comp'[f].st = IF cache[comp[f].src] = 0 THEN "compile" ELSE "ok"
        /\ \A g \in Files \ {f} : comp'[g] = comp[g]
    BY <1>14 DEF Shape, CacheLookup, FileStates
  <2>2. UNCHANGED <<cache, ready, snapshot, rules>>
    BY <1>14 DEF CacheLookup, outVars
  <2> QED BY <2>1, <2>2 DEF Objects, Loadable, Listed
<1>15. ASSUME NEW f \in Files, CacheStore(f), comp[f].src \in Bad PROVE Objects'
  <2>1. /\ comp[f].st = "compile" /\ comp'[f].st = "err" /\ comp'[f].src = comp[f].src
        /\ \A g \in Files \ {f} : comp'[g] = comp[g]
    BY <1>15 DEF Shape, CacheStore, FileStates
  <2>2. UNCHANGED <<cache, ready, snapshot, rules>>
    BY <1>15 DEF CacheStore, outVars
  <2> QED BY <2>1, <2>2 DEF Objects, Loadable, Listed
<1>16. ASSUME NEW f \in Files, CacheStore(f), comp[f].src \notin Bad PROVE Objects'
  <2>1. /\ comp[f].st = "compile" /\ comp'[f].st = "ok" /\ comp'[f].src = comp[f].src
        /\ comp[f].src \in Contents
        /\ comp'[f].obj = made + 1 /\ made + 1 # 0
        /\ \A g \in Files \ {f} : comp'[g] = comp[g]
        /\ cache'[comp[f].src] = made + 1
        /\ \A d \in Contents \ {comp[f].src} : cache'[d] = cache[d]
    BY <1>16 DEF Shape, CacheStore, FileStates
  <2>2. UNCHANGED <<ready, snapshot, rules>>
    BY <1>16 DEF CacheStore, outVars
  <2>3. snapshot # None => \A g \in Files : snapshot[g] # comp[f].src
    BY <2>1, ContentsAssumption DEF Objects
  <2>4. snapshot # None => \A g \in Files : snapshot[g] # Absent => snapshot[g] \in Contents
    BY DEF Shape, Dirs
  <2>5. \A c \in Contents : cache'[c] # 0 => c \notin Bad
    BY <1>16, <2>1 DEF Objects
  <2>6. ASSUME NEW g \in Files, comp'[g].st = "ok"
        PROVE  /\ comp'[g].src \notin Bad
               /\ comp'[g].obj # 0
               /\ \/ comp'[g].obj = cache'[comp'[g].src]
                  \/ \E h \in Files \ {g} : comp'[h].st = "ok" /\ comp'[h].src = comp'[g].src
    <3>1. CASE g = f
      BY <1>16, <2>1, <3>1
    <3>2. CASE g # f /\ comp[g].src = comp[f].src
      BY <2>1, <2>6, <3>2 DEF Objects
    <3>3. CASE g # f /\ comp[g].src # comp[f].src
      <4>1. comp'[g] = comp[g] /\ comp[g].src \in Contents
        BY <2>1, <2>6, <3>3 DEF Shape
      <4>2. cache'[comp[g].src] = cache[comp[g].src]
        BY <2>1, <3>3, <4>1
      <4>3. \A h \in Files : comp[h].st = "ok" => comp'[h].st = "ok" /\ comp'[h].src = comp[h].src
        BY <2>1
      <4> QED BY <2>6, <4>1, <4>2, <4>3 DEF Objects
    <3> QED BY <3>1, <3>2, <3>3
  <2>7. snapshot' # None =>
          /\ Loadable(snapshot)'
          /\ \A g \in Files : snapshot'[g] = Absent => rules'[g] = 0
    BY <2>2 DEF Objects, Loadable, Listed
  <2>8. snapshot' # None =>
          \A g \in Files : snapshot'[g] # Absent =>
            /\ rules'[g] # 0
            /\ cache'[snapshot'[g]] = rules'[g]
            /\ \A h \in Files : comp'[h].src = snapshot'[g] =>
                 /\ comp'[h].st # "compile"
                 /\ comp'[h].st = "ok" => comp'[h].obj = rules'[g]
    BY <2>1, <2>2, <2>3, <2>4 DEF Objects
  <2>9. ready' => snapshot' # None
    BY <2>2 DEF Objects
  <2> QED BY <2>5, <2>6, <2>7, <2>8, <2>9 DEF Objects
<1>17. CASE Publish
  <2>0. snapshot' # None
    BY <1>17, PublishFacts, NoneAssumption
  <2>1. \A f \in Files : comp'[f].st = "none" /\ comp'[f].src = Absent
    BY <1>17 DEF Publish, NoFile
  <2>2. \A c \in Contents : cache'[c] # 0 => c \notin Bad
    BY <1>17, PublishFacts DEF Pruned, Objects
  <2>3. \A f \in Files : snapshot'[f] # Absent =>
          /\ comp[f].st = "ok" /\ comp[f].src \in Contents /\ snapshot'[f] = comp[f].src
          /\ rules'[f] = comp[f].obj /\ comp[f].obj = cache[comp[f].src]
    BY <1>17, PublishFacts
  <2>4. \A f \in Files : snapshot'[f] # Absent => cache'[snapshot'[f]] = rules'[f] /\ rules'[f] # 0
    BY <1>17, <2>3, PublishFacts DEF Pruned, HasRule, Objects
  <2>5. Loadable(snapshot)'
    BY <1>17, <2>3, PublishFacts DEF Loadable, Listed, Objects
  <2>6. \A f \in Files : snapshot'[f] = Absent => rules'[f] = 0
    BY <1>17, PublishFacts
  <2> QED BY <2>0, <2>1, <2>2, <2>4, <2>5, <2>6 DEF Objects
<1>18. CASE UNCHANGED vars
  BY <1>0, <1>18 DEF vars
<1> QED BY <1>1, <1>2, <1>3, <1>4, <1>5, <1>6, <1>7, <1>8, <1>9, <1>11, <1>12, <1>13,
           <1>14, <1>15, <1>16, <1>17, <1>18
        DEF Next, Outside, Loop, DoReload, CompileFile, DebounceFire, TakeRequest, Poll, Gone

\* AllOrNothing for every directory and any edits, reverts included: what the
\* workers see compiles and has distinct rule ids.
THEOREM AllOrNothingCorrect == Spec => []AllOrNothing
<1>1. Init => Shape /\ Objects
  BY ShapeInit, ObjectsInit
<1>2. Shape /\ Objects /\ [Next]_vars => Shape' /\ Objects'
  BY ShapeNext, ObjectsNext
<1>3. Objects => AllOrNothing
  BY DEF Objects, AllOrNothing
<1> QED BY <1>1, <1>2, <1>3, PTL DEF Spec

\* Only Publish touches the published snapshot.
LEMMA OnlyPublish == [Next]_vars => Publish \/ UNCHANGED <<snapshot, rules>>
BY DEF Next, vars, Outside, Loop, DoReload, Gone, Edit, Reload, StartWatch, FsEvent,
       WatchLost, BeginReload, DebounceFire, TakeRequest, Poll, Stop, HashRead, Skip,
       CompileStart, CompileFile, CompileRead, CacheLookup, CacheStore, CompileFailed, outVars

\* StatsSurvive for every sequence of edits and failed reloads: the compiler's
\* cache hands an unchanged rule from snapshot to snapshot as the same object.
THEOREM StatsSurviveCorrect == Spec => StatsSurvive
<1>1. Init => Shape /\ Objects
  BY ShapeInit, ObjectsInit
<1>2. Shape /\ Objects /\ [Next]_vars => Shape' /\ Objects'
  BY ShapeNext, ObjectsNext
<1>3. Shape /\ Objects /\ [Next]_vars =>
        [\A f, g \in Files : snapshot # None /\ snapshot'[f] = snapshot[g]
                                 => rules'[f] = rules[g]]_<<snapshot, rules>>
  <2> SUFFICES ASSUME Shape, Objects, Publish, snapshot # None,
                      NEW f \in Files, NEW g \in Files, snapshot'[f] = snapshot[g]
               PROVE  rules'[f] = rules[g]
    BY OnlyPublish
  <2>1. CASE snapshot[g] = Absent
    BY <2>1, PublishFacts DEF Objects
  <2>2. CASE snapshot[g] # Absent
    BY <2>2, PublishFacts DEF Objects
  <2> QED BY <2>1, <2>2
<1> QED BY <1>1, <1>2, <1>3, PTL DEF Spec, StatsSurvive

-----------------------------------------------------------------------------
(* Type correctness.                                                       *)

\* The variables of the watch loop.
Flags ==
    /\ edits \in 0..MaxEdits
    /\ missed \in BOOLEAN
    /\ watch \in {"unset", "on", "off"}
    /\ fsEvent \in BOOLEAN
    /\ debounce \in BOOLEAN
    /\ reloadCh \in BOOLEAN
    /\ pc \in {"hash", "compile", "start", "idle", "stopped", "failed"}

\* Every step keeps the loop variables in their ranges.
LEMMA FlagsNext == Flags /\ [Next]_vars => Flags'
<1> SUFFICES ASSUME Flags, [Next]_vars PROVE Flags'
  OBVIOUS
<1> USE EditsAssumption DEF Flags, dirVars, loopVars
<1>0. ASSUME NEW f \in Files, NEW c \in Contents \cup {Absent}, Edit(f, c) PROVE Flags'
  <2>1. edits' \in 0..MaxEdits
    BY <1>0 DEF Edit
  <2>2. fsEvent' \in BOOLEAN /\ missed' \in BOOLEAN
    BY <1>0, Zenon DEF Edit
  <2> QED BY <1>0, <2>1, <2>2 DEF Edit
<1>1. CASE Reload
  BY <1>1 DEF Reload
<1>2. CASE StartWatch \/ FsEvent \/ WatchLost \/ Stop
  BY <1>2 DEF StartWatch, FsEvent, WatchLost, Stop
<1>3. CASE DebounceFire \/ TakeRequest \/ Poll
  BY <1>3 DEF DebounceFire, TakeRequest, Poll, BeginReload
<1>4. CASE HashRead \/ Skip \/ CompileStart
  BY <1>4 DEF HashRead, Skip, CompileStart
<1>5. CASE \E f \in Files : CompileFile(f)
  BY <1>5 DEF CompileFile, CompileRead, CacheLookup, CacheStore
<1>6. CASE CompileFailed \/ Publish
  BY <1>6 DEF CompileFailed, Publish
<1>7. CASE UNCHANGED vars
  BY <1>7 DEF vars
<1> QED BY <1>0, <1>1, <1>2, <1>3, <1>4, <1>5, <1>6, <1>7
        DEF Next, Outside, Loop, DoReload, Gone

\* Type correctness of the reloader, for any number of files: in particular a
\* snapshot has a compiled rule for exactly its files.
THEOREM TypeCorrect == Spec => []TypeOK
<1>1. Init => Shape /\ Objects /\ Flags
  <2>1. Init => edits \in 0..MaxEdits
    BY EditsAssumption DEF Init
  <2> QED BY <2>1, ShapeInit, ObjectsInit DEF Init, Flags
<1>2. Shape /\ Objects /\ Flags /\ [Next]_vars => Shape' /\ Objects' /\ Flags'
  BY ShapeNext, ObjectsNext, FlagsNext
<1>3. Shape /\ Objects /\ Flags => TypeOK
  BY DEF Shape, Objects, Flags, TypeOK, FileStates
<1> QED BY <1>1, <1>2, <1>3, PTL DEF Spec

=============================================================================
