------------------------- MODULE ThreatIntelSyncProofs -------------------------
(***************************************************************************)
(* Theorems about ThreatIntelSync, for any number of syncs, sources and     *)
(* faults.                                                                  *)
(***************************************************************************)
EXTENDS ThreatIntelSync, TLAPS

\* The sources are a list, and the bounds are numbers.
Assumptions == Sources \in Seq(Keys) /\ MaxUpdates \in Nat /\ MaxFaults \in Nat

-----------------------------------------------------------------------------
(* The inductive invariant.                                                 *)

StepInv ==
  /\ step \in [Syncs -> {"idle", "collect", "data", "falco", "osquery", "done"}]
  /\ next \in [Syncs -> 1..(Len(Sources) + 1)]
  /\ data = [r \in Syncs |-> data[r]]
  /\ disturbed \in BOOLEAN

\* A cached source has a text file; only sources have files.
TextInv ==
  /\ DOMAIN cache \subseteq DOMAIN txt /\ DOMAIN txt \subseteq Keys
  /\ DOMAIN falcoList \subseteq Keys

\* A run has in its dataset the sources it has passed, and all of those have files.
CollectedInv ==
  \A r \in Syncs :
    /\ DOMAIN data[r] = {Sources[i] : i \in 1..(next[r] - 1)}
    /\ DOMAIN data[r] \subseteq DOMAIN txt
    /\ step[r] = "idle" => next[r] = 1
    /\ step[r] \in {"data", "falco", "osquery"} => DOMAIN data[r] = Keys

WatchInv == watching => DOMAIN txt = Keys

\* The rest holds as long as only the network fails.  One run at a time, and all
\* runs use the cache.
SingleInv == noCache = {} /\ \A q, r \in Active : q = r

\* A cache holds what the text file does, and something unless its source was empty.
CacheInv ==
  \A s \in DOMAIN cache : txt[s] = cache[s] /\ (s \notin emptied => cache[s] # {})

\* What an active run has collected is in the files, and nothing of use is missing
\* from it unless there is no cache.
DataInv ==
  \A r \in Active : \A s \in DOMAIN data[r] :
    /\ data[r][s] \in {txt[s], Reread(txt[s])}
    /\ s \notin emptied => (data[r][s] = {} <=> s \notin DOMAIN cache)

\* How far the merged files have got.
MergedInv ==
  /\ \A r \in Syncs : step[r] = "falco" => merged = data[r]
  /\ \A r \in Syncs : step[r] = "osquery" => merged = data[r] /\ falcoList = data[r]
  /\ Active = {} => merged = falcoList
                    /\ \A s \in DOMAIN falcoList : falcoList[s] \in {txt[s], Reread(txt[s])}

\* An indicator in Falco's list came from a source that is cached.
ListInv == \A s \in DOMAIN falcoList \ emptied : falcoList[s] # {} => s \in DOMAIN cache

Undisturbed == SingleInv /\ CacheInv /\ DataInv /\ MergedInv /\ ListInv

IInv == StepInv /\ TextInv /\ CollectedInv /\ WatchInv /\ (~disturbed => Undisturbed)

LEMMA SourceList ==
  ASSUME Assumptions
  PROVE  Len(Sources) \in Nat /\ DOMAIN Sources = 1..Len(Sources)
  BY DEF Assumptions

LEMMA PutItems ==
  \A f, k, items :
    /\ DOMAIN Put(f, k, items) = DOMAIN f \union {k}
    /\ Put(f, k, items)[k] = items
    /\ \A j \in DOMAIN f \ {k} : Put(f, k, items)[j] = f[j]
  BY DEF Put

\* There are no files and no runs.
LEMMA InitInv ==
  ASSUME Assumptions, Init
  PROVE  IInv
<1>1. StepInv
  <2>1. 1 \in 1..(Len(Sources) + 1)
    BY SourceList
  <2> QED
    BY <2>1 DEF Init, StepInv
<1>2. TextInv /\ CollectedInv /\ WatchInv
  BY DEF Init, TextInv, CollectedInv, WatchInv, Nothing
<1>3. Active = {}
  BY DEF Init, Active
<1>4. Undisturbed
  BY <1>3 DEF Init, Undisturbed, SingleInv, CacheInv, DataInv, MergedInv, ListInv, Nothing
<1> QED
  BY <1>1, <1>2, <1>4 DEF IInv

\* Reading a list again leaves something of it, and nothing of an empty one.
LEMMA RereadEmpty == \A items : Reread(items) = {} <=> items = {}
  BY DEF Reread

\* What a run holds once it has collected one more source.
LEMMA CollectsOne ==
  ASSUME Assumptions, StepInv, CollectedInv, NEW r \in Syncs, Collecting(r), NEW items,
         Collects(r, items)
  PROVE  /\ Current(r) \in Keys
         /\ data' = [q \in Syncs |-> data'[q]] /\ next' \in [Syncs -> 1..(Len(Sources) + 1)]
         /\ data'[r] = Put(data[r], Current(r), items)
         /\ DOMAIN data'[r] = DOMAIN data[r] \union {Current(r)}
         /\ DOMAIN data'[r] = {Sources[i] : i \in 1..(next'[r] - 1)}
         /\ \A q \in Syncs \ {r} : data'[q] = data[q] /\ next'[q] = next[q]
<1>1. next[r] \in 1..Len(Sources) /\ Len(Sources) \in Nat
  BY DEF Assumptions, StepInv, Collecting
<1>2. Current(r) \in Keys
  BY <1>1 DEF Assumptions, Current
<1>3. next' \in [Syncs -> 1..(Len(Sources) + 1)] /\ next'[r] = next[r] + 1
  BY <1>1 DEF StepInv, Collects
<1>4. data' = [q \in Syncs |-> data'[q]] /\ data'[r] = Put(data[r], Current(r), items)
  BY DEF StepInv, Collects
<1>5. DOMAIN data'[r] = DOMAIN data[r] \union {Current(r)}
  BY <1>4 DEF Put
<1>6. DOMAIN data'[r] = {Sources[i] : i \in 1..(next'[r] - 1)}
  BY <1>1, <1>3, <1>5 DEF CollectedInv, Current
<1>7. \A q \in Syncs \ {r} : data'[q] = data[q] /\ next'[q] = next[q]
  BY DEF StepInv, Collects
<1> QED
  BY <1>2, <1>3, <1>4, <1>5, <1>6, <1>7

-----------------------------------------------------------------------------
(* One lemma per action: it preserves the invariant.                        *)

\* A new run has collected nothing; it is alone if nothing is disturbed.
LEMMA BeginInv ==
  ASSUME Assumptions, IInv, NEW r \in Syncs, Begin(r)
  PROVE  IInv'
<1>2. StepInv'
  BY DEF IInv, Begin, files, StepInv
<1>3. TextInv'
  BY DEF IInv, Begin, files, TextInv, CollectedInv
<1>4. CollectedInv'
  BY DEF IInv, Begin, files, StepInv, TextInv, CollectedInv
<1>5. WatchInv'
  BY DEF IInv, Begin, files, StepInv, TextInv, CollectedInv, WatchInv
<1>6. ASSUME ~disturbed' PROVE Undisturbed'
  <2>0. ~disturbed /\ StepInv /\ TextInv /\ SingleInv /\ CacheInv /\ DataInv /\ MergedInv /\ ListInv
    BY <1>6 DEF IInv, Undisturbed, StepInv, Begin
  <2>1. SingleInv'
    <3>1. CASE step' = [step EXCEPT ![r] = "done"] /\ UNCHANGED noCache
      BY <2>0, <3>1 DEF StepInv, SingleInv, Active
    <3>2. CASE step' = [step EXCEPT ![r] = "collect"] /\ noCache' = noCache /\ Active = {}
      BY <2>0, <3>2 DEF StepInv, SingleInv, Active
    <3> QED
      BY <1>6, <2>0, <3>1, <3>2 DEF Begin, StepInv
  <2>2. CacheInv'
    BY <2>0 DEF Begin, files, CacheInv
  <2>3. DataInv'
    <3>1. \A q \in Active' : q \in Active \/ (q = r /\ next[r] = 1)
      BY DEF Begin, IInv, StepInv, CollectedInv, Active
    <3>2. next[r] = 1 => DOMAIN data[r] = {}
      BY DEF IInv, CollectedInv
    <3> QED
      BY <2>0, <3>1, <3>2 DEF Begin, files, DataInv
  <2>4. MergedInv'
    <3>1. Active' = {} => Active = {}
      BY <2>0 DEF Begin, StepInv, Active
    <3>2. \A q \in Syncs : step'[q] \in {"falco", "osquery"} => step'[q] = step[q]
      BY <2>0 DEF Begin, StepInv
    <3> QED
      BY <2>0, <3>1, <3>2 DEF Begin, files, MergedInv
  <2>5. ListInv'
    BY <2>0 DEF Begin, files, DataInv, ListInv, Active
  <2> QED
    BY <2>1, <2>2, <2>3, <2>4, <2>5 DEF Undisturbed
<1> QED
  BY <1>2, <1>3, <1>4, <1>5, <1>6 DEF IInv

\* The text and the cache of the source are what was fetched.
LEMMA FetchInv ==
  ASSUME Assumptions, IInv, NEW r \in Syncs, Fetch(r)
  PROVE  IInv'
<1> DEFINE s     == Current(r)
           items == Extracted(s, feed[s])
<1>0. Collecting(r) /\ Collects(r, items)
  BY DEF Fetch
<1>1. /\ s \in Keys /\ data'[r] = Put(data[r], s, items)
      /\ data' = [q \in Syncs |-> data'[q]] /\ next' \in [Syncs -> 1..(Len(Sources) + 1)]
      /\ DOMAIN data'[r] = DOMAIN data[r] \union {s}
      /\ DOMAIN data'[r] = {Sources[i] : i \in 1..(next'[r] - 1)}
      /\ \A q \in Syncs \ {r} : data'[q] = data[q] /\ next'[q] = next[q]
  BY <1>0, CollectsOne DEF IInv
<1> HIDE DEF s, items
<1>a. txt' = Put(txt, s, items) /\ cache' = Put(cache, s, items) /\ step' = step
  BY DEF Fetch, s, items
<1>b. DOMAIN txt' = DOMAIN txt \union {s} /\ DOMAIN cache' = DOMAIN cache \union {s}
  BY <1>a, PutItems
<1>c. data'[r][s] = items /\ txt'[s] = items /\ cache'[s] = items
  BY <1>1, <1>a, PutItems
<1>d. s \notin emptied' => items # {}
  BY DEF Fetch, s, items
<1>2. StepInv'
  BY <1>0, <1>1 DEF IInv, StepInv, Fetch
<1>3. TextInv'
  BY <1>1, <1>b DEF IInv, TextInv, Fetch
<1>4. CollectedInv'
  <2>1. step'[r] = "collect"
    BY <1>0, <1>a DEF Collecting
  <2> QED
    BY <1>1, <1>a, <1>b, <2>1 DEF IInv, CollectedInv
<1>5. WatchInv'
  BY <1>1, <1>b DEF IInv, WatchInv, Fetch
<1>6. ASSUME ~disturbed' PROVE Undisturbed'
  <2>0. ~disturbed /\ StepInv /\ TextInv /\ SingleInv /\ CacheInv /\ DataInv /\ MergedInv /\ ListInv
    BY <1>6 DEF IInv, Undisturbed, StepInv, Fetch
  <2>1. SingleInv'
    BY <1>a, <2>0 DEF Fetch, SingleInv, Active
  <2>2. CacheInv'
    <3> SUFFICES ASSUME NEW k \in DOMAIN cache'
                 PROVE  txt'[k] = cache'[k] /\ (k \notin emptied' => cache'[k] # {})
      BY DEF CacheInv
    <3>1. CASE k = s
      BY <1>c, <1>d, <3>1
    <3>2. CASE k # s
      <4>1. k \in DOMAIN cache /\ k \in DOMAIN txt
        BY <1>b, <2>0, <3>2 DEF TextInv
      <4>2. txt'[k] = txt[k] /\ cache'[k] = cache[k]
        BY <1>a, <3>2, <4>1, PutItems
      <4> QED
        BY <2>0, <4>1, <4>2 DEF Fetch, CacheInv
    <3> QED
      BY <3>1, <3>2
  <2>3. DataInv'
    <3>1. Active' = Active /\ Active = {r}
      BY <1>0, <1>a, <2>0 DEF Collecting, SingleInv, Active
    <3> SUFFICES ASSUME NEW k \in DOMAIN data'[r]
                 PROVE  /\ data'[r][k] \in {txt'[k], Reread(txt'[k])}
                        /\ k \notin emptied' => (data'[r][k] = {} <=> k \notin DOMAIN cache')
      BY <3>1 DEF DataInv, Reread
    <3>2. CASE k = s
      BY <1>b, <1>c, <1>d, <3>2
    <3>3. CASE k # s
      <4>1. k \in DOMAIN data[r] /\ k \in DOMAIN txt
        BY <1>1, <3>3 DEF IInv, CollectedInv
      <4>2. /\ txt'[k] = txt[k] /\ data'[r][k] = data[r][k]
            /\ k \in DOMAIN cache' <=> k \in DOMAIN cache
        BY <1>1, <1>a, <1>b, <3>3, <4>1, PutItems
      <4>3. k \notin emptied' => k \notin emptied
        BY DEF Fetch
      <4>4. Reread(txt'[k]) = Reread(txt[k])
        BY <4>2
      <4>5. /\ data[r][k] \in {txt[k], Reread(txt[k])}
            /\ k \notin emptied => (data[r][k] = {} <=> k \notin DOMAIN cache)
        BY <2>0, <3>1, <4>1 DEF DataInv
      <4> QED
        BY <4>2, <4>3, <4>4, <4>5
    <3> QED
      BY <3>2, <3>3
  <2>4. MergedInv'
    <3>1. r \in Active /\ step[r] = "collect" /\ Active' = Active
      BY <1>0, <1>a DEF Collecting, Active
    <3> QED
      BY <1>1, <1>a, <2>0, <3>1 DEF Fetch, MergedInv
  <2>5. ListInv'
    BY <1>b, <2>0 DEF Fetch, ListInv
  <2> QED
    BY <2>1, <2>2, <2>3, <2>4, <2>5 DEF Undisturbed
<1> QED
  BY <1>2, <1>3, <1>4, <1>5, <1>6 DEF IInv

\* The cached copy, or a stub where there is none.
LEMMA FetchFailsInv ==
  ASSUME Assumptions, IInv, NEW r \in Syncs, FetchFails(r)
  PROVE  IInv'
<1> DEFINE s == Current(r)
<1>0. Collecting(r) /\ \E items : Collects(r, items)
  BY DEF FetchFails, FallBack
<1>1. /\ s \in Keys
      /\ data' = [q \in Syncs |-> data'[q]] /\ next' \in [Syncs -> 1..(Len(Sources) + 1)]
      /\ DOMAIN data'[r] = DOMAIN data[r] \union {s}
      /\ DOMAIN data'[r] = {Sources[i] : i \in 1..(next'[r] - 1)}
      /\ \A q \in Syncs \ {r} : data'[q] = data[q] /\ next'[q] = next[q]
  BY <1>0, CollectsOne DEF IInv
<1>a. cache' = cache /\ step' = step /\ UNCHANGED <<watching, falcoList, merged, noCache, ghosts>>
  BY DEF FetchFails
<1>b. \/ s \in DOMAIN cache /\ txt' = txt /\ data'[r] = Put(data[r], s, Reread(cache[s]))
      \/ /\ s \notin DOMAIN cache \/ r \in noCache
         /\ txt' = Put(txt, s, {}) /\ data'[r] = Put(data[r], s, {})
  BY <1>0, CollectsOne DEF IInv, FetchFails, FallBack
<1>c. DOMAIN txt' = DOMAIN txt \union {s}
  BY <1>b, PutItems DEF IInv, TextInv
<1>2. StepInv'
  BY <1>0, <1>1, <1>a DEF IInv, StepInv, ghosts
<1>3. TextInv'
  BY <1>1, <1>a, <1>c DEF IInv, TextInv
<1>4. CollectedInv'
  <2>1. step'[r] = "collect"
    BY <1>0, <1>a DEF Collecting
  <2> QED
    BY <1>1, <1>a, <1>c, <2>1 DEF IInv, CollectedInv
<1>5. WatchInv'
  BY <1>1, <1>a, <1>c DEF IInv, WatchInv
<1>6. ASSUME ~disturbed' PROVE Undisturbed'
  <2>0. ~disturbed /\ StepInv /\ TextInv /\ SingleInv /\ CacheInv /\ DataInv /\ MergedInv /\ ListInv
    BY <1>6, <1>a DEF IInv, Undisturbed, ghosts
  <2>1. SingleInv'
    BY <1>a, <2>0 DEF SingleInv, Active
  <2>2. CacheInv'
    <3> SUFFICES ASSUME NEW k \in DOMAIN cache
                 PROVE  txt'[k] = txt[k]
      BY <1>a, <2>0 DEF CacheInv, ghosts
    <3>1. k \in DOMAIN txt
      BY <2>0 DEF TextInv
    <3> QED
      BY <1>b, <2>0, <3>1, PutItems DEF SingleInv
  <2>3. DataInv'
    <3>1. Active' = Active /\ Active = {r}
      BY <1>0, <1>a, <2>0 DEF Collecting, SingleInv, Active
    <3> SUFFICES ASSUME NEW k \in DOMAIN data'[r]
                 PROVE  /\ data'[r][k] \in {txt'[k], Reread(txt'[k])}
                        /\ k \notin emptied => (data'[r][k] = {} <=> k \notin DOMAIN cache)
      BY <1>a, <3>1 DEF DataInv, Reread, ghosts
    <3>2. CASE k = s
      <4>1. CASE s \in DOMAIN cache /\ txt' = txt /\ data'[r] = Put(data[r], s, Reread(cache[s]))
        <5>1. data'[r][s] = Reread(cache[s]) /\ txt'[s] = cache[s]
          BY <2>0, <4>1, PutItems DEF CacheInv
        <5>2. s \notin emptied => Reread(cache[s]) # {}
          BY <2>0, <4>1, RereadEmpty DEF CacheInv
        <5>3. Reread(txt'[s]) = Reread(cache[s])
          BY <5>1
        <5> QED
          BY <3>2, <4>1, <5>1, <5>2, <5>3
      <4>2. CASE s \notin DOMAIN cache /\ txt' = Put(txt, s, {}) /\ data'[r] = Put(data[r], s, {})
        BY <3>2, <4>2, PutItems
      <4> QED
        BY <1>b, <2>0, <4>1, <4>2 DEF SingleInv
    <3>3. CASE k # s
      <4>1. k \in DOMAIN data[r] /\ k \in DOMAIN txt
        BY <1>1, <3>3 DEF IInv, CollectedInv
      <4>2. txt'[k] = txt[k] /\ data'[r][k] = data[r][k]
        BY <1>b, <3>3, <4>1, PutItems
      <4>3. Reread(txt'[k]) = Reread(txt[k])
        BY <4>2
      <4>4. /\ data[r][k] \in {txt[k], Reread(txt[k])}
            /\ k \notin emptied => (data[r][k] = {} <=> k \notin DOMAIN cache)
        BY <2>0, <3>1, <4>1 DEF DataInv
      <4> QED
        BY <4>2, <4>3, <4>4
    <3> QED
      BY <3>2, <3>3
  <2>4. MergedInv'
    <3>1. r \in Active /\ step[r] = "collect" /\ Active' = Active
      BY <1>0, <1>a DEF Collecting, Active
    <3> QED
      BY <1>1, <1>a, <2>0, <3>1 DEF MergedInv
  <2>5. ListInv'
    BY <1>a, <2>0 DEF ListInv, ghosts
  <2> QED
    BY <2>1, <2>2, <2>3, <2>4, <2>5 DEF Undisturbed
<1> QED
  BY <1>2, <1>3, <1>4, <1>5, <1>6 DEF IInv

\* From here on only the datasets and the existence of the text files matter.
LEMMA CacheWriteFailsInv ==
  ASSUME Assumptions, IInv, NEW r \in Syncs, CacheWriteFails(r)
  PROVE  IInv'
<1> DEFINE s == Current(r)
<1>0. Collecting(r) /\ \E items : Collects(r, items)
  BY DEF CacheWriteFails, FallBack
<1>1. /\ s \in Keys
      /\ data' = [q \in Syncs |-> data'[q]] /\ next' \in [Syncs -> 1..(Len(Sources) + 1)]
      /\ DOMAIN data'[r] = DOMAIN data[r] \union {s}
      /\ DOMAIN data'[r] = {Sources[i] : i \in 1..(next'[r] - 1)}
      /\ \A q \in Syncs \ {r} : data'[q] = data[q] /\ next'[q] = next[q]
  BY <1>0, CollectsOne DEF IInv
<1>a. step' = step /\ disturbed' = TRUE /\ UNCHANGED <<watching, falcoList>>
  BY DEF CacheWriteFails
<1> DEFINE texts == Put(txt, s, Extracted(s, feed[s]))
<1>b. DOMAIN txt' = DOMAIN txt \union {s}
  <2>1. DOMAIN texts = DOMAIN txt \union {s}
    BY DEF Put
  <2>2. txt' = texts \/ txt' = Put(texts, s, {})
    BY DEF CacheWriteFails, FallBack
  <2>3. DOMAIN txt' = DOMAIN texts \/ DOMAIN txt' = DOMAIN texts \union {s}
    BY <2>2 DEF Put
  <2> QED
    BY <2>1, <2>3
<1>c. DOMAIN cache' \subseteq DOMAIN cache \union {s}
  <2>1. DOMAIN Put(cache, s, {}) = DOMAIN cache \union {s}
    BY DEF Put
  <2>2. cache' = cache \/ cache' = Put(cache, s, {})
    BY DEF CacheWriteFails
  <2> QED
    BY <2>1, <2>2
<1>2. StepInv'
  BY <1>1, <1>a DEF IInv, StepInv
<1>3. TextInv'
  BY <1>1, <1>a, <1>b, <1>c DEF IInv, TextInv
<1>4. CollectedInv'
  <2>1. step'[r] = "collect"
    BY <1>0, <1>a DEF Collecting
  <2> QED
    BY <1>1, <1>a, <1>b, <2>1 DEF IInv, CollectedInv
<1>5. WatchInv'
  BY <1>1, <1>a, <1>b DEF IInv, WatchInv
<1> QED
  BY <1>2, <1>3, <1>4, <1>5, <1>a DEF IInv

\* A source whose text file could not be written has one all the same: an older
\* one if it has a cached copy, else the stub.
LEMMA TextWriteFailsInv ==
  ASSUME Assumptions, IInv, NEW r \in Syncs, TextWriteFails(r)
  PROVE  IInv'
<1> DEFINE s == Current(r)
<1>0. Collecting(r) /\ \E items : Collects(r, items)
  BY DEF TextWriteFails, FallBack
<1>1. /\ s \in Keys
      /\ data' = [q \in Syncs |-> data'[q]] /\ next' \in [Syncs -> 1..(Len(Sources) + 1)]
      /\ DOMAIN data'[r] = DOMAIN data[r] \union {s}
      /\ DOMAIN data'[r] = {Sources[i] : i \in 1..(next'[r] - 1)}
      /\ \A q \in Syncs \ {r} : data'[q] = data[q] /\ next'[q] = next[q]
  BY <1>0, CollectsOne DEF IInv
<1>a. step' = step /\ disturbed' = TRUE /\ UNCHANGED <<watching, falcoList, cache>>
  BY DEF TextWriteFails
<1>b. DOMAIN txt' = DOMAIN txt \union {s}
  <2>1. PICK texts \in {txt, Put(txt, s, {})} : FallBack(r, texts, cache)
    BY DEF TextWriteFails
  <2>2. DOMAIN texts = DOMAIN txt \/ DOMAIN texts = DOMAIN txt \union {s}
    BY DEF Put
  <2>3. CASE s \in DOMAIN cache /\ txt' = texts
    <3>1. s \in DOMAIN txt
      BY <2>3 DEF IInv, TextInv
    <3> QED
      BY <2>2, <2>3, <3>1
  <2>4. CASE txt' = Put(texts, s, {})
    <3>1. DOMAIN txt' = DOMAIN texts \union {s}
      BY <2>4 DEF Put
    <3> QED
      BY <2>2, <3>1
  <2> QED
    BY <2>1, <2>3, <2>4 DEF FallBack
<1>2. StepInv'
  BY <1>1, <1>a DEF IInv, StepInv
<1>3. TextInv'
  BY <1>1, <1>a, <1>b DEF IInv, TextInv
<1>4. CollectedInv'
  <2>1. step'[r] = "collect"
    BY <1>0, <1>a DEF Collecting
  <2> QED
    BY <1>1, <1>a, <1>b, <2>1 DEF IInv, CollectedInv
<1>5. WatchInv'
  BY <1>1, <1>a, <1>b DEF IInv, WatchInv
<1> QED
  BY <1>2, <1>3, <1>4, <1>5, <1>a DEF IInv

\* All sources have been passed.
LEMMA EndCollectInv ==
  ASSUME Assumptions, IInv, NEW r \in Syncs, EndCollect(r)
  PROVE  IInv'
<1>2. StepInv'
  BY DEF IInv, EndCollect, files, ghosts, StepInv
<1>3. TextInv'
  BY DEF IInv, EndCollect, files, ghosts, TextInv, CollectedInv
<1>4. CollectedInv'
  <2>1. next[r] = Len(Sources) + 1
    BY SourceList DEF IInv, StepInv, EndCollect, ghosts
  <2>2. DOMAIN data[r] = Keys
    BY <2>1, SourceList DEF IInv, CollectedInv, Keys
  <2> QED
    BY <2>2 DEF IInv, StepInv, CollectedInv, EndCollect, files
<1>5. WatchInv'
  BY DEF IInv, EndCollect, files, ghosts, StepInv, TextInv, CollectedInv, WatchInv
<1>6. ASSUME ~disturbed' PROVE Undisturbed'
  <2>0. ~disturbed /\ StepInv /\ TextInv /\ SingleInv /\ CacheInv /\ DataInv /\ MergedInv /\ ListInv
    BY <1>6 DEF IInv, Undisturbed, StepInv, EndCollect, ghosts
  <2>1. SingleInv'
    BY <2>0 DEF EndCollect, files, ghosts, SingleInv, Active
  <2>2. CacheInv'
    BY <2>0 DEF EndCollect, files, ghosts, CacheInv
  <2>3. DataInv'
    BY <2>0 DEF EndCollect, files, ghosts, StepInv, SingleInv, DataInv, Active
  <2>4. MergedInv'
    BY <2>0 DEF EndCollect, files, ghosts, StepInv, SingleInv, DataInv, MergedInv, Active
  <2>5. ListInv'
    BY <2>0 DEF EndCollect, files, ghosts, DataInv, ListInv, Active
  <2> QED
    BY <2>1, <2>2, <2>3, <2>4, <2>5 DEF Undisturbed
<1> QED
  BY <1>2, <1>3, <1>4, <1>5, <1>6 DEF IInv

\* The merged file holds what the run has collected; no other run is under way.
LEMMA WriteDataInv ==
  ASSUME Assumptions, IInv, NEW r \in Syncs, WriteData(r)
  PROVE  IInv'
<1>2. StepInv'
  BY DEF IInv, WriteData, ghosts, StepInv
<1>3. TextInv'
  BY DEF IInv, WriteData, ghosts, TextInv, CollectedInv
<1>4. CollectedInv'
  BY DEF IInv, WriteData, ghosts, StepInv, TextInv, CollectedInv
<1>5. WatchInv'
  BY DEF IInv, WriteData, ghosts, StepInv, TextInv, CollectedInv, WatchInv
<1>6. ASSUME ~disturbed' PROVE Undisturbed'
  <2>0. ~disturbed /\ StepInv /\ TextInv /\ SingleInv /\ CacheInv /\ DataInv /\ MergedInv /\ ListInv
    BY <1>6 DEF IInv, Undisturbed, StepInv, WriteData, ghosts
  <2>1. SingleInv'
    BY <2>0 DEF WriteData, ghosts, SingleInv, Active
  <2>2. CacheInv'
    BY <2>0 DEF WriteData, ghosts, CacheInv
  <2>3. DataInv'
    BY <2>0 DEF WriteData, ghosts, StepInv, SingleInv, DataInv, Active
  <2>4. MergedInv'
    BY <2>0 DEF WriteData, ghosts, StepInv, SingleInv, DataInv, MergedInv, Active
  <2>5. ListInv'
    BY <2>0 DEF WriteData, ghosts, DataInv, ListInv, Active
  <2> QED
    BY <2>1, <2>2, <2>3, <2>4, <2>5 DEF Undisturbed
<1> QED
  BY <1>2, <1>3, <1>4, <1>5, <1>6 DEF IInv

\* So does Falco's list.
LEMMA WriteFalcoListInv ==
  ASSUME Assumptions, IInv, NEW r \in Syncs, WriteFalcoList(r)
  PROVE  IInv'
<1>2. StepInv'
  BY DEF IInv, WriteFalcoList, ghosts, StepInv
<1>3. TextInv'
  BY DEF IInv, WriteFalcoList, ghosts, TextInv, CollectedInv
<1>4. CollectedInv'
  BY DEF IInv, WriteFalcoList, ghosts, StepInv, TextInv, CollectedInv
<1>5. WatchInv'
  BY DEF IInv, WriteFalcoList, ghosts, StepInv, TextInv, CollectedInv, WatchInv
<1>6. ASSUME ~disturbed' PROVE Undisturbed'
  <2>0. ~disturbed /\ StepInv /\ TextInv /\ SingleInv /\ CacheInv /\ DataInv /\ MergedInv /\ ListInv
    BY <1>6 DEF IInv, Undisturbed, StepInv, WriteFalcoList, ghosts
  <2>1. SingleInv'
    BY <2>0 DEF WriteFalcoList, ghosts, SingleInv, Active
  <2>2. CacheInv'
    BY <2>0 DEF WriteFalcoList, ghosts, CacheInv
  <2>3. DataInv'
    BY <2>0 DEF WriteFalcoList, ghosts, StepInv, SingleInv, DataInv, Active
  <2>4. MergedInv'
    BY <2>0 DEF WriteFalcoList, ghosts, StepInv, SingleInv, DataInv, MergedInv, Active
  <2>5. ListInv'
    BY <2>0 DEF WriteFalcoList, ghosts, DataInv, ListInv, Active
  <2> QED
    BY <2>1, <2>2, <2>3, <2>4, <2>5 DEF Undisturbed
<1> QED
  BY <1>2, <1>3, <1>4, <1>5, <1>6 DEF IInv

\* All text files are there by now, and the merged files agree.
LEMMA WriteWatchListInv ==
  ASSUME Assumptions, IInv, NEW r \in Syncs, WriteWatchList(r)
  PROVE  IInv'
<1>2. StepInv'
  BY DEF IInv, WriteWatchList, ghosts, StepInv
<1>3. TextInv'
  BY DEF IInv, WriteWatchList, ghosts, TextInv, CollectedInv
<1>4. CollectedInv'
  BY DEF IInv, WriteWatchList, ghosts, StepInv, TextInv, CollectedInv
<1>5. WatchInv'
  BY DEF IInv, WriteWatchList, ghosts, StepInv, TextInv, CollectedInv, WatchInv
<1>6. ASSUME ~disturbed' PROVE Undisturbed'
  <2>0. ~disturbed /\ StepInv /\ TextInv /\ SingleInv /\ CacheInv /\ DataInv /\ MergedInv /\ ListInv
    BY <1>6 DEF IInv, Undisturbed, StepInv, WriteWatchList, ghosts
  <2>1. SingleInv'
    BY <2>0 DEF WriteWatchList, ghosts, SingleInv, Active
  <2>2. CacheInv'
    BY <2>0 DEF WriteWatchList, ghosts, CacheInv
  <2>3. DataInv'
    BY <2>0 DEF WriteWatchList, ghosts, StepInv, SingleInv, DataInv, Active
  <2>4. MergedInv'
    BY <2>0 DEF WriteWatchList, ghosts, StepInv, SingleInv, DataInv, MergedInv, Active
  <2>5. ListInv'
    BY <2>0 DEF WriteWatchList, ghosts, DataInv, ListInv, Active
  <2> QED
    BY <2>1, <2>2, <2>3, <2>4, <2>5 DEF Undisturbed
<1> QED
  BY <1>2, <1>3, <1>4, <1>5, <1>6 DEF IInv

\* The files that are cut short stay where they are.
LEMMA KilledInv ==
  ASSUME Assumptions, IInv, NEW r \in Syncs, Killed(r)
  PROVE  IInv'
<1>0. /\ r \in Active /\ step' = [step EXCEPT ![r] = "done"] /\ disturbed' = TRUE
      /\ UNCHANGED <<watching, next, data>>
  BY DEF Killed
<1>1. Collecting(r) => Current(r) \in Keys
  BY SourceList DEF IInv, StepInv, Collecting, Current, Keys
<1>2. /\ \/ txt' = txt /\ cache' = cache
         \/ \E items : txt' = Put(txt, Current(r), items) /\ cache' = cache /\ Collecting(r)
         \/ \E items, t : /\ txt' = Put(txt, Current(r), items) /\ Collecting(r)
                          /\ cache' = Put(cache, Current(r), t)
      /\ falcoList' \in {falcoList, Nothing}
  BY Zenon DEF Killed
<1>3. /\ DOMAIN txt \subseteq DOMAIN txt' /\ DOMAIN txt' \subseteq Keys
      /\ DOMAIN cache' \subseteq DOMAIN txt' /\ DOMAIN falcoList' \subseteq Keys
  <2>1. \/ DOMAIN txt' = DOMAIN txt /\ DOMAIN cache' = DOMAIN cache
        \/ /\ Collecting(r) /\ DOMAIN txt' = DOMAIN txt \union {Current(r)}
           /\ DOMAIN cache' \subseteq DOMAIN cache \union {Current(r)}
    BY <1>2 DEF Put
  <2>2. DOMAIN falcoList' = DOMAIN falcoList \/ DOMAIN falcoList' = {}
    BY <1>2 DEF Nothing
  <2> QED
    BY <1>1, <2>1, <2>2 DEF IInv, TextInv
<1>4. StepInv' /\ TextInv'
  BY <1>0, <1>3 DEF IInv, StepInv, TextInv
<1>5. CollectedInv' /\ WatchInv'
  BY <1>0, <1>3 DEF IInv, StepInv, TextInv, CollectedInv, WatchInv, Active
<1> QED
  BY <1>0, <1>4, <1>5 DEF IInv

-----------------------------------------------------------------------------
(* Theorems.                                                                *)

LEMMA NextInv ==
  ASSUME Assumptions, IInv, [Next]_vars
  PROVE  IInv'
<1>1. ASSUME NEW r \in Syncs, Sync(r) PROVE IInv'
  BY <1>1, BeginInv, FetchInv, FetchFailsInv, TextWriteFailsInv, CacheWriteFailsInv,
     EndCollectInv, WriteDataInv, WriteFalcoListInv, WriteWatchListInv, KilledInv DEF Sync
<1>2. ASSUME UNCHANGED <<files, process, ghosts>> PROVE IInv'
  BY <1>2 DEF files, process, ghosts, IInv, StepInv, TextInv, CollectedInv, WatchInv, Undisturbed,
     SingleInv, CacheInv, DataInv, MergedInv, ListInv, Active
<1>3. ASSUME NEW s \in Keys, Update(s) PROVE IInv'
  BY <1>2, <1>3 DEF Update
<1> QED
  BY <1>1, <1>2, <1>3 DEF Next, vars

\* What the three properties rest on: a run's dataset is in the files it has passed,
\* and the merged files are that dataset, as long as only the network fails.
THEOREM Invariance ==
  ASSUME Assumptions
  PROVE  Spec => []IInv
<1>1. Init => IInv
  BY InitInv
<1>2. IInv /\ [Next]_vars => IInv'
  BY NextInv
<1> QED
  BY <1>1, <1>2, PTL DEF Spec

\* osquery is never told to watch a path that is not there, however often a run is
\* killed, cannot write or overlaps another (render_osquery_fragment).
THEOREM NoMissingFile ==
  ASSUME Assumptions
  PROVE  Spec => []WatchedFilesExist
<1>1. IInv => WatchedFilesExist
  BY DEF IInv, WatchInv, WatchedFilesExist
<1> QED
  BY <1>1, Invariance, PTL

\* Falco's lists, the merged data and the text files agree between runs that only
\* the network disturbed (run).
THEOREM Agreement ==
  ASSUME Assumptions
  PROVE  Spec => []FilesAgree
<1>1. IInv => FilesAgree
  BY DEF IInv, Undisturbed, MergedInv, FilesAgree
<1> QED
  BY <1>1, Invariance, PTL

\* An outage empties no list of Falco's (run's except clause).
THEOREM NothingLostToOutages ==
  ASSUME Assumptions
  PROVE  Spec => OutageKeepsIndicators
<1> DEFINE Kept == \A s \in DOMAIN falcoList \ emptied :
                     ~disturbed' /\ falcoList[s] # {} => falcoList'[s] # {}
<1>1. ASSUME IInv, NEW r \in Syncs, WriteFalcoList(r) PROVE Kept
  <2> SUFFICES ASSUME NEW s \in DOMAIN falcoList \ emptied, ~disturbed', falcoList[s] # {}
               PROVE  falcoList'[s] # {}
    OBVIOUS
  <2>1. ListInv /\ DataInv /\ r \in Active /\ falcoList' = data[r]
    BY <1>1 DEF WriteFalcoList, ghosts, IInv, Undisturbed, Active
  <2>2. s \in DOMAIN data[r]
    BY <1>1 DEF WriteFalcoList, IInv, TextInv, CollectedInv
  <2> QED
    BY <2>1, <2>2 DEF ListInv, DataInv
<1>2. ASSUME NEW r \in Syncs, Killed(r) PROVE Kept
  BY <1>2 DEF Killed
<1>3. ASSUME UNCHANGED falcoList PROVE Kept
  BY <1>3
<1>4. IInv /\ [Next]_vars => [Kept]_vars
  BY <1>1, <1>2, <1>3 DEF Next, Sync, Begin, Fetch, FetchFails, TextWriteFails, CacheWriteFails,
     EndCollect, WriteData, WriteWatchList, Update, files, vars
<1> QED
  BY <1>4, Invariance, PTL DEF Spec, OutageKeepsIndicators

-----------------------------------------------------------------------------
(* The types of what the files and the datasets hold.                       *)

\* Lists of indicators, by source.
Lists(f) == DOMAIN f \subseteq Keys /\ \A s \in DOMAIN f : f[s] \subseteq Indicators

FileLists == Lists(txt) /\ Lists(cache) /\ Lists(merged) /\ Lists(falcoList)
FeedType == feed \in [Keys -> SUBSET {"plain", "comma"}] /\ emptied \subseteq Keys
ListInvs == FileLists /\ FeedType /\ \A r \in Syncs : Lists(data[r])
CountInv == noCache \subseteq Syncs /\ watching \in BOOLEAN
            /\ updates \in 0..MaxUpdates /\ faults \in 0..MaxFaults

\* A list written keeps the lists lists.
LEMMA PutLists ==
  ASSUME NEW f, Lists(f), NEW s \in Keys, NEW items \in SUBSET Indicators
  PROVE  Lists(Put(f, s, items))
<1> DEFINE g == Put(f, s, items)
<1>1. DOMAIN g = DOMAIN f \union {s} /\ g[s] = items /\ \A j \in DOMAIN f \ {s} : g[j] = f[j]
  BY DEF Put
<1> HIDE DEF g
<1>2. Lists(g)
  BY <1>1 DEF Lists
<1> QED
  BY <1>2 DEF g

\* What the conversions make of indicators are indicators.
LEMMA ConvertedItems ==
  /\ \A items \in SUBSET Indicators : Reread(items) \in SUBSET Indicators
  /\ FeedType => \A s \in Keys : Extracted(s, feed[s]) \in SUBSET Indicators
  BY DEF Reread, Extracted, FeedType, Indicators

\* A run that takes up one more list holds lists still.
LEMMA CollectsLists ==
  ASSUME Assumptions, IInv, NEW r \in Syncs, Collecting(r), NEW items \in SUBSET Indicators,
         Collects(r, items), \A q \in Syncs : Lists(data[q])
  PROVE  \A q \in Syncs : Lists(data'[q])
<1>1. /\ Current(r) \in Keys /\ data'[r] = Put(data[r], Current(r), items)
      /\ \A q \in Syncs \ {r} : data'[q] = data[q]
  BY CollectsOne DEF IInv
<1>2. Lists(data'[r])
  BY <1>1, PutLists
<1> QED
  BY <1>1, <1>2

\* Nor does the except clause bring in anything else.
LEMMA FallBackLists ==
  ASSUME Assumptions, IInv, NEW r \in Syncs, Collecting(r), NEW texts, NEW caches,
         FallBack(r, texts, caches), Lists(texts), Lists(caches), \A q \in Syncs : Lists(data[q])
  PROVE  Lists(txt') /\ \A q \in Syncs : Lists(data'[q])
<1>1. Current(r) \in Keys
  BY SourceList DEF Assumptions, IInv, StepInv, Collecting, Current
<1>2. \/ /\ Current(r) \in DOMAIN caches
         /\ Collects(r, Reread(caches[Current(r)]))
      \/ Collects(r, {})
  BY DEF FallBack
<1>3. Current(r) \in DOMAIN caches => Reread(caches[Current(r)]) \in SUBSET Indicators
  BY ConvertedItems DEF Lists
<1>4. txt' = texts \/ txt' = Put(texts, Current(r), {})
  BY DEF FallBack
<1>5. Lists(txt')
  BY <1>1, <1>4, PutLists
<1> QED
  BY <1>2, <1>3, <1>5, CollectsLists

\* A run writes lists of indicators only.
LEMMA TypeStep ==
  ASSUME Assumptions, IInv, ListInvs, CountInv, NEW r \in Syncs, Sync(r)
  PROVE  ListInvs' /\ CountInv'
<1> DEFINE s == Current(r)
<1> USE DEF ListInvs, FileLists, FeedType
<1>0. Collecting(r) => s \in Keys /\ Extracted(s, feed[s]) \in SUBSET Indicators
  <2>1. Collecting(r) => s \in Keys
    BY SourceList DEF Assumptions, IInv, StepInv, Collecting, Current
  <2> QED
    BY <2>1, ConvertedItems
<1>1. CountInv'
  <2> USE DEF CountInv, files, ghosts
  <2>1. CASE Begin(r)
    BY <2>1 DEF Begin
  <2>2. CASE Fetch(r) \/ FetchFails(r) \/ EndCollect(r) \/ WriteData(r) \/ WriteFalcoList(r)
    BY <2>2 DEF Fetch, FetchFails, EndCollect, WriteData, WriteFalcoList
  <2>3. CASE WriteWatchList(r)
    BY <2>3 DEF WriteWatchList
  <2>4. CASE TextWriteFails(r) \/ CacheWriteFails(r) \/ Killed(r)
    <3>1. /\ UNCHANGED <<noCache, watching, updates>>
          /\ faults < MaxFaults /\ faults' = faults + 1
      BY <2>4 DEF TextWriteFails, CacheWriteFails, Killed
    <3> QED
      BY <3>1 DEF Assumptions
  <2> QED
    BY <2>1, <2>2, <2>3, <2>4 DEF Sync
<1>2. FeedType'
  BY <1>0 DEF Sync, Begin, Fetch, FetchFails, TextWriteFails, CacheWriteFails, EndCollect, WriteData,
     WriteFalcoList, WriteWatchList, Killed, files, process, ghosts
<1> HIDE DEF FeedType
<1>3. CASE Fetch(r)
  <2>1. /\ Collecting(r) /\ txt' = Put(txt, s, Extracted(s, feed[s]))
        /\ cache' = Put(cache, s, Extracted(s, feed[s])) /\ Collects(r, Extracted(s, feed[s]))
        /\ UNCHANGED <<merged, falcoList>>
    BY <1>3 DEF Fetch
  <2>2. Lists(txt') /\ Lists(cache')
    BY <1>0, <2>1, PutLists
  <2> QED
    BY <1>0, <1>1, <1>2, <2>1, <2>2, CollectsLists
<1>4. CASE FetchFails(r)
  BY <1>1, <1>2, <1>4, FallBackLists DEF FetchFails
<1>5. CASE CacheWriteFails(r)
  <2> DEFINE texts == Put(txt, s, Extracted(s, feed[s]))
  <2>1. /\ Collecting(r) /\ cache' \in {cache, Put(cache, s, {})}
        /\ FallBack(r, texts, cache') /\ UNCHANGED <<merged, falcoList>>
    BY <1>5 DEF CacheWriteFails
  <2>2. Lists(texts) /\ Lists(cache')
    BY <1>0, <2>1, PutLists
  <2> HIDE DEF texts
  <2> QED
    BY <1>1, <1>2, <2>1, <2>2, FallBackLists
<1>8. CASE TextWriteFails(r)
  <2>1. PICK texts \in {txt, Put(txt, s, {})} : FallBack(r, texts, cache)
    BY <1>8 DEF TextWriteFails
  <2>2. Collecting(r) /\ UNCHANGED <<cache, merged, falcoList>>
    BY <1>8 DEF TextWriteFails
  <2>3. Lists(texts)
    BY <1>0, <2>2, PutLists
  <2> QED
    BY <1>1, <1>2, <2>1, <2>2, <2>3, FallBackLists
<1>6. CASE Killed(r)
  <2>1. Lists(Nothing)
    BY DEF Nothing, Lists
  <2>2. Collecting(r) => Lists(Put(txt, s, {})) /\ Lists(Put(txt, s, Extracted(s, feed[s])))
                         /\ Lists(Put(cache, s, {}))
    BY <1>0, PutLists
  <2>3. /\ \/ txt' = txt
           \/ Collecting(r) /\ txt' = Put(txt, s, {})
           \/ Collecting(r) /\ txt' = Put(txt, s, Extracted(s, feed[s]))
        /\ cache' = cache \/ (Collecting(r) /\ cache' = Put(cache, s, {}))
    BY <1>6, Zenon DEF Killed
  <2>4. /\ merged' = merged \/ merged' = Nothing
        /\ falcoList' = falcoList \/ falcoList' = Nothing
        /\ data' = data
    BY <1>6, Zenon DEF Killed
  <2> QED
    BY <1>1, <1>2, <2>1, <2>2, <2>3, <2>4
<1>7. CASE Begin(r) \/ EndCollect(r) \/ WriteData(r) \/ WriteFalcoList(r) \/ WriteWatchList(r)
  <2>1. /\ UNCHANGED <<txt, cache, data>>
        /\ merged' \in {merged, data[r]} /\ falcoList' \in {falcoList, data[r]}
    BY <1>7 DEF Begin, EndCollect, WriteData, WriteFalcoList, WriteWatchList, files
  <2> QED
    BY <1>1, <1>2, <2>1
<1> QED
  BY <1>3, <1>4, <1>5, <1>6, <1>7, <1>8 DEF Sync

\* The feeds change within their type, and nothing else does.
LEMMA TypeOther ==
  ASSUME Assumptions, ListInvs, CountInv, (\E s \in Keys : Update(s)) \/ UNCHANGED vars
  PROVE  ListInvs' /\ CountInv'
<1>1. UNCHANGED <<files, process, ghosts, faults>>
  BY DEF Update, vars
<1>2. FeedType' /\ updates' \in 0..MaxUpdates
  BY <1>1 DEF Update, vars, ghosts, ListInvs, FeedType, CountInv, Assumptions
<1> QED
  BY <1>1, <1>2 DEF files, process, ghosts, ListInvs, FileLists, CountInv

\* The variables keep their types (all of run's writes and the lists they make).
THEOREM TypeCorrect ==
  ASSUME Assumptions
  PROVE  Spec => []TypeOK
<1>1. Init => ListInvs /\ CountInv
  <2>1. Lists(Nothing)
    BY DEF Lists, Nothing
  <2>2. ASSUME Init PROVE FeedType
    BY <2>2 DEF Init, FeedType
  <2>3. ASSUME Init PROVE ListInvs
    BY <2>1, <2>2, <2>3 DEF Init, ListInvs, FileLists
  <2>4. ASSUME Init PROVE CountInv
    <3>1. 0 \in 0..MaxUpdates /\ 0 \in 0..MaxFaults
      BY DEF Assumptions
    <3> QED
      BY <2>4, <3>1 DEF Init, CountInv
  <2> QED
    BY <2>3, <2>4
<1>2. IInv /\ ListInvs /\ CountInv /\ [Next]_vars => ListInvs' /\ CountInv'
  BY TypeStep, TypeOther DEF Next
<1>3. IInv /\ ListInvs /\ CountInv => TypeOK
  BY DEF IInv, StepInv, CollectedInv, ListInvs, FileLists, FeedType, Lists, CountInv, TypeOK
<1> QED
  BY <1>1, <1>2, <1>3, Invariance, PTL DEF Spec
===============================================================================
