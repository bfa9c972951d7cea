---------------------------- MODULE ThreatIntelSync ----------------------------
(***************************************************************************)
(* The threat-intelligence sync (tools/sync_threat_intel.py): fetch every   *)
(* source, fall back to the copy cached by the last successful fetch, and   *)
(* write one list per source and three files that merge them: the data,     *)
(* Falco's lists and osquery's watch list.  Nobody locks the directory.     *)
(***************************************************************************)
EXTENDS Naturals, Sequences

CONSTANTS
  Syncs,          \* sync commands
  Sources,        \* the sources, in the order of DEFAULT_SOURCES
  MaxUpdates,     \* bound: changes of a feed
  MaxFaults       \* bound: writes that fail and runs that are killed

\* Indicators by what the conversions make of them: one without a comma, one with
\* (most user agents have one), and what is left of it when its line is read as CSV.
Indicators == {"plain", "comma", "cut"}
Normalized == {"tor_ips"}           \* sources with addresses, which have no comma

VARIABLES
  feed,           \* [source -> what its URL serves]
  txt, cache,     \* <source>.txt, <source>.cache: functions on the files there are
  merged,         \* threat_intel.json: [source -> indicators]
  falcoList,      \* the lists of falco_rules.threat_intel.local.yaml
  watching,       \* is there an osquery.threat_intel.conf?
  step,           \* [Syncs -> where the command is]
  next,           \* [Syncs -> the source it is about to fetch]
  data,           \* [Syncs -> the dataset so far]
  noCache,        \* commands with --no-cache
  disturbed,      \* has a run overlapped another, been cut short or had --no-cache?
  emptied,        \* sources whose URL ever answered with nothing of use
  updates, faults

files == <<txt, cache, merged, falcoList, watching>>
process == <<step, next, data, noCache>>
ghosts == <<disturbed, emptied>>
vars == <<feed, files, process, ghosts, updates, faults>>

Keys == {Sources[i] : i \in DOMAIN Sources}
Nothing == [s \in {} |-> {}]
Put(f, s, items) == [k \in DOMAIN f \union {s} |-> IF k = s THEN items ELSE f[k]]

TypeOK ==
  /\ feed \in [Keys -> SUBSET {"plain", "comma"}]
  /\ \A f \in {txt, cache, merged, falcoList} :
       DOMAIN f \subseteq Keys /\ \A s \in DOMAIN f : f[s] \subseteq Indicators
  /\ watching \in BOOLEAN /\ disturbed \in BOOLEAN
  /\ step \in [Syncs -> {"idle", "collect", "data", "falco", "osquery", "done"}]
  /\ next \in [Syncs -> 1..(Len(Sources) + 1)]
  /\ \A r \in Syncs : step[r] \in {"data", "falco", "osquery"} => DOMAIN data[r] = Keys
  /\ noCache \subseteq Syncs
  /\ emptied \subseteq Keys
  /\ updates \in 0..MaxUpdates /\ faults \in 0..MaxFaults

Init ==
  /\ feed = [s \in Keys |-> {"plain", "comma"}]
  /\ txt = Nothing /\ cache = Nothing /\ merged = Nothing /\ falcoList = Nothing
  /\ watching = FALSE
  /\ step = [r \in Syncs |-> "idle"]
  /\ next = [r \in Syncs |-> 1]
  /\ data = [r \in Syncs |-> Nothing]
  /\ noCache = {}
  /\ disturbed = FALSE /\ emptied = {}
  /\ updates = 0 /\ faults = 0

-----------------------------------------------------------------------------
\* parse_lines, extract_source_items and the normalizer, of a fetched CSV file.
Extracted(s, raw) == IF s \in Normalized THEN raw \ {"comma"} ELSE raw

\* The same, of a list of plain lines: a line with a comma loses what follows it.
Reread(items) == {IF i = "comma" THEN "cut" ELSE i : i \in items}

Current(r) == Sources[next[r]]
Collecting(r) == step[r] = "collect" /\ next[r] <= Len(Sources)
Active == {r \in Syncs : step[r] \notin {"idle", "done"}}

\* run: a dry run and a --source-url without "=" end at once.
Begin(r) ==
  /\ step[r] = "idle"
  /\ \/ step' = [step EXCEPT ![r] = "done"] /\ UNCHANGED <<noCache, disturbed>>
     \/ /\ step' = [step EXCEPT ![r] = "collect"]
        /\ \E b \in BOOLEAN :
             /\ noCache' = IF b THEN noCache \union {r} ELSE noCache
             /\ disturbed' = (disturbed \/ b \/ Active # {})
  /\ UNCHANGED <<feed, files, next, data, emptied, updates, faults>>

Collects(r, items) == /\ data' = [data EXCEPT ![r] = Put(@, Current(r), items)]
                      /\ next' = [next EXCEPT ![r] = @ + 1]

Fetch(r) ==
  LET s == Current(r)
      items == Extracted(s, feed[s])
  IN /\ Collecting(r)
     /\ txt' = Put(txt, s, items)
     /\ cache' = Put(cache, s, items)
     /\ Collects(r, items)
     /\ emptied' = IF items = {} THEN emptied \union {s} ELSE emptied
     /\ UNCHANGED <<feed, merged, falcoList, watching, step, noCache, disturbed, updates, faults>>

StubsAlways(r, texts, caches) ==                                    \* faulty FallBack
  LET s == Current(r)
  IN /\ txt' = Put(texts, s, {})
     /\ Collects(r, IF s \in DOMAIN caches /\ r \notin noCache THEN Reread(caches[s]) ELSE {})

NoStub(r, texts, caches) ==                                         \* faulty FallBack
  LET s == Current(r)
  IN /\ txt' = texts
     /\ Collects(r, IF s \in DOMAIN caches /\ r \notin noCache THEN Reread(caches[s]) ELSE {})

NoFallBack(r, texts, caches) ==                                     \* faulty FallBack
  txt' = Put(texts, Current(r), {}) /\ Collects(r, {})

\* The except clause, when the files are these: the cached copy, which leaves the
\* text file alone, or an empty stub.
FallBack(r, texts, caches) ==
  LET s == Current(r)
  IN \/ /\ s \in DOMAIN caches /\ r \notin noCache
        /\ txt' = texts /\ Collects(r, Reread(caches[s]))
     \/ /\ s \notin DOMAIN caches \/ r \in noCache
        /\ txt' = Put(texts, s, {}) /\ Collects(r, {})

FetchFails(r) ==
  /\ Collecting(r)
  /\ FallBack(r, txt, cache)
  /\ UNCHANGED <<feed, cache, merged, falcoList, watching, step, noCache, ghosts, updates, faults>>

\* The text file cannot be written, or is only truncated: the except clause, which
\* leaves it so when there is a cached copy.
TextWriteFails(r) ==
  LET s == Current(r)
  IN /\ Collecting(r) /\ faults < MaxFaults
     /\ \E texts \in {txt, Put(txt, s, {})} : FallBack(r, texts, cache)
     /\ disturbed' = TRUE /\ faults' = faults + 1
     /\ UNCHANGED <<feed, cache, merged, falcoList, watching, step, noCache, emptied, updates>>

\* The text file is written and the cache is not, or only truncated.
CacheWriteFails(r) ==
  LET s == Current(r)
  IN /\ Collecting(r) /\ faults < MaxFaults
     /\ cache' \in {cache, Put(cache, s, {})}
     /\ FallBack(r, Put(txt, s, Extracted(s, feed[s])), cache')
     /\ disturbed' = TRUE /\ faults' = faults + 1
     /\ UNCHANGED <<feed, merged, falcoList, watching, step, noCache, emptied, updates>>

EndCollect(r) ==
  /\ step[r] = "collect" /\ next[r] > Len(Sources)
  /\ step' = [step EXCEPT ![r] = "data"]
  /\ UNCHANGED <<feed, files, next, data, noCache, ghosts, updates, faults>>

WriteData(r) ==
  /\ step[r] = "data"
  /\ merged' = data[r]
  /\ step' = [step EXCEPT ![r] = "falco"]
  /\ UNCHANGED <<feed, txt, cache, falcoList, watching, next, data, noCache, ghosts, updates, faults>>

\* render_falco_fragment: one list for every source.
WriteFalcoList(r) ==
  /\ step[r] = "falco"
  /\ falcoList' = data[r]
  /\ step' = [step EXCEPT ![r] = "osquery"]
  /\ UNCHANGED <<feed, txt, cache, merged, watching, next, data, noCache, ghosts, updates, faults>>

\* render_osquery_fragment: the paths of all text files.
WriteWatchList(r) ==
  /\ step[r] = "osquery"
  /\ watching' = TRUE
  /\ step' = [step EXCEPT ![r] = "done"]
  /\ UNCHANGED <<feed, txt, cache, merged, falcoList, next, data, noCache, ghosts, updates, faults>>

\* A run that is killed, or cannot write, leaves the file it is writing empty.
Killed(r) ==
  /\ r \in Active /\ faults < MaxFaults
  /\ \/ UNCHANGED <<txt, cache, merged, falcoList>>
     \/ Collecting(r) /\ txt' = Put(txt, Current(r), {}) /\ UNCHANGED <<cache, merged, falcoList>>
     \/ /\ Collecting(r)
        /\ txt' = Put(txt, Current(r), Extracted(Current(r), feed[Current(r)]))
        /\ cache' = Put(cache, Current(r), {}) /\ UNCHANGED <<merged, falcoList>>
     \/ step[r] = "data" /\ merged' = Nothing /\ UNCHANGED <<txt, cache, falcoList>>
     \/ step[r] = "falco" /\ falcoList' = Nothing /\ UNCHANGED <<txt, cache, merged>>
  /\ step' = [step EXCEPT ![r] = "done"]
  /\ disturbed' = TRUE /\ faults' = faults + 1
  /\ UNCHANGED <<feed, watching, next, data, noCache, emptied, updates>>

\* The list's maintainers; a page that is no CSV has nothing of use in it.
Update(s) ==
  /\ updates < MaxUpdates
  /\ \E raw \in {{}, {"plain"}, {"plain", "comma"}} \ {feed[s]} : feed' = [feed EXCEPT ![s] = raw]
  /\ updates' = updates + 1
  /\ UNCHANGED <<files, process, ghosts, faults>>

Sync(r) ==
  \/ Begin(r) \/ Fetch(r) \/ FetchFails(r) \/ TextWriteFails(r) \/ CacheWriteFails(r)
  \/ EndCollect(r) \/ WriteData(r) \/ WriteFalcoList(r) \/ WriteWatchList(r) \/ Killed(r)

Next == (\E r \in Syncs : Sync(r)) \/ (\E s \in Keys : Update(s))

Spec == Init /\ [][Next]_vars

-----------------------------------------------------------------------------
(* Properties.                                                              *)

\* Between runs that only the network disturbed, Falco's lists, the merged data
\* and the text files osquery watches say the same, up to what reading a cached
\* list again costs.
FilesAgree ==
  Active = {} /\ ~disturbed =>
    /\ merged = falcoList
    /\ \A s \in DOMAIN falcoList : falcoList[s] \in {txt[s], Reread(txt[s])}

\* Every path osquery is told to watch exists, after any faults.
WatchedFilesExist == watching => DOMAIN txt = Keys

\* Losing the network takes no indicators away: a list of Falco's gets empty only
\* when the source itself answered with nothing, once.
OutageKeepsIndicators ==
  [][\A s \in DOMAIN falcoList \ emptied :
       ~disturbed' /\ falcoList[s] # {} => falcoList'[s] # {}]_vars
=============================================================================
