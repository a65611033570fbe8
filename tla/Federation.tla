----------------------------- MODULE Federation -----------------------------
(* packages/vais-web/packages/federation: the remote loader, its container   *)
(* and the shared dependencies (remote.ts), the host (host.ts), its events   *)
(* (event-bus.ts) and synchronised stores (state.ts).                        *)
(*                                                                           *)
(* A remote is deployed in versions; a config, a manifest and a module are   *)
(* the version they came from.  One remote with one module is followed; a    *)
(* config may fail to expose it.  A step is one callback: the loads await    *)
(* between them, so calls of the application fall in between.                *)
EXTENDS Naturals, Sequences, FiniteSets, SequencesExt

CONSTANTS Loads,       \* calls of load() / loadRemote(), each made at most once
          MaxDeploy,   \* bound: versions deployed
          Hidden,      \* versions whose config does not expose the module
          StateKeys, Values \* of the synchronised stores

ASSUME FederationAssumption == MaxDeploy \in Nat \ {0} /\ Values # {}

VARIABLES fl,  \* remote loader
          fd,  \* shared dependencies and a remote container
          fh,  \* host
          fs   \* the two stores, their listeners and the sync between them

fedVars == <<fl, fd, fh, fs>>
NoVersion == 0
NoLoad == [pc |-> "idle", config |-> NoVersion, got |-> NoVersion]

----------------------------------------------------------------------------
(* createRemoteLoader                                                        *)
FLInit == fl = [deployed |-> 1, manifest |-> NoVersion, module |-> NoVersion,
                calls |-> [l \in Loads |-> NoLoad],
                floor |-> NoVersion,  \* history: deployed at the last invalidate()
                under |-> {}]         \* history: the versions loads brought then
FDInit == fd = [shared |-> <<>>, container |-> NoVersion, scope |-> NoVersion]

Deploy == fl.deployed < MaxDeploy /\ fl' = [fl EXCEPT !.deployed = @ + 1]

\* After ensureManifest: reject, or import the module.
WithManifest(s, l, v) ==
  [s EXCEPT !.calls[l].pc = IF v \in Hidden THEN "failed" ELSE "importing",
            !.calls[l].got = v]

\* load() up to its first await.
StartLoad(l) ==
  /\ fl.calls[l].pc = "idle"
  /\ LET s == [fl EXCEPT !.calls[l] = [NoLoad EXCEPT !.config = fl.deployed]]
     IN fl' = IF fl.module # NoVersion
              THEN [s EXCEPT !.calls[l].pc = "done", !.calls[l].got = fl.module]
              ELSE IF fl.manifest # NoVersion THEN WithManifest(s, l, fl.manifest)
              ELSE [s EXCEPT !.calls[l].pc = "fetching"]

ManifestFetched(l) ==
  /\ fl.calls[l].pc = "fetching"
  /\ LET v == fl.calls[l].config IN fl' = WithManifest([fl EXCEPT !.manifest = v], l, v)

ModuleImported(l) ==
  /\ fl.calls[l].pc = "importing"
  /\ fl' = [fl EXCEPT !.calls[l].pc = "done", !.module = fl.calls[l].got]

\* The versions of the configs and manifests that loads are under way with.
UnderWay(s) == {s.calls[l].config : l \in {k \in Loads : s.calls[k].pc = "fetching"}}
               \cup {s.calls[l].got : l \in {k \in Loads : s.calls[k].pc = "importing"}}
\* Broken variant: the manifest stays cached.
InvalidateModuleOnly ==
  fl' = [fl EXCEPT !.module = NoVersion, !.floor = fl.deployed, !.under = UnderWay(fl)]
\* Forgets what is cached, not what is under way.
InvalidateRemote ==
  fl' = [fl EXCEPT !.manifest = NoVersion, !.module = NoVersion,
                   !.floor = fl.deployed, !.under = UnderWay(fl)]

\* SharedDependencyManager.register, with the version as the module.
Register(v, singleton) ==
  LET old == {k \in 1 .. Len(fd.shared) : fd.shared[k].version = v}
      entry == [version |-> v, singleton |-> singleton]
  IN fd' = [fd EXCEPT !.shared = IF old = {} THEN Append(@, entry)
                                 ELSE [@ EXCEPT ![CHOOSE k \in old : TRUE] = entry]]

\* resolve: the last entry, or the first whose version is in the range.
ResolveShared(shared, range) ==
  LET ok == {k \in DOMAIN shared : shared[k].version \in range}
  IN IF ok = {} THEN NoVersion ELSE shared[CHOOSE k \in ok : \A j \in ok : k <= j].version
ResolveLatest(shared) == IF shared = <<>> THEN NoVersion ELSE Last(shared).version

\* RemoteContainer: init replaces the scope; get's factory caches exports
\* with the scope of the time it first ran.
ContainerInit == fd.scope < MaxDeploy /\ fd' = [fd EXCEPT !.scope = @ + 1]
ContainerGet == /\ fd.container = NoVersion
                /\ fd' = [fd EXCEPT !.container = fd.scope]

FLNext == /\ \/ Deploy \/ InvalidateRemote
             \/ \E l \in Loads : StartLoad(l) \/ ManifestFetched(l) \/ ModuleImported(l)
          /\ UNCHANGED <<fd, fh, fs>>
FDNext == /\ \/ ContainerInit \/ ContainerGet
             \/ \E v \in 1 .. MaxDeploy, b \in BOOLEAN : Register(v, b)
          /\ UNCHANGED <<fl, fh, fs>>

----------------------------------------------------------------------------
(* createFederationHost.loadRemote and the events it emits                   *)
FHInit == fh = [registered |-> NoVersion, cache |-> NoVersion,
                calls |-> [l \in Loads |-> NoLoad],
                told |-> [l \in Loads |-> <<>>],
                bus |-> <<>>]  \* handlers of one event: "on" or "once", in order

RegisterRemote == /\ fh.registered < MaxDeploy
                  /\ fh' = [fh EXCEPT !.registered = @ + 1]

LoadRemote(l) ==
  /\ fh.calls[l].pc = "idle"
  /\ LET v == fh.registered
     IN fh' = IF fh.cache # NoVersion
              THEN [fh EXCEPT !.calls[l] = [@ EXCEPT !.pc = "done", !.got = fh.cache]]
              ELSE IF v = NoVersion
              THEN [fh EXCEPT !.calls[l].pc = "failed", !.told[l] = <<"error">>]
              ELSE [fh EXCEPT !.calls[l] = [@ EXCEPT !.pc = "importing", !.config = v],
                              !.told[l] = <<"loading">>]

RemoteLoaded(l) ==
  /\ fh.calls[l].pc = "importing"
  /\ LET v == fh.calls[l].config
     IN fh' = IF v \in Hidden
              THEN [fh EXCEPT !.calls[l].pc = "failed", !.told[l] = Append(@, "error")]
              ELSE [fh EXCEPT !.calls[l].pc = "done", !.calls[l].got = v, !.cache = v,
                              !.told[l] = Append(@, "loaded")]

\* on / once push a handler, off removes the first that matches; emit drops
\* the "once" handlers before it calls those registered when it began.
On(kind) == Len(fh.bus) < 3 /\ fh' = [fh EXCEPT !.bus = Append(@, kind)]
Off(kind) == /\ Contains(fh.bus, kind)
             /\ fh' = [fh EXCEPT !.bus = RemoveFirst(@, kind)]
Emit == fh' = [fh EXCEPT !.bus = SelectSeq(@, LAMBDA k : k = "on")]

FHNext == /\ \/ RegisterRemote \/ Emit
             \/ \E l \in Loads : LoadRemote(l) \/ RemoteLoaded(l)
             \/ \E k \in {"on", "once"} : On(k) \/ Off(k)
          /\ UNCHANGED <<fl, fd, fs>>

----------------------------------------------------------------------------
(* createSharedStore and syncStores, bidirectional                           *)
FSInit == LET a == [k \in StateKeys |-> CHOOSE v \in Values : TRUE]
          IN fs = [at |-> <<a, a>>, prev |-> <<a, a>>, synced |-> FALSE, set |-> {}]

Delta(new, prev) == {k \in StateKeys : new[k] # prev[k]}
Merged(store, new, ks) == [k \in StateKeys |-> IF k \in ks THEN new[k] ELSE store[k]]

StartSync == /\ ~fs.synced
             /\ fs' = [fs EXCEPT !.synced = TRUE, !.prev = fs.at, !.set = {}]
StopSync == fs.synced /\ fs' = [fs EXCEPT !.synced = FALSE]

\* setState on store i: its sync listener passes the delta to the other
\* store, whose listener sees no difference to pass back.
Propagate(s, i, new) ==
  LET j == 3 - i
      ks == Delta(new, s.prev[i])
      there == Merged(s.at[j], new, ks)
      back == Delta(there, s.prev[j])
      here == Merged(new, there, back)
  IN IF ~s.synced \/ ks = {} THEN [s EXCEPT !.at[i] = new]
     ELSE IF back = {} THEN [s EXCEPT !.at[i] = new, !.prev[i] = new, !.at[j] = there]
     ELSE [s EXCEPT !.at = [x \in 1 .. 2 |-> IF x = i THEN here ELSE there],
                    !.prev = [x \in 1 .. 2 |-> IF x = i THEN here ELSE there]]

SetState(i, k, v) ==
  fs' = [Propagate(fs, i, [fs.at[i] EXCEPT ![k] = v]) EXCEPT
           !.set = IF fs.at[i][k] = v THEN @ ELSE @ \cup {k}]

FSNext == /\ \/ StartSync \/ StopSync
             \/ \E i \in 1 .. 2, k \in StateKeys, v \in Values : SetState(i, k, v)
          /\ UNCHANGED <<fl, fd, fh>>

----------------------------------------------------------------------------
FedTypeOK == /\ fl.module \in 0 .. MaxDeploy /\ fl.manifest \in 0 .. MaxDeploy
             /\ fh.cache \in 0 .. MaxDeploy
             /\ fs.at \in [1 .. 2 -> [StateKeys -> Values]]

\* After invalidate() what the loader serves and what its loads bring is no
\* older than what was deployed when it was called, or is the very version that
\* a load under way then had asked with: such a load writes its manifest and
\* its module into the emptied caches (remote.ts:497, 521, 529).
FreshAfterInvalidate ==
  \A v \in {fl.manifest, fl.module} \cup UnderWay(fl) :
    v # NoVersion => v >= fl.floor \/ v \in fl.under

\* Every loadRemote that is not answered from the cache reports loading and
\* then one outcome, and at most one version of a package is shared twice.
HostReports ==
  /\ \A l \in Loads :
       fh.told[l] \in {<<>>, <<"error">>, <<"loading">>, <<"loading", "loaded">>,
                       <<"loading", "error">>}
  /\ \A j, k \in 1 .. Len(fd.shared) :
       fd.shared[j].version = fd.shared[k].version => j = k

\* A consumer that asks for a range gets the version it had, whatever is
\* registered in the meantime, and one that asks for none is answered as soon
\* as anything is registered (remote.ts:319, 334).
SharedKept ==
  [][/\ \A range \in SUBSET (1 .. MaxDeploy) :
          ResolveShared(fd.shared, range) \in {NoVersion, ResolveShared(fd'.shared, range)}
     /\ ResolveLatest(fd'.shared) = NoVersion => ResolveLatest(fd.shared) = NoVersion]_fd

\* While two stores are synchronised they agree on every key that was
\* changed since, and an update is not echoed for ever (state.ts:249-278).
StoresAgree == fs.synced => \A k \in fs.set : fs.at[1][k] = fs.at[2][k]
=============================================================================
