------------------------------ MODULE Opening ------------------------------
(***************************************************************************)
(* A governor over a store: the units of work it commits with the cache    *)
(* rows they imply, the checkpoints it writes, and opening the ledger      *)
(* again: from genesis or from the newest checkpoint, with the rows        *)
(* earlier versions left reconciled or rebuilt, and pre-0.1.2 history      *)
(* sealed (src/agentgov/core.py; the store is external to it).             *)
(*                                                                         *)
(* Versions before 0.1.2 wrote an entry and its rows in separate           *)
(* transactions, named no hold when they released one, and kept breaker    *)
(* events outside the chain.  What they wrote is history here.             *)
(***************************************************************************)
EXTENDS ChainRules

CONSTANTS
    Root,           \* the first scope
    MaxOld,         \* bound on the entries earlier versions wrote
    MaxPosts,       \* bound on the transactions in one unit of work
    Stores,         \* whether stores answer for history
    Workloads       \* what callers ask for in a behaviour: kinds of transaction,
                    \* by their first entry, how long they let the chain grow,
                    \* how many snapshots of it are stored, and how governors
                    \* treat checkpoint signatures

ASSUME OpeningAssumption ==
    /\ Root \in Scopes
    /\ MaxOld \in Nat /\ MaxPosts \in Nat
    /\ \A w \in Workloads : w.signings \subseteq {"none", "required"}
    /\ Stores \subseteq BOOLEAN

VARIABLES
    chain,      \* the entries the store holds
    legacy,     \* control events a pre-0.1.2 governor kept outside the chain
    rows,       \* the store's cache tables: nodes, events, auths
    snaps,      \* the snapshots the store holds, by sequence
    keeps,      \* the store answers for history (_keeps_history)
    open,       \* a governor has the ledger open
    signing,    \* that governor's CheckpointSigning
    st,         \* the _ChainState it serves
    served,     \* its open authorizations: the hold each one names, by id
    workload,   \* what callers ask for
    unit,       \* the unit of work being built: its view and its entries
    making      \* the checkpoint being made: encoded, then stored

stored == <<chain, legacy, rows, snaps, keeps, workload>>
vars   == <<stored, open, signing, st, served, unit, making>>

NoUnit == [posts |-> 0]
NoCheckpoint == [stage |-> "none"]

----------------------------------------------------------------------------
(* Cache rows *)

NodeRow(state, s) == [parent |-> state.nodes[s].parent, depth |-> state.nodes[s].depth,
                      amt |-> state.nodes[s].amt]
NodeRows(state)    == [s \in DOMAIN state.nodes |-> NodeRow(state, s)]
EventRows(entries) == {e.seq : e \in {x \in Range(entries) : x.type \in Control}}
AuthRow(id, h)     == [id |-> id, hold |-> h.id, scope |-> h.scope, amt |-> h.amt]

\* The authorization a hold is served under: its own id, unless an earlier
\* version placed it under another.
AuthorizationOf(h) ==
    IF \E a \in DOMAIN served : served[a].id = h THEN CHOOSE a \in DOMAIN served : served[a].id = h
    ELSE h

\* Fault: every hold the entries place gets a row, released in the unit or not.
CacheRowsAll(view, built) ==
    LET after == Merge(view) IN
    [nodes  |-> Over([s \in view.rowScopes |-> NodeRow(after, s)], rows.nodes),
     events |-> rows.events \cup view.events,
     auths  |-> {r \in rows.auths : r.id \notin {AuthorizationOf(h) : h \in view.closed}}
                  \cup {AuthRow(e.seq, [id |-> e.seq, scope |-> e.scope, amt |-> e.amt]) :
                          e \in {x \in Range(built) : x.type = "HOLD"}}]

\* The rows a unit of work writes are the ones its entries imply.
CacheRows(view, built) ==
    LET after == Merge(view) IN
    [nodes  |-> Over([s \in view.rowScopes |-> NodeRow(after, s)], rows.nodes),
     events |-> rows.events \cup view.events,
     auths  |-> {r \in rows.auths : r.id \notin {AuthorizationOf(h) : h \in view.closed}}
                  \cup {AuthRow(h.id, h) : h \in view.opened}]

FollowHolds(view) ==
    [a \in {x \in DOMAIN served : served[x].id \notin view.closed}
             \cup {h.id : h \in view.opened} |->
       IF a \in DOMAIN served THEN served[a] ELSE CHOOSE h \in view.opened : h.id = a]
----------------------------------------------------------------------------
(* What earlier versions left *)

\* A transaction an earlier version wrote, as the rules read history.  AGOV1
\* rows were written apart from their entries: a crash between loses them.
OldWrite(lines, ver, crashed) ==
    LET end   == Replay(chain, legacy, FALSE).view
        built == Build(end, lines, ver)
        next  == Apply(end, built, chain \o built, FALSE)
        after == Merge(EndTransaction(next.view))
        placed == {AuthRow(IF ver = 1 THEN -e.seq ELSE e.seq,
                           [id |-> e.seq, scope |-> e.scope, amt |-> e.amt]) :
                     e \in {x \in Range(built) : x.type = "HOLD"}}
    IN
    /\ ~open
    /\ Len(chain) + Len(lines) <= MaxOld
    /\ ver = 2 => ~end.sawV1 /\ ~crashed
    /\ next.ok /\ next.view.net = 0
    /\ chain' = chain \o built
    /\ IF crashed THEN UNCHANGED rows
       ELSE \E released \in SUBSET rows.auths :
              /\ Cardinality(released) =
                   Cardinality({i \in DOMAIN built : built[i].type = "HOLD_VOID"})
              /\ \A r \in released : \E e \in Range(built) :
                   e.type = "HOLD_VOID" /\ Key(e) = Key(r) /\ (ver = 2 => r.hold = e.ref)
              /\ rows' = [nodes |-> NodeRows(after), events |-> EventRows(chain'),
                          auths |-> (rows.auths \ released) \cup placed]
    /\ UNCHANGED <<legacy, snaps, keeps, workload, open, signing, st, served, unit, making>>

\* A trip or a reset kept outside the chain.
OldEvent(type, s) ==
    LET end == Replay(chain, legacy, FALSE).view IN
    /\ ~open
    /\ type \in workload.kinds
    /\ end.sawV1 /\ ~end.sawV2
    /\ Known(end, s)
    /\ Len(legacy) < 1
    /\ legacy' = Append(legacy, [type |-> type, scope |-> s])
    /\ UNCHANGED <<chain, rows, snaps, keeps, workload, open, signing, st, served, unit, making>>

----------------------------------------------------------------------------
(* Opening: the state *)

\* A snapshot carries neither how many holds are open in each scope nor what
\* was refunded of each spend.
Encode(state) == [f \in DOMAIN state \ {"counts", "spendRefunds"} |-> state[f]]

\* How many of the holds are in each scope that has any.
Census(holds) ==
    [s \in {h.scope : h \in holds} |-> Cardinality({h \in holds : h.scope = s})]

Decode(body) ==
    Over(body, [spendRefunds |-> <<>>, counts |-> Census(body.holds)])

NewestCheckpoint ==
    LET made == {e.memo[1] : e \in {x \in Range(chain) : x.type = "CHECKPOINT"}}
    IN IF made = {} THEN 0 ELSE Max(made)

\* The state a snapshot holds, and the entries after it.
AdoptSnapshot(n) ==
    LET state == Decode(snaps[n].body)
        end   == Apply(Overlay(state, keeps), SubSeq(chain, n + 1, Len(chain)), chain, FALSE)
    IN [ok |-> end.ok /\ end.view.net = 0 /\ (state.legacyApplied => legacy = state.legacy),
        state |-> Merge(EndTransaction(end.view))]

FromImage(full) ==
    IF full \/ NewestCheckpoint = 0 \/ ~keeps
      THEN [ok |-> Replays(chain, legacy), state |-> StateOf(chain, legacy, keeps)]
      ELSE AdoptSnapshot(NewestCheckpoint)

\* CheckpointSigning.check: who requires signatures takes no statement without.
Accepted(sign, n) == sign = "required" => snaps[n].signed

\* The newest checkpoint's signed statement, opened from or not.
StatementChecks(sign) == NewestCheckpoint # 0 => Accepted(sign, NewestCheckpoint)

----------------------------------------------------------------------------
(* Opening: the rows *)

IsOpen(state, h)  == \E x \in state.holds : x.id = h
NamedRelease(h)   == \E e \in Range(chain) : e.type = "HOLD_VOID" /\ e.ref = h

\* Rows naming a hold the chain shows was released: never served.
Released(state) ==
    {r \in rows.auths : ~IsOpen(state, r.hold) /\
                        (NamedRelease(r.hold) \/ Key(r) \notin state.ambiguous)}

\* The open holds of a key, and the holds its rows not refused name.
InKey(state, key) == {h.id : h \in {x \in state.holds : Key(x) = key}}
Candidates(state, key) ==
    {r.hold : r \in {x \in rows.auths \ Released(state) : Key(x) = key}}

\* How many come before n.
Rank(S, n) == Cardinality({m \in S : m < n})

\* Within a key an unnamed release touched, the chain says how many holds are
\* open, not which: a row whose hold is gone is served on a free one, in the
\* order the holds were placed, as every governor would.
StandsIn(state, r, h) ==
    LET gone == Candidates(state, Key(h)) \ InKey(state, Key(h))
        free == InKey(state, Key(h)) \ Candidates(state, Key(h))
    IN /\ Key(r) = Key(h) /\ r.hold \in gone /\ h.id \in free
       /\ Rank(gone, r.hold) = Rank(free, h.id)

\* The id an open hold is served under: of the row that names it, or stands in
\* for one, or else its own.
Under(state, h) ==
    LET by == {r \in rows.auths : r.hold = h.id \/ StandsIn(state, r, h)}
    IN IF by = {} THEN h.id ELSE (CHOOSE r \in by : TRUE).id

\* The authorizations to serve: one for every open hold.
Served(state) ==
    [a \in {Under(state, h) : h \in state.holds} |->
       CHOOSE h \in state.holds : Under(state, h) = a]

\* Whether a cache table disagrees with the chain.  An open from a checkpoint
\* looks at the control events after it only.
Problems(state, base) ==
    \/ rows.nodes # NodeRows(state)
    \/ {q \in rows.events : q > base} # {q \in EventRows(chain) : q > base}
    \/ Released(state) # {}
    \/ \E h \in state.holds : Key(h) \notin state.ambiguous /\ \A r \in rows.auths : r.hold # h.id
    \/ \E key \in state.ambiguous :
         Cardinality(InKey(state, key)) # Cardinality(Candidates(state, key))

Rebuilt(state) ==
    [nodes |-> NodeRows(state), events |-> EventRows(chain),
     auths |-> {AuthRow(a, Served(state)[a]) : a \in DOMAIN Served(state)}]

\* The advisory lock on the ledger's file: one governor at a time.
Unclaimed == ~open

SealLine == <<Line("SEAL", "NONE", None, None, 0, 0, legacy)>>

Open(full, repair, sign) ==
    LET image == FromImage(full)
        base  == IF full \/ ~keeps THEN 0 ELSE NewestCheckpoint
        seal  == Posted(Overlay(image.state, keeps), SealLine, chain)
        seals == image.state.sawV1 /\ ~image.state.sawV2
    IN
    /\ Unclaimed
    /\ Len(chain) < workload.length
    /\ image.ok
    /\ StatementChecks(sign)
    /\ Problems(image.state, base) => repair
    /\ rows' = IF Problems(image.state, base) THEN Rebuilt(image.state) ELSE rows
    /\ served' = Served(image.state)
    /\ seals => seal.ok
    /\ chain' = IF seals THEN chain \o seal.built ELSE chain
    /\ st' = IF seals THEN Merge(seal.view) ELSE image.state
    /\ open' = TRUE
    /\ signing' = sign
    /\ UNCHANGED <<legacy, snaps, keeps, workload, unit, making>>

\* A restart, or a crash: nothing but the store survives.
Close ==
    /\ open
    /\ open' = FALSE
    /\ signing' = "none"
    /\ st' = Empty(<<>>)
    /\ served' = <<>>
    /\ unit' = NoUnit
    /\ making' = NoCheckpoint
    /\ UNCHANGED stored

----------------------------------------------------------------------------
(* Writing *)

\* What a caller may name: the holds and the spends of the chain and the unit.
Refs == {e.seq : e \in {x \in Range(chain) : x.type \in {"HOLD", "SPEND"}}}
        \cup (IF unit = NoUnit THEN {} ELSE {h.id : h \in unit.view.opened})

\* A transaction joins the unit of work, or is refused and the work abandoned.
Post(lines) ==
    LET v == IF unit = NoUnit THEN Overlay(st, keeps) ELSE unit.view
        p == Posted(v, lines, chain)
    IN
    /\ open
    /\ unit.posts < MaxPosts
    /\ v.len + Len(lines) <= workload.length
    /\ unit' = IF p.ok
                 THEN [posts |-> unit.posts + 1, view |-> p.view,
                       built |-> IF unit = NoUnit THEN p.built ELSE unit.built \o p.built]
                 ELSE NoUnit
    /\ UNCHANGED <<stored, open, signing, st, served, making>>

\* Durable with its rows, then visible.
Commit ==
    /\ unit # NoUnit
    /\ chain' = chain \o unit.built
    /\ rows' = CacheRows(unit.view, unit.built)
    /\ st' = Merge(unit.view)
    /\ served' = FollowHolds(unit.view)
    /\ unit' = NoUnit
    /\ UNCHANGED <<legacy, snaps, keeps, workload, open, signing, making>>

\* The store fails: nothing changed, on disk or in memory.
CommitFails ==
    /\ unit # NoUnit
    /\ unit' = NoUnit
    /\ UNCHANGED <<stored, open, signing, st, served, making>>

----------------------------------------------------------------------------
(* checkpoint(): the snapshot, then the entry that commits to it *)

\* What is stored of a state, signed by whoever has a key to sign with.
Statement(state) == [body |-> Encode(state), signed |-> signing # "none"]

EncodeCheckpoint ==
    /\ open /\ keeps /\ unit = NoUnit /\ making = NoCheckpoint
    /\ st.len > 0
    /\ st.len \in DOMAIN snaps \/ Cardinality(DOMAIN snaps) < workload.snapshots
    /\ st.checkpoint # 0 => st.checkpoint < st.len - 1
    /\ making' = Over([stage |-> "encoded", seq |-> st.len], Statement(st))
    /\ UNCHANGED <<stored, open, signing, st, served, unit>>

\* A snapshot of a sequence is stored once: the same again is left as it is.
PutSnapshot ==
    /\ making.stage = "encoded"
    /\ IF making.seq \in DOMAIN snaps
         THEN /\ UNCHANGED snaps
              /\ making' = IF snaps[making.seq].body = making.body
                             THEN [making EXCEPT !.stage = "stored"] ELSE NoCheckpoint
         ELSE /\ snaps' = Put(snaps, making.seq, [body |-> making.body, signed |-> making.signed])
              /\ making' = [making EXCEPT !.stage = "stored"]
    /\ UNCHANGED <<chain, legacy, rows, keeps, workload, open, signing, st, served, unit>>

\* Fault: the entry names the chain's last entry, not the snapshot's.
WriteCheckpointHere ==
    LET p == Posted(Overlay(st, keeps),
                    <<Line("CHECKPOINT", "NONE", None, None, 0, 0, <<st.len>>)>>, chain)
    IN
    /\ making.stage = "stored" /\ unit = NoUnit
    /\ st.len < workload.length
    /\ chain' = chain \o p.built
    /\ st' = Merge(p.view)
    /\ making' = NoCheckpoint
    /\ UNCHANGED <<legacy, rows, snaps, keeps, workload, open, signing, served, unit>>

WriteCheckpoint ==
    LET p == Posted(Overlay(st, keeps),
                    <<Line("CHECKPOINT", "NONE", None, None, 0, 0, <<making.seq>>)>>, chain)
    IN
    /\ making.stage = "stored" /\ unit = NoUnit
    /\ st.len < workload.length
    /\ IF st.checkpoint >= making.seq THEN UNCHANGED <<chain, st>>
       ELSE p.ok /\ chain' = chain \o p.built /\ st' = Merge(p.view)
    /\ making' = NoCheckpoint
    /\ UNCHANGED <<legacy, rows, snaps, keeps, workload, open, signing, served, unit>>

----------------------------------------------------------------------------

\* A ledger whose root some version opened: an earlier one, or this.
Init ==
    /\ \E ver \in 1..3 :
         chain = Build(Overlay(Empty(<<>>), FALSE),
                       <<Line("FUNDING", "CREDIT", Root, None, 1, 0, <<>>)>>, ver)
    /\ legacy = <<>>
    /\ rows = [nodes |-> NodeRows(StateOf(chain, legacy, FALSE)), events |-> {}, auths |-> {}]
    /\ snaps = <<>>
    /\ keeps \in Stores
    /\ workload \in Workloads
    /\ open = FALSE
    /\ signing = "none"
    /\ st = Empty(<<>>)
    /\ served = <<>>
    /\ unit = NoUnit
    /\ making = NoCheckpoint

Next ==
    \/ \E lines \in Transactions(workload.kinds, {0} \cup Refs), ver \in {1, 2}, crashed \in BOOLEAN :
          OldWrite(lines, ver, crashed)
    \/ \E type \in Control, s \in Scopes : OldEvent(type, s)
    \/ \E full \in BOOLEAN, repair \in BOOLEAN, sign \in workload.signings : Open(full, repair, sign)
    \/ Close
    \/ \E lines \in Transactions(workload.kinds, Refs) : Post(lines)
    \/ Commit \/ CommitFails
    \/ EncodeCheckpoint \/ PutSnapshot \/ WriteCheckpoint

Spec == Init /\ [][Next]_vars

----------------------------------------------------------------------------
(* Properties *)

\* Whatever a write commits a replay accepts: the chain opens, from genesis,
\* after every unit of work, seal and checkpoint (_Overlay's promise).
WritesReplay == Replays(chain, legacy)

\* The state served, merged unit by unit or adopted from a snapshot, is the one
\* a single replay of the whole chain derives (verify_chain).
StateIsReplay == open => st = StateOf(chain, legacy, keeps)

\* While a ledger is open its rows are what the chain implies, and every open
\* hold is served by exactly one authorization, of its scope and amount
\* (_node_row_problems, _control_row_problems, _verify_authorizations).
CachesAreImplied ==
    open =>
      /\ rows.nodes = NodeRows(st)
      /\ rows.events = EventRows(chain)
      /\ {r.id : r \in rows.auths} = DOMAIN served
      /\ \A r \in rows.auths : Key(r) = Key(served[r.id])
      /\ {served[a] : a \in DOMAIN served} = st.holds
      /\ Cardinality(DOMAIN served) = Cardinality(st.holds)

\* Every snapshot stored, and named by a checkpoint or orphaned by a crash, is
\* of the chain it is stored with: put_snapshot never finds two derivations
\* of one chain that disagree.
SnapshotsOfTheChain ==
    /\ \A n \in DOMAIN snaps :
         n <= Len(chain) /\ snaps[n].body = Encode(StateOf(SubSeq(chain, 1, n), legacy, keeps))
    /\ NewestCheckpoint # 0 => NewestCheckpoint \in DOMAIN snaps

=============================================================================
