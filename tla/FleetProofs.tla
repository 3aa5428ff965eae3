----------------------------- MODULE FleetProofs -----------------------------
(***************************************************************************)
(* What governors that share a ledger promise together, for any number of  *)
(* them, of claims, of entries and of failovers.                           *)
(***************************************************************************)
EXTENDS Fleet, FiniteSums, SequenceTheorems

EntryIds == Nat \X Writers

EntryTypes == {"HOLD", "HOLD_VOID", "SPEND", "ANCHOR", "CIRCUIT_TRIPPED"}

Entries == [id : EntryIds, type : EntryTypes, amount : Nat, ref : EntryIds \cup {None},
            key : Keys \cup {None}, claim : ClaimIds \cup {None}]

Claims == [id : ClaimIds, amount : ClaimAmounts, hold : EntryIds \cup {None}]

Ledgers == [chain : Seq(Entries), claims : SUBSET Claims, owed : SUBSET Claims]

-----------------------------------------------------------------------------
(* Prefixes.                                                               *)

LEMMA PrefixIs ==
    ASSUME NEW S, NEW s \in Seq(S), NEW t \in Seq(S)
    PROVE  IsPrefix(s, t) <=> Len(s) <= Len(t) /\ \A i \in 1..Len(s) : s[i] = t[i]
<1>1. SubSeq(s, 1, Len(s)) = s /\ Len(s) \in Nat /\ Len(t) \in Nat
  BY SubSeqFull, LenProperties
<1>2. ASSUME Len(s) <= Len(t)
      PROVE  /\ SubSeq(t, 1, Len(s)) \in Seq(S)
             /\ Len(SubSeq(t, 1, Len(s))) = Len(s)
             /\ \A i \in 1..Len(s) : SubSeq(t, 1, Len(s))[i] = t[i]
  <2>1. \A i \in 1..Len(s) : t[i] \in S
    BY <1>1, <1>2, ElementOfSeq
  <2>2. /\ SubSeq(t, 1, Len(s)) \in Seq(S)
        /\ Len(SubSeq(t, 1, Len(s))) = IF 1 <= Len(s) THEN Len(s) - 1 + 1 ELSE 0
        /\ \A i \in 1..(Len(s) - 1 + 1) : SubSeq(t, 1, Len(s))[i] = t[1 + i - 1]
    BY <1>1, <2>1, SubSeqProperties
  <2> QED
    BY <1>1, <2>2
<1>3. CASE Len(s) <= Len(t)
  <2>1. SubSeq(t, 1, Len(s)) = s <=> \A i \in 1..Len(s) : s[i] = t[i]
    BY <1>1, <1>2, <1>3, SeqEqual
  <2> QED
    BY <1>1, <1>3, <2>1 DEF IsPrefix
<1> QED
  BY <1>3 DEF IsPrefix

LEMMA PrefixSelf ==
    ASSUME NEW S, NEW s \in Seq(S) PROVE IsPrefix(s, s)
  BY PrefixIs, LenProperties

LEMMA PrefixTrans ==
    ASSUME NEW S, NEW s \in Seq(S), NEW t \in Seq(S), NEW u \in Seq(S),
           IsPrefix(s, t), IsPrefix(t, u)
    PROVE  IsPrefix(s, u)
<1>1. Len(s) \in Nat /\ Len(t) \in Nat /\ Len(u) \in Nat
  BY LenProperties
<1>2. Len(s) <= Len(t) /\ \A i \in 1..Len(s) : s[i] = t[i]
  BY PrefixIs
<1>3. Len(t) <= Len(u) /\ \A i \in 1..Len(t) : t[i] = u[i]
  BY PrefixIs
<1>4. Len(s) <= Len(u) /\ \A i \in 1..Len(s) : s[i] = u[i]
  BY <1>1, <1>2, <1>3
<1> QED
  BY <1>4, PrefixIs

\* A chain is a prefix of another, and what follows it makes that other.
LEMMA PrefixRest ==
    ASSUME NEW S, NEW s \in Seq(S), NEW t \in Seq(S), IsPrefix(s, t)
    PROVE  s \o SubSeq(t, Len(s) + 1, Len(t)) = t
<1>1. Len(s) \in Nat /\ Len(t) \in Nat /\ Len(s) <= Len(t)
  BY LenProperties, PrefixIs
<1>2. s = SubSeq(t, 1, Len(s))
  BY SubSeqFull DEF IsPrefix
<1>3. 1 \in 1..(Len(t) + 1) /\ Len(s) \in (1 - 1)..Len(t) /\ Len(t) \in Len(s)..Len(t)
  BY <1>1
<1>4. SubSeq(t, 1, Len(s)) \o SubSeq(t, Len(s) + 1, Len(t)) = SubSeq(t, 1, Len(t))
  BY <1>3, ConcatAdjacentSubSeq
<1> QED
  BY <1>2, <1>4, SubSeqFull

LEMMA SubSeqOfPrefix ==
    ASSUME NEW S, NEW s \in Seq(S), NEW t \in Seq(S), IsPrefix(s, t), NEW n \in 0..Len(s)
    PROVE  /\ SubSeq(s, 1, n) \in Seq(S)
           /\ SubSeq(t, 1, n) = SubSeq(s, 1, n)
<1>1. Len(s) \in Nat /\ Len(t) \in Nat /\ Len(s) <= Len(t) /\ \A i \in 1..Len(s) : s[i] = t[i]
  BY LenProperties, PrefixIs
<1>2. n \in Nat /\ \A i \in 1..n : s[i] \in S /\ t[i] \in S /\ s[i] = t[i]
  BY <1>1, ElementOfSeq
<1>3. /\ SubSeq(s, 1, n) \in Seq(S)
      /\ Len(SubSeq(s, 1, n)) = IF 1 <= n THEN n - 1 + 1 ELSE 0
      /\ \A i \in 1..(n - 1 + 1) : SubSeq(s, 1, n)[i] = s[1 + i - 1]
  BY <1>2, SubSeqProperties
<1>4. /\ SubSeq(t, 1, n) \in Seq(S)
      /\ Len(SubSeq(t, 1, n)) = IF 1 <= n THEN n - 1 + 1 ELSE 0
      /\ \A i \in 1..(n - 1 + 1) : SubSeq(t, 1, n)[i] = t[1 + i - 1]
  BY <1>2, SubSeqProperties
<1>5. /\ Len(SubSeq(s, 1, n)) = n /\ Len(SubSeq(t, 1, n)) = n
      /\ \A i \in 1..n : SubSeq(s, 1, n)[i] = SubSeq(t, 1, n)[i]
  BY <1>2, <1>3, <1>4
<1> QED
  BY <1>3, <1>4, <1>5, SeqEqual

-----------------------------------------------------------------------------
(* What an operation adds to a chain.                                      *)

\* d extends c by entries that book no claim but id, and that one once.
Books(c, d, id) ==
    /\ c \in Seq(Entries) /\ d \in Seq(Entries)
    /\ Len(c) <= Len(d)
    /\ \A i \in 1..Len(c) : c[i] = d[i]
    /\ \A i \in (Len(c) + 1)..Len(d) : d[i].claim \in {None, id}
    /\ id # None =>
         \E i \in (Len(c) + 1)..Len(d) :
             \A j \in (Len(c) + 1)..Len(d) : d[j].claim = id <=> j = i

LEMMA BooksNothing ==
    ASSUME NEW c \in Seq(Entries) PROVE Books(c, c, None)
  BY LenProperties DEF Books

LEMMA BooksAppend ==
    ASSUME NEW c, NEW d, NEW e \in Entries, NEW id, Books(c, d, id), e.claim = None
    PROVE  Books(c, Append(d, e), id)
<1> DEFINE a == Append(d, e)
<1>1. c \in Seq(Entries) /\ d \in Seq(Entries) /\ Len(c) \in Nat /\ Len(d) \in Nat
  BY LenProperties DEF Books
<1>2. /\ a \in Seq(Entries) /\ Len(a) = Len(d) + 1
      /\ \A i \in 1..Len(d) : a[i] = d[i]
      /\ a[Len(d) + 1] = e
  BY <1>1, AppendProperties
<1> HIDE DEF a
<1>3. Len(c) <= Len(d) /\ \A i \in 1..Len(c) : c[i] = d[i]
  BY DEF Books
<1>4. \A i \in (Len(c) + 1)..Len(a) : i \in (Len(c) + 1)..Len(d) \/ i = Len(d) + 1
  BY <1>1, <1>2, <1>3
<1>5. \A i \in (Len(c) + 1)..Len(d) : i \in 1..Len(d) /\ i \in (Len(c) + 1)..Len(a)
  BY <1>1, <1>2, <1>3
<1>6. \A i \in (Len(c) + 1)..Len(a) : a[i].claim \in {None, id}
  BY <1>2, <1>4, <1>5 DEF Books
<1>7. id # None =>
         \E i \in (Len(c) + 1)..Len(a) :
             \A j \in (Len(c) + 1)..Len(a) : a[j].claim = id <=> j = i
  <2> SUFFICES ASSUME id # None
               PROVE  \E i \in (Len(c) + 1)..Len(a) :
                        \A j \in (Len(c) + 1)..Len(a) : a[j].claim = id <=> j = i
    OBVIOUS
  <2>1. PICK i \in (Len(c) + 1)..Len(d) :
               \A j \in (Len(c) + 1)..Len(d) : d[j].claim = id <=> j = i
    BY DEF Books
  <2>2. i # Len(d) + 1 /\ i \in (Len(c) + 1)..Len(a)
    BY <1>1, <1>5
  <2> QED
    BY <1>2, <1>4, <1>5, <2>1, <2>2, ZenonT(40)
<1>8. Len(c) <= Len(a) /\ \A i \in 1..Len(c) : c[i] = a[i]
  BY <1>1, <1>2, <1>3
<1>9. Books(c, a, id)
  BY <1>1, <1>2, <1>6, <1>7, <1>8 DEF Books
<1> QED
  BY <1>9 DEF a

LEMMA BooksClaim ==
    ASSUME NEW c, NEW d, NEW e \in Entries, Books(c, d, None), e.claim # None
    PROVE  Books(c, Append(d, e), e.claim)
<1> DEFINE a == Append(d, e)
<1>1. c \in Seq(Entries) /\ d \in Seq(Entries) /\ Len(c) \in Nat /\ Len(d) \in Nat
  BY LenProperties DEF Books
<1>2. /\ a \in Seq(Entries) /\ Len(a) = Len(d) + 1
      /\ \A i \in 1..Len(d) : a[i] = d[i]
      /\ a[Len(d) + 1] = e
  BY <1>1, AppendProperties
<1> HIDE DEF a
<1>3. Len(c) <= Len(d) /\ \A i \in 1..Len(c) : c[i] = d[i]
  BY DEF Books
<1>4. \A i \in (Len(c) + 1)..Len(a) : i \in (Len(c) + 1)..Len(d) \/ i = Len(d) + 1
  BY <1>1, <1>2, <1>3
<1>5. \A i \in (Len(c) + 1)..Len(d) : i \in 1..Len(d) /\ i # Len(d) + 1 /\ d[i].claim = None
  BY <1>1, <1>2, <1>3 DEF Books
<1>6. \A i \in (Len(c) + 1)..Len(a) : a[i].claim = IF i = Len(d) + 1 THEN e.claim ELSE None
  BY <1>2, <1>4, <1>5
<1>7. Len(d) + 1 \in (Len(c) + 1)..Len(a)
  BY <1>1, <1>2, <1>3
<1>8. Len(c) <= Len(a) /\ \A i \in 1..Len(c) : c[i] = a[i]
  BY <1>1, <1>2, <1>3
<1>9. \E i \in (Len(c) + 1)..Len(a) :
        \A j \in (Len(c) + 1)..Len(a) : a[j].claim = e.claim <=> j = i
  <2>1. \A j \in (Len(c) + 1)..Len(a) : a[j].claim = e.claim <=> j = Len(d) + 1
    BY <1>6
  <2> QED
    BY <1>7, <2>1
<1>10. Books(c, a, e.claim)
  BY <1>1, <1>2, <1>6, <1>8, <1>9 DEF Books
<1> QED
  BY <1>10 DEF a

LEMMA HoldsAreIds ==
    ASSUME NEW c \in Seq(Entries)
    PROVE  Ledger!OpenHolds(c) \subseteq EntryIds /\ Ledger!Ids(c, "HOLD") \subseteq EntryIds
<1>1. \A i \in DOMAIN c : c[i] \in Entries
  BY LenProperties, ElementOfSeq
<1>2. \A i \in DOMAIN c : c[i].id \in EntryIds
  BY <1>1 DEF Entries
<1> QED
  BY <1>2 DEF Ledger!OpenHolds, Ledger!Ids

LEMMA TripBooks ==
    ASSUME NEW c, NEW d, NEW id, NEW who \in Writers, Books(c, d, id)
    PROVE  Books(c, Ledger!StageTrip(d, who), id)
<1> DEFINE e == Ledger!Entry(d, who, "CIRCUIT_TRIPPED", 0, None, None, None)
<1>1. d \in Seq(Entries)
  BY DEF Books
<1>2. e \in Entries /\ e.claim = None
  BY <1>1, LenProperties DEF Ledger!Entry, Ledger!HoldAmount, EntryTypes, Entries, EntryIds
<1> HIDE DEF e
<1> QED
  BY <1>2, BooksAppend DEF Ledger!StageTrip, e


\* Redeeming a claim writes entries of which one says so (_settle_claim).
LEMMA SettledBooks ==
    ASSUME NEW c \in Seq(Entries), NEW who \in Writers, NEW claim \in Claims
    PROVE  Books(c, Ledger!Settled(c, who, claim), claim.id)
<1> DEFINE open == claim.hold \in Ledger!OpenHolds(c)
           ref == IF open THEN claim.hold ELSE None
           spends == claim.amount > 0
           releases == Ledger!Entry(c, who, "HOLD_VOID", Ledger!HoldAmount, ref, None,
                                    IF spends THEN None ELSE claim.id)
           voided == IF ~open THEN c ELSE Append(c, releases)
           pays == Ledger!Entry(voided, who, "SPEND", claim.amount, ref, None, claim.id)
           spent == IF ~spends THEN voided ELSE Append(voided, pays)
           anchors == Ledger!Entry(c, who, "ANCHOR", 0, None, None, claim.id)
<1>1. /\ claim.id \in ClaimIds /\ claim.id # None /\ claim.amount \in Nat
      /\ claim.id \in ClaimIds \cup {None}
      /\ ref \in EntryIds \cup {None}
      /\ (IF spends THEN None ELSE claim.id) \in ClaimIds \cup {None}
  BY FleetAssumption DEF Claims
<1>2. Books(c, c, None)
  BY BooksNothing
<1>3. ASSUME open
      PROVE  releases \in Entries /\ releases.claim = IF spends THEN None ELSE claim.id
  BY <1>1, LenProperties DEF Ledger!Entry, Ledger!HoldAmount, EntryTypes, Entries, EntryIds
<1>4. Books(c, voided, IF open /\ ~spends THEN claim.id ELSE None)
  <2> HIDE DEF open, releases, spends
  <2>1. CASE ~open
    BY <1>2, <2>1
  <2>2. CASE open /\ spends
    BY <1>2, <1>3, <2>2, BooksAppend
  <2>3. CASE open /\ ~spends
    BY <1>1, <1>2, <1>3, <2>3, BooksClaim
  <2> QED
    BY <2>1, <2>2, <2>3
<1>5. voided \in Seq(Entries)
  BY <1>4 DEF Books
<1>6. pays \in Entries /\ pays.claim = claim.id
  <2> HIDE DEF voided, ref
  <2> QED
    BY <1>1, <1>5, LenProperties DEF Ledger!Entry, Ledger!HoldAmount, EntryTypes, Entries, EntryIds
<1>7. ASSUME open \/ spends PROVE Books(c, spent, claim.id)
  <2> HIDE DEF open, releases, spends, voided, pays
  <2>1. CASE spends
    BY <1>1, <1>4, <1>6, <2>1, BooksClaim
  <2>2. CASE ~spends
    BY <1>4, <1>7, <2>2
  <2> QED
    BY <2>1, <2>2
<1>8. anchors \in Entries /\ anchors.claim = claim.id
  BY <1>1, LenProperties DEF Ledger!Entry, Ledger!HoldAmount, EntryTypes, Entries, EntryIds
<1>9. Books(c, Append(c, anchors), claim.id)
  <2> HIDE DEF anchors
  <2> QED
    BY <1>1, <1>2, <1>8, BooksClaim
<1>10. \/ ~open /\ ~spends /\ Ledger!Settled(c, who, claim) = Append(c, anchors)
       \/ (open \/ spends) /\ Ledger!Settled(c, who, claim) \in {spent, Ledger!StageTrip(spent, who)}
  BY DEF Ledger!Settled
<1> HIDE DEF open, spends, spent, anchors
<1> QED
  BY <1>7, <1>9, <1>10, TripBooks

\* An operation books one of the claims pending, which is then no longer
\* pending, or none; it never touches what was written before.
LEMMA OperationAdds ==
    ASSUME NEW l \in Ledgers, NEW who \in Writers, NEW m \in Ledger!Operations(l, who)
    PROVE  /\ m \in Ledgers /\ m.owed = l.owed
           /\ \/ Books(l.chain, m.chain, None) /\ m.claims = l.claims
              \/ \E claim \in l.claims :
                    Books(l.chain, m.chain, claim.id) /\ m.claims = l.claims \ {claim}
<1>1. /\ l.chain \in Seq(Entries) /\ l.claims \in SUBSET Claims /\ l.owed \in SUBSET Claims
      /\ l = [chain |-> l.chain, claims |-> l.claims, owed |-> l.owed]
  BY DEF Ledgers
<1> DEFINE c == l.chain
           with(d) == [l EXCEPT !.chain = d]
<1>2. Books(c, c, None)
  BY <1>1, BooksNothing
<1>3. ASSUME NEW d, Books(c, d, None), m = with(d)
      PROVE  /\ m \in Ledgers /\ m.owed = l.owed
             /\ Books(l.chain, m.chain, None) /\ m.claims = l.claims
  BY <1>1, <1>3 DEF Ledgers, Books
<1>4. CASE m \in Ledger!Void(l, who)
  <2>1. PICK h \in Ledger!OpenHolds(c) :
          m = with(Append(c, Ledger!Entry(c, who, "HOLD_VOID", Ledger!HoldAmount, h, None, None)))
    BY <1>4 DEF Ledger!Void
  <2> DEFINE e == Ledger!Entry(c, who, "HOLD_VOID", Ledger!HoldAmount, h, None, None)
  <2>2. h \in EntryIds
    BY <1>1, HoldsAreIds
  <2>3. e \in Entries /\ e.claim = None
    BY <1>1, <2>2, LenProperties DEF Ledger!Entry, Ledger!HoldAmount, EntryTypes, Entries, EntryIds
  <2> HIDE DEF e
  <2>4. Books(c, Append(c, e), None)
    BY <1>2, <2>3, BooksAppend
  <2> QED
    BY <1>3, <2>1, <2>4 DEF e
<1>5. CASE m \in Ledger!Trip(l, who)
  BY <1>2, <1>3, <1>5, TripBooks DEF Ledger!Trip
<1>6. CASE m \in Ledger!Redeem(l, who)
  <2>1. PICK claim \in l.claims :
          m = [l EXCEPT !.chain = Ledger!Settled(c, who, claim), !.claims = @ \ {claim}]
    BY <1>6 DEF Ledger!Redeem
  <2>2. Books(c, Ledger!Settled(c, who, claim), claim.id)
    BY <1>1, SettledBooks
  <2>3. Ledger!Settled(c, who, claim) \in Seq(Entries)
    BY <2>2 DEF Books
  <2>4. /\ m \in Ledgers /\ m.owed = l.owed
        /\ m.chain = Ledger!Settled(c, who, claim) /\ m.claims = l.claims \ {claim}
    BY <1>1, <2>1, <2>3 DEF Ledgers
  <2> QED
    BY <2>2, <2>4
<1>7. ASSUME NEW key \in Keys, m \in Ledger!Authorize(l, who, key)
      PROVE  /\ m \in Ledgers /\ m.owed = l.owed
             /\ Books(l.chain, m.chain, None) /\ m.claims = l.claims
  <2> DEFINE e == Ledger!Entry(c, who, "HOLD", Ledger!HoldAmount, None, key, None)
  <2>1. m = with(Ledger!StageTrip(c, who)) \/ m = with(Append(c, e))
    BY <1>7 DEF Ledger!Authorize
  <2>2. e \in Entries /\ e.claim = None
    BY <1>1, LenProperties DEF Ledger!Entry, Ledger!HoldAmount, EntryTypes, Entries, EntryIds
  <2> HIDE DEF e
  <2>3. Books(c, Append(c, e), None) /\ Books(c, Ledger!StageTrip(c, who), None)
    BY <1>2, <2>2, BooksAppend, TripBooks
  <2> QED
    BY <1>3, <2>1, <2>3
<1> QED
  BY <1>4, <1>5, <1>6, <1>7 DEF Ledger!Operations

LEMMA BooksExtends ==
    ASSUME NEW c, NEW d, NEW id, Books(c, d, id)
    PROVE  c \in Seq(Entries) /\ d \in Seq(Entries) /\ IsPrefix(c, d)
  BY PrefixIs DEF Books

-----------------------------------------------------------------------------
(* Claims and the entries that book them.                                  *)

\* A claim owed is pending and no entry books it, or it is booked by exactly
\* one; claims are told apart by their ids, and no entry books another.
Sound(l) ==
    /\ l.claims \subseteq l.owed
    /\ \A a \in l.owed, b \in l.owed : a.id = b.id => a = b
    /\ \A i \in 1..Len(l.chain) :
         l.chain[i].claim # None => \E a \in l.owed : l.chain[i].claim = a.id
    /\ \A a \in l.claims : \A i \in 1..Len(l.chain) : l.chain[i].claim # a.id
    /\ \A a \in l.owed \ l.claims :
         \E i \in 1..Len(l.chain) :
             \A j \in 1..Len(l.chain) : l.chain[j].claim = a.id <=> j = i

LEMMA SoundWhenBookingNone ==
    ASSUME NEW l \in Ledgers, NEW m \in Ledgers, Sound(l),
           Books(l.chain, m.chain, None), m.claims = l.claims, m.owed = l.owed
    PROVE  Sound(m)
<1> DEFINE c == l.chain
           d == m.chain
<1>1. /\ Len(c) \in Nat /\ Len(d) \in Nat /\ Len(c) <= Len(d)
      /\ \A i \in 1..Len(c) : c[i] = d[i] /\ i \in 1..Len(d)
      /\ \A i \in 1..Len(d) : i \in 1..Len(c) \/ i \in (Len(c) + 1)..Len(d)
      /\ \A i \in (Len(c) + 1)..Len(d) : d[i].claim = None /\ i \notin 1..Len(c)
  BY LenProperties DEF Books
<1>2. \A a \in l.owed : a.id # None
  BY FleetAssumption DEF Ledgers, Claims
<1> HIDE DEF c, d
<1>3. \A i \in 1..Len(d) : d[i].claim # None => \E a \in l.owed : d[i].claim = a.id
  BY <1>1 DEF Sound, c
<1>4. \A a \in l.claims : \A i \in 1..Len(d) : d[i].claim # a.id
  BY <1>1, <1>2 DEF Sound, c
<1>5. ASSUME NEW a \in l.owed \ l.claims
      PROVE  \E i \in 1..Len(d) : \A j \in 1..Len(d) : d[j].claim = a.id <=> j = i
  <2>1. PICK i \in 1..Len(c) : \A j \in 1..Len(c) : c[j].claim = a.id <=> j = i
    BY DEF Sound, c
  <2>2. a.id # None
    BY <1>2
  <2>3. i \in 1..Len(d)
    BY <1>1
  <2>4. \A j \in 1..Len(d) : d[j].claim = a.id <=> j = i
    BY <1>1, <2>1, <2>2
  <2> QED
    BY <2>3, <2>4
<1> QED
  BY <1>3, <1>4, <1>5 DEF Sound, d

LEMMA SoundWhenBookingOne ==
    ASSUME NEW l \in Ledgers, NEW m \in Ledgers, Sound(l), NEW claim \in l.claims,
           Books(l.chain, m.chain, claim.id), m.claims = l.claims \ {claim}, m.owed = l.owed
    PROVE  Sound(m)
<1> DEFINE c == l.chain
           d == m.chain
           new == (Len(c) + 1)..Len(d)
<1>1. /\ Len(c) \in Nat /\ Len(d) \in Nat /\ Len(c) <= Len(d)
      /\ \A i \in 1..Len(c) : c[i] = d[i] /\ i \in 1..Len(d)
      /\ \A i \in 1..Len(d) : i \in 1..Len(c) \/ i \in new
      /\ \A i \in new : d[i].claim \in {None, claim.id} /\ i \notin 1..Len(c) /\ i \in 1..Len(d)
  BY LenProperties DEF Books
<1>2. \A a \in l.owed : a.id # None
  BY FleetAssumption DEF Ledgers, Claims
<1>3. claim \in l.owed /\ claim.id # None
  BY <1>2 DEF Sound
<1>4. PICK k \in new : \A j \in new : d[j].claim = claim.id <=> j = k
  BY <1>3 DEF Books
<1> HIDE DEF c, d, new
<1>5. \A i \in 1..Len(d) : d[i].claim # None => \E a \in l.owed : d[i].claim = a.id
  BY <1>1, <1>3, SMTT(20) DEF Sound, c
<1>6. \A a \in l.owed : a # claim => a.id # claim.id
  BY <1>3 DEF Sound
<1>7. \A a \in l.claims \ {claim} : \A i \in 1..Len(d) : d[i].claim # a.id
  BY <1>1, <1>2, <1>6 DEF Sound, c
<1>8. ASSUME NEW a \in l.owed \ l.claims
      PROVE  \E i \in 1..Len(d) : \A j \in 1..Len(d) : d[j].claim = a.id <=> j = i
  <2>1. PICK i \in 1..Len(c) : \A j \in 1..Len(c) : c[j].claim = a.id <=> j = i
    BY DEF Sound, c
  <2>2. a.id # None /\ a.id # claim.id
    BY <1>2, <1>6
  <2>3. i \in 1..Len(d)
    BY <1>1
  <2>4. \A j \in 1..Len(d) : d[j].claim = a.id <=> j = i
    BY <1>1, <2>1, <2>2
  <2> QED
    BY <2>3, <2>4
<1>9. \A j \in 1..Len(d) : d[j].claim = claim.id <=> j = k
  BY <1>1, <1>4 DEF Sound, c
<1>10. \A a \in l.owed \ (l.claims \ {claim}) :
         \E i \in 1..Len(d) : \A j \in 1..Len(d) : d[j].claim = a.id <=> j = i
  BY <1>1, <1>4, <1>8, <1>9
<1> QED
  BY <1>5, <1>7, <1>10 DEF Sound, d

LEMMA OperationKeepsSound ==
    ASSUME NEW l \in Ledgers, NEW who \in Writers, NEW m \in Ledger!Operations(l, who), Sound(l)
    PROVE  Sound(m)
  BY OperationAdds, SoundWhenBookingNone, SoundWhenBookingOne

-----------------------------------------------------------------------------
(* Units of work.                                                          *)

\* What Reach defines by recursion exists, and is what it says.
LEMMA ReachIs ==
    ASSUME NEW l, NEW who
    PROVE  /\ Ledger!Reach(l, who)[0] = {l}
           /\ \A n \in 1..MaxUnit :
                Ledger!Reach(l, who)[n] =
                  Ledger!Reach(l, who)[n - 1]
                    \cup UNION {Ledger!Operations(m, who) : m \in Ledger!Reach(l, who)[n - 1]}
<1> DEFINE Grow(S) == S \cup UNION {Ledger!Operations(m, who) : m \in S}
           Is(f, k) == f = [n \in 0..k |-> IF n = 0 THEN {l} ELSE Grow(f[n - 1])]
           Bad == {k \in Nat : ~\E f : Is(f, k)}
<1>1. ASSUME Bad # {} PROVE FALSE
  <2>1. PICK k \in Bad : \A n \in Bad : k <= n
    BY <1>1, LeastOf
  <2>2. k \in Nat /\ ~\E f : Is(f, k)
    OBVIOUS
  <2>3. k # 0
    <3> DEFINE f == [n \in 0..0 |-> {l}]
    <3>1. Is(f, 0)
      <4> HIDE DEF Grow
      <4> QED
        OBVIOUS
    <3> QED
      BY <2>2, <3>1
  <2>4. k - 1 \in Nat /\ k - 1 \notin Bad
    <3>1. k \in Nat
      BY <2>2
    <3> HIDE DEF Bad
    <3> QED
      BY <2>1, <2>3, <3>1
  <2>5. PICK f : Is(f, k - 1)
    BY <2>4
  <2> HIDE DEF Grow, Bad
  <2> DEFINE g == [n \in 0..k |-> IF n = k THEN Grow(f[k - 1]) ELSE f[n]]
  <2>6. \A n \in 0..(k - 1) : f[n] = IF n = 0 THEN {l} ELSE Grow(f[n - 1])
    <3> DEFINE fs == [n \in 0..(k - 1) |-> IF n = 0 THEN {l} ELSE Grow(f[n - 1])]
    <3>1. \A n \in 0..(k - 1) : fs[n] = IF n = 0 THEN {l} ELSE Grow(f[n - 1])
      OBVIOUS
    <3>2. f = fs
      BY <2>5
    <3> HIDE DEF fs
    <3> QED
      BY <3>1, <3>2
  <2>7. \A n \in 0..k : g[n] = IF n = 0 THEN {l} ELSE Grow(g[n - 1])
    <3> TAKE n \in 0..k
    <3>1. CASE n = k
      <4>1. k - 1 \in 0..k /\ k - 1 # k
        BY <2>2, <2>4
      <4> QED
        BY <2>3, <3>1, <4>1
    <3>2. CASE n # k /\ n # 0
      <4>1. n \in 0..(k - 1) /\ n - 1 \in 0..k /\ n - 1 # k
        BY <2>2, <3>2
      <4> QED
        BY <2>6, <3>2, <4>1
    <3>3. CASE n # k /\ n = 0
      <4>1. n \in 0..(k - 1)
        BY <2>2, <3>3
      <4> QED
        BY <2>6, <3>3, <4>1
    <3> QED
      BY <3>1, <3>2, <3>3
  <2>8. Is(g, k)
    <3> HIDE DEF g
    <3>1. g = [n \in 0..k |-> g[n]]
      BY DEF g
    <3> QED
      BY <2>7, <3>1
  <2> QED
    BY <2>2, <2>8
<1>2. \E f : Is(f, MaxUnit)
  BY <1>1, FleetAssumption
<1>3. Ledger!Reach(l, who) = CHOOSE f : Is(f, MaxUnit)
  BY DEF Ledger!Reach
<1> DEFINE r == Ledger!Reach(l, who)
<1>4. Is(r, MaxUnit)
  BY <1>2, <1>3
<1> HIDE DEF Grow, r
<1>5. \A n \in 0..MaxUnit : r[n] = IF n = 0 THEN {l} ELSE Grow(r[n - 1])
  <2> DEFINE rs == [n \in 0..MaxUnit |-> IF n = 0 THEN {l} ELSE Grow(r[n - 1])]
  <2>1. \A n \in 0..MaxUnit : rs[n] = IF n = 0 THEN {l} ELSE Grow(r[n - 1])
    OBVIOUS
  <2>2. r = rs
    BY <1>4
  <2> HIDE DEF rs
  <2> QED
    BY <2>1, <2>2
<1>6. r[0] = {l} /\ \A n \in 1..MaxUnit : r[n] = Grow(r[n - 1])
  BY <1>5, FleetAssumption
<1> QED
  BY <1>6 DEF Grow, r

\* A unit of fewer operations is a unit.
LEMMA ReachGrows ==
    ASSUME NEW l, NEW who, NEW n \in 0..MaxUnit
    PROVE  Ledger!Reach(l, who)[n] \subseteq Ledger!Units(l, who)
<1> DEFINE r == Ledger!Reach(l, who)
           Bad == {k \in Nat : k <= MaxUnit /\ ~(r[MaxUnit - k] \subseteq r[MaxUnit])}
<1>1. MaxUnit \in Nat /\ \A k \in 1..MaxUnit : r[k - 1] \subseteq r[k]
  BY ReachIs, FleetAssumption
<1> HIDE DEF r
<1>2. ASSUME Bad # {} PROVE FALSE
  <2>1. PICK k \in Bad : \A j \in Bad : k <= j
    BY <1>2, LeastOf
  <2>2. k \in Nat /\ k <= MaxUnit /\ ~(r[MaxUnit - k] \subseteq r[MaxUnit])
    OBVIOUS
  <2>3. k # 0
    BY <1>1, <2>2
  <2>4. k - 1 \in Nat /\ k - 1 <= MaxUnit /\ k - 1 \notin Bad
    BY <1>1, <2>1, <2>2, <2>3
  <2>5. r[MaxUnit - (k - 1)] \subseteq r[MaxUnit]
    BY <2>4
  <2>6. MaxUnit - (k - 1) \in 1..MaxUnit /\ MaxUnit - (k - 1) - 1 = MaxUnit - k
    BY <1>1, <2>2, <2>3
  <2>7. r[MaxUnit - k] \subseteq r[MaxUnit - (k - 1)]
    BY <1>1, <2>6
  <2> QED
    BY <2>2, <2>5, <2>7
<1>3. MaxUnit - n \in Nat /\ MaxUnit - n <= MaxUnit /\ MaxUnit - (MaxUnit - n) = n
  BY <1>1
<1>4. r[n] \subseteq r[MaxUnit]
  BY <1>2, <1>3
<1> QED
  BY <1>4 DEF Ledger!Units, r

-----------------------------------------------------------------------------
(* The inductive invariant.                                                *)

Sessions == [base : Nat, made : 0..MaxUnit, booked : SUBSET Claims]

FleetTypes ==
    /\ db \in Ledgers /\ replica \in Ledgers
    /\ failovers \in 0..MaxFailovers
    /\ lock \in Governors \cup {None}
    /\ pc \in [Governors -> {"idle", "in", "joined"}]
    /\ view \in [Governors -> Seq(Entries)]
    /\ sess \in [Governors -> Sessions]
    /\ staged \in [Governors -> SUBSET Claims]
    /\ dirty \in [Governors -> BOOLEAN]
    /\ unusable \in [Governors -> BOOLEAN]

\* A caller's transaction joined holds the lock until it ends: no server
\* timeout applies to it, and the view it decides on is the ledger.
JoinedHolds(g) == pc[g] = "joined" => lock = g /\ view[g] = db.chain

Owing(new) == [db EXCEPT !.claims = @ \cup new, !.owed = @ \cup new]

\* The claims it leaves are ones the ledger may take as it stands.
StagedFits(g) ==
    staged[g] # {} =>
        /\ pc[g] = "joined"
        /\ ~Ledger!Halted(db.chain)
        /\ Owing(staged[g]) \in Ledger!Claimed(db)

\* A session that still has the lock has decided on exactly the ledger: what
\* it sees is what its operations, one after another, make of it.
DecidesOnLedger(g) ==
    pc[g] = "in" /\ lock = g =>
        /\ Len(db.chain) = sess[g].base
        /\ IsPrefix(db.chain, view[g])
        /\ sess[g].booked \subseteq db.claims
        /\ Seen(g) \in Ledger!Reach(db, <<g, failovers>>)[sess[g].made]
        /\ Sound(Seen(g))

\* What a session started from is committed, also after it lost the lock.
StartsCommitted(g) ==
    pc[g] = "in" =>
        /\ sess[g].base <= Len(view[g])
        /\ failovers = 0 => IsPrefix(SubSeq(view[g], 1, sess[g].base), db.chain)

ServesCommitted(g) ==
    failovers = 0 /\ pc[g] = "idle" /\ ~dirty[g] => IsPrefix(view[g], db.chain)

AlarmIsTrue(g) == unusable[g] => failovers > 0

Member(g) ==
    /\ JoinedHolds(g) /\ StagedFits(g) /\ DecidesOnLedger(g)
    /\ StartsCommitted(g) /\ ServesCommitted(g) /\ AlarmIsTrue(g)

FleetInv ==
    /\ FleetTypes
    /\ Sound(db) /\ Sound(replica)
    /\ \A g \in Governors : Member(g)

LEMMA SoundStays ==
    ASSUME FleetInv, db' = db, replica' = replica
    PROVE  Sound(db)' /\ Sound(replica)'
<1>1. Sound(db) /\ Sound(replica)
  BY DEF FleetInv
<1>2. Sound(db)'
  BY <1>1 DEF Sound
<1>3. Sound(replica)'
  BY <1>1 DEF Sound
<1> QED
  BY <1>2, <1>3

\* What a governor does by itself leaves the others as they are.
LEMMA OthersKeep ==
    ASSUME FleetInv, NEW g \in Governors, NEW h \in Governors, h # g,
           db' = db, failovers' = failovers, lock' = h <=> lock = h,
           pc'[h] = pc[h], view'[h] = view[h], sess'[h] = sess[h],
           staged'[h] = staged[h], dirty'[h] = dirty[h], unusable'[h] = unusable[h]
    PROVE  Member(h)'
<1>1. Member(h)
  BY DEF FleetInv
<1> QED
  BY <1>1 DEF Member, JoinedHolds, StagedFits, Owing, DecidesOnLedger, Seen, StartsCommitted,
              ServesCommitted, AlarmIsTrue

\* What it commits under the lock leaves the others true.
LEMMA OthersKeepWhenCommitting ==
    ASSUME FleetInv, NEW g \in Governors, NEW h \in Governors, h # g,
           lock = g, lock' # h, db'.chain \in Seq(Entries), IsPrefix(db.chain, db'.chain),
           failovers' = failovers,
           pc'[h] = pc[h], view'[h] = view[h], sess'[h] = sess[h],
           staged'[h] = staged[h], dirty'[h] = dirty[h], unusable'[h] = unusable[h]
    PROVE  Member(h)'
<1>1. Member(h)
  BY DEF FleetInv
<1>2. pc[h] # "joined" /\ staged[h] = {}
  BY <1>1 DEF Member, JoinedHolds, StagedFits
<1>3. JoinedHolds(h)' /\ StagedFits(h)' /\ DecidesOnLedger(h)' /\ AlarmIsTrue(h)'
  BY <1>1, <1>2 DEF Member, JoinedHolds, StagedFits, DecidesOnLedger, AlarmIsTrue
<1>4. db.chain \in Seq(Entries) /\ view[h] \in Seq(Entries)
  BY DEF FleetInv, FleetTypes, Ledgers
<1>5. StartsCommitted(h)'
  <2> SUFFICES ASSUME pc[h] = "in"
               PROVE  /\ sess[h].base <= Len(view[h])
                      /\ failovers = 0 => IsPrefix(SubSeq(view[h], 1, sess[h].base), db'.chain)
    BY DEF StartsCommitted
  <2>1. /\ sess[h].base <= Len(view[h])
        /\ failovers = 0 => IsPrefix(SubSeq(view[h], 1, sess[h].base), db.chain)
    BY <1>1 DEF Member, StartsCommitted
  <2>2. sess[h].base \in Nat
    BY DEF FleetInv, FleetTypes, Sessions
  <2>3. \A i \in 1..sess[h].base : view[h][i] \in Entries
    BY <1>4, <2>1, <2>2, LenProperties
  <2>4. SubSeq(view[h], 1, sess[h].base) \in Seq(Entries)
    BY <2>2, <2>3, SubSeqProperties
  <2> QED
    BY <1>4, <2>1, <2>4, PrefixTrans
<1>6. ServesCommitted(h)'
  BY <1>1, <1>4, PrefixTrans DEF Member, ServesCommitted
<1> QED
  BY <1>3, <1>5, <1>6 DEF Member

-----------------------------------------------------------------------------
(* The actions, one by one.                                                *)

\* _follow leaves a view that is the ledger, or a governor that says it cannot.
LEMMA FollowIs ==
    ASSUME FleetInv, NEW g \in Governors, Follow(g)
    PROVE  /\ view' \in [Governors -> Seq(Entries)]
           /\ dirty' \in [Governors -> BOOLEAN] /\ unusable' \in [Governors -> BOOLEAN]
           /\ \A h \in Governors \ {g} :
                view'[h] = view[h] /\ dirty'[h] = dirty[h] /\ unusable'[h] = unusable[h]
           /\ \/ view'[g] = db.chain /\ unusable'[g] = unusable[g]
              \/ /\ ~dirty[g] /\ ~IsPrefix(view[g], db.chain)
                 /\ unusable'[g] /\ view'[g] = view[g]
<1>1. db.chain \in Seq(Entries)
  BY DEF FleetInv, FleetTypes, Ledgers
<1> QED
  BY <1>1 DEF Follow, CatchUp, Reload, Fetched, FleetInv, FleetTypes

LEMMA TypesOf ==
    ASSUME FleetInv, NEW g \in Governors
    PROVE  /\ Member(g) /\ Sound(db) /\ Sound(replica)
           /\ db \in Ledgers /\ db.chain \in Seq(Entries) /\ Len(db.chain) \in Nat
           /\ db.claims \in SUBSET Claims /\ db.owed \in SUBSET Claims
           /\ replica \in Ledgers
           /\ failovers \in Nat /\ <<g, failovers>> \in Writers
           /\ g # None /\ None \notin Governors
           /\ lock \in Governors \cup {None}
           /\ pc \in [Governors -> {"idle", "in", "joined"}]
           /\ view \in [Governors -> Seq(Entries)] /\ Len(view[g]) \in Nat
           /\ sess \in [Governors -> Sessions]
           /\ sess[g].base \in Nat /\ sess[g].made \in 0..MaxUnit
           /\ sess[g].booked \in SUBSET Claims
           /\ staged \in [Governors -> SUBSET Claims]
           /\ dirty \in [Governors -> BOOLEAN] /\ unusable \in [Governors -> BOOLEAN]
<1>1. FleetTypes /\ Member(g) /\ Sound(db) /\ Sound(replica)
  BY DEF FleetInv
<1>2. /\ db \in Ledgers /\ db.chain \in Seq(Entries) /\ replica \in Ledgers
      /\ db.claims \in SUBSET Claims /\ db.owed \in SUBSET Claims
  BY <1>1 DEF FleetTypes, Ledgers
<1>3. failovers \in Nat /\ <<g, failovers>> \in Writers
  BY <1>1, FleetAssumption DEF FleetTypes, Writers
<1>4. g # None /\ None \notin Governors
  BY FleetAssumption
<1>5. /\ sess[g].base \in Nat /\ sess[g].made \in 0..MaxUnit
      /\ sess[g].booked \in SUBSET Claims
  BY <1>1 DEF FleetTypes, Sessions
<1>6. Len(db.chain) \in Nat /\ Len(view[g]) \in Nat
  BY <1>1, <1>2, LenProperties DEF FleetTypes
<1> QED
  BY <1>1, <1>2, <1>3, <1>4, <1>5, <1>6 DEF FleetTypes

LEMMA RefreshKeeps == ASSUME FleetInv, NEW g \in Governors, Refresh(g) PROVE FleetInv'
<1>1. FleetTypes' /\ Sound(db)' /\ Sound(replica)'
  <2>1. FleetTypes'
    BY FollowIs DEF Refresh, FleetInv, FleetTypes
  <2>2. db' = db /\ replica' = replica
    BY DEF Refresh
  <2> QED
    BY <2>1, <2>2, SoundStays
<1>2. ASSUME NEW h \in Governors, h # g PROVE Member(h)'
  BY <1>2, FollowIs, OthersKeep DEF Refresh
<1>3. Member(g)'
  <2>1. Member(g) /\ pc[g] = "idle" /\ pc'[g] = "idle" /\ staged'[g] = staged[g] /\ ~unusable[g]
        /\ db' = db /\ failovers' = failovers /\ db.chain \in Seq(Entries)
        /\ failovers \in Nat
    BY FleetAssumption DEF FleetInv, FleetTypes, Ledgers, Refresh
  <2>2. JoinedHolds(g)' /\ StagedFits(g)' /\ DecidesOnLedger(g)' /\ StartsCommitted(g)'
    BY <2>1 DEF Member, JoinedHolds, StagedFits, DecidesOnLedger, StartsCommitted
  <2>3. failovers = 0 => view'[g] = db.chain /\ unusable'[g] = unusable[g]
    BY <2>1, FollowIs DEF Refresh, Member, ServesCommitted
  <2>4. ServesCommitted(g)' /\ AlarmIsTrue(g)'
    BY <2>1, <2>3, PrefixSelf DEF Member, ServesCommitted, AlarmIsTrue
  <2> QED
    BY <2>2, <2>4 DEF Member
<1> QED
  BY <1>1, <1>2, <1>3 DEF FleetInv

LEMMA GrantedKeeps == ASSUME FleetInv, NEW g \in Governors, Granted(g) PROVE FleetInv'
<1> DEFINE new == [NoSession EXCEPT !.base = Len(view'[g])]
<1>0. /\ Member(g) /\ pc[g] = "idle" /\ staged' = staged /\ ~unusable[g] /\ ~dirty[g]
      /\ db' = db /\ replica' = replica /\ failovers' = failovers /\ db.chain \in Seq(Entries)
      /\ failovers \in Nat /\ lock = None /\ g # None /\ None \notin Governors
      /\ db \in Ledgers /\ pc \in [Governors -> {"idle", "in", "joined"}]
      /\ sess \in [Governors -> Sessions] /\ staged[g] = {}
  BY TypesOf DEF Granted, Member, StagedFits
<1>00. /\ \A h \in Governors \ {g} :
              view'[h] = view[h] /\ dirty'[h] = dirty[h] /\ unusable'[h] = unusable[h]
       /\ view' \in [Governors -> Seq(Entries)]
       /\ dirty' \in [Governors -> BOOLEAN] /\ unusable' \in [Governors -> BOOLEAN]
       /\ \/ view'[g] = db.chain /\ ~unusable'[g]
          \/ failovers # 0 /\ unusable'[g] /\ view'[g] = view[g]
  BY <1>0, FollowIs DEF Granted, Member, ServesCommitted
<1>1. Sound(db)' /\ Sound(replica)'
  BY <1>0, SoundStays
<1>2. CASE ~unusable'[g]
  <2>1. /\ lock' = g /\ pc' = [pc EXCEPT ![g] = "in"] /\ sess' = [sess EXCEPT ![g] = new]
        /\ view'[g] = db.chain
    BY <1>00, <1>2 DEF Granted
  <2>2. /\ new \in [base : {Len(view'[g])}, made : {0}, booked : {{}}]
        /\ new.base = Len(view'[g]) /\ new.made = 0 /\ new.booked = {}
    BY DEF NoSession
  <2> HIDE DEF new
  <2>3. new \in Sessions
    <3>1. Len(view'[g]) \in Nat /\ 0 \in 0..MaxUnit
      BY <1>0, <2>1, FleetAssumption, LenProperties
    <3> QED
      BY <2>2, <3>1 DEF Sessions
  <2>4. FleetTypes'
    <3>1. lock' \in Governors \cup {None} /\ pc' \in [Governors -> {"idle", "in", "joined"}]
          /\ sess' \in [Governors -> Sessions]
      BY <1>0, <2>1, <2>3
    <3> QED
      BY <1>0, <1>00, <3>1 DEF FleetInv, FleetTypes
  <2>5. ASSUME NEW h \in Governors, h # g PROVE Member(h)'
    <3>1. lock' = h <=> lock = h
      BY <1>0, <2>1, <2>5
    <3>2. pc'[h] = pc[h] /\ sess'[h] = sess[h] /\ staged'[h] = staged[h]
      BY <1>0, <2>1, <2>5
    <3> QED
      BY <1>0, <1>00, <2>5, <3>1, <3>2, OthersKeep
  <2>6. Member(g)'
    <3>1. /\ pc'[g] = "in" /\ view'[g] = db.chain /\ staged'[g] = {}
          /\ sess'[g].base = Len(db.chain) /\ sess'[g].made = 0 /\ sess'[g].booked = {}
      BY <1>0, <2>1, <2>2
    <3>2. Seen(g)' = db
      BY <1>0, <3>1 DEF Seen, Ledgers
    <3>3. db \in Ledger!Reach(db, <<g, failovers>>)[0]
      BY ReachIs
    <3>4. IsPrefix(db.chain, db.chain) /\ SubSeq(db.chain, 1, Len(db.chain)) = db.chain
          /\ Len(db.chain) \in Nat
      BY <1>0, PrefixSelf, SubSeqFull, LenProperties
    <3>5. DecidesOnLedger(g)'
      BY <1>0, <3>1, <3>2, <3>3, <3>4 DEF DecidesOnLedger, FleetInv
    <3>6. StartsCommitted(g)'
      <4> SUFFICES /\ sess'[g].base <= Len(view'[g])
                   /\ failovers' = 0 => IsPrefix(SubSeq(view'[g], 1, sess'[g].base), db'.chain)
        BY DEF StartsCommitted
      <4>1. sess'[g].base <= Len(view'[g])
        BY <3>1, <3>4
      <4>2. SubSeq(view'[g], 1, sess'[g].base) = db.chain
        BY <3>1, <3>4, Zenon
      <4> QED
        BY <1>0, <3>4, <4>1, <4>2
    <3> QED
      BY <1>2, <3>1, <3>5, <3>6 DEF Member, JoinedHolds, StagedFits, ServesCommitted, AlarmIsTrue
  <2> QED
    BY <1>1, <2>4, <2>5, <2>6 DEF FleetInv
<1>3. CASE unusable'[g]
  <2>1. lock' = lock /\ pc' = pc /\ sess' = sess /\ failovers # 0
    BY <1>00, <1>3 DEF Granted
  <2>2. FleetTypes'
    BY <1>0, <1>00, <2>1 DEF FleetInv, FleetTypes
  <2>3. ASSUME NEW h \in Governors, h # g PROVE Member(h)'
    BY <1>0, <1>00, <2>1, <2>3, OthersKeep
  <2>4. Member(g)'
    BY <1>0, <2>1 DEF Member, JoinedHolds, StagedFits, DecidesOnLedger, StartsCommitted,
                      ServesCommitted, AlarmIsTrue
  <2> QED
    BY <1>1, <2>2, <2>3, <2>4 DEF FleetInv
<1> QED
  BY <1>2, <1>3

LEMMA IdleMember ==
    ASSUME NEW g \in Governors, pc'[g] = "idle", staged'[g] = {},
           unusable'[g] => failovers' > 0,
           failovers' = 0 /\ ~dirty'[g] => IsPrefix(view'[g], db'.chain)
    PROVE  Member(g)'
  BY DEF Member, JoinedHolds, StagedFits, DecidesOnLedger, StartsCommitted,
         ServesCommitted, AlarmIsTrue

LEMMA FreeIs ==
    ASSUME FleetInv, NEW g \in Governors
    PROVE  /\ Free(g) \in Governors \cup {None} /\ Free(g) # g
           /\ \A h \in Governors \ {g} : Free(g) = h <=> lock = h
<1>1. lock \in Governors \cup {None} /\ None \notin Governors
  BY TypesOf
<1> QED
  BY <1>1 DEF Free

LEMMA SeenIs ==
    ASSUME FleetInv, NEW g \in Governors
    PROVE  /\ Seen(g) \in Ledgers
           /\ Seen(g).chain = view[g] /\ Seen(g).owed = db.owed
           /\ Seen(g).claims = db.claims \ sess[g].booked
<1>1. view[g] \in Seq(Entries)
  BY TypesOf
<1> QED
  BY <1>1, TypesOf DEF Seen, Ledgers

LEMMA OperateKeeps == ASSUME FleetInv, NEW g \in Governors, Operate(g) PROVE FleetInv'
<1> DEFINE who == <<g, failovers>>
<1>1. PICK l \in Ledger!Operations(Seen(g), who) :
        /\ Seen(g).claims \ l.claims # {} => lock = g
        /\ view' = [view EXCEPT ![g] = l.chain]
        /\ sess' = [sess EXCEPT ![g].booked = @ \cup (Seen(g).claims \ l.claims),
                                ![g].made = @ + 1]
  BY DEF Operate
<1>2. /\ pc[g] = "in" /\ sess[g].made < MaxUnit /\ db' = db /\ replica' = replica
      /\ failovers' = failovers /\ lock' = lock /\ pc' = pc /\ staged' = staged
      /\ dirty' = dirty /\ unusable' = unusable
  BY DEF Operate
<1>3. /\ l \in Ledgers /\ l.owed = db.owed /\ l.claims \subseteq Seen(g).claims
      /\ IsPrefix(view[g], l.chain)
  BY SeenIs, TypesOf, OperationAdds, BooksExtends
<1>4. l.chain \in Seq(Entries) /\ l = [chain |-> l.chain, claims |-> l.claims, owed |-> l.owed]
  BY <1>3 DEF Ledgers
<1> DEFINE booked == sess[g].booked \cup (Seen(g).claims \ l.claims)
           next == sess[g].made + 1
<1>5. booked \in SUBSET Claims /\ next \in 0..MaxUnit /\ next \in 1..MaxUnit
      /\ next - 1 = sess[g].made /\ sess[g] \in Sessions
      /\ Seen(g).claims = db.claims \ sess[g].booked
  BY <1>2, SeenIs, TypesOf, FleetAssumption
<1> HIDE DEF booked, next
<1> DEFINE new == [sess[g] EXCEPT !.booked = booked, !.made = next]
<1>6. /\ sess' = [sess EXCEPT ![g] = new]
      /\ new \in Sessions
      /\ new.base = sess[g].base /\ new.made = next /\ new.booked = booked
  BY <1>1, <1>5, TypesOf DEF Sessions, booked, next
<1> HIDE DEF new
<1>7. /\ sess' \in [Governors -> Sessions]
      /\ sess'[g].base = sess[g].base /\ sess'[g].made = next /\ sess'[g].booked = booked
      /\ view' \in [Governors -> Seq(Entries)] /\ view'[g] = l.chain
      /\ \A h \in Governors \ {g} : view'[h] = view[h] /\ sess'[h] = sess[h]
  BY <1>1, <1>4, <1>6, TypesOf, ZenonT(40)
<1>8. FleetTypes' /\ Sound(db)' /\ Sound(replica)'
  <2>1. FleetTypes'
    BY <1>2, <1>7 DEF FleetInv, FleetTypes
  <2>2. db' = db /\ replica' = replica
    BY <1>2
  <2> QED
    BY <2>1, <2>2, SoundStays
<1>9. ASSUME NEW h \in Governors, h # g PROVE Member(h)'
  BY <1>2, <1>7, <1>9, OthersKeep
<1>10. Member(g)'
  <2>1. Member(g)
    BY TypesOf
  <2>2. JoinedHolds(g)' /\ StagedFits(g)' /\ ServesCommitted(g)' /\ AlarmIsTrue(g)'
    BY <1>2, <2>1 DEF Member, JoinedHolds, StagedFits, ServesCommitted, AlarmIsTrue
  <2>3. StartsCommitted(g)'
    <3>1. /\ sess[g].base <= Len(view[g])
          /\ failovers = 0 => IsPrefix(SubSeq(view[g], 1, sess[g].base), db.chain)
      BY <1>2, <2>1 DEF Member, StartsCommitted
    <3>2. Len(view[g]) <= Len(l.chain) /\ Len(l.chain) \in Nat
      BY <1>3, <1>4, LenProperties DEF IsPrefix
    <3>3. SubSeq(l.chain, 1, sess[g].base) = SubSeq(view[g], 1, sess[g].base)
      BY <1>3, <1>4, <3>1, TypesOf, SubSeqOfPrefix
    <3>4. sess[g].base <= Len(l.chain)
      BY <3>1, <3>2, TypesOf
    <3> QED
      BY <1>2, <1>7, <3>1, <3>3, <3>4 DEF StartsCommitted
  <2>4. DecidesOnLedger(g)'
    <3> SUFFICES ASSUME lock = g
                 PROVE  /\ Len(db.chain) = sess[g].base
                        /\ IsPrefix(db.chain, l.chain)
                        /\ booked \subseteq db.claims
                        /\ Seen(g)' \in Ledger!Reach(db, who)[next]
                        /\ Sound(Seen(g)')
      BY <1>2, <1>7 DEF DecidesOnLedger
    <3>1. /\ Len(db.chain) = sess[g].base /\ IsPrefix(db.chain, view[g])
          /\ sess[g].booked \subseteq db.claims
          /\ Seen(g) \in Ledger!Reach(db, who)[sess[g].made] /\ Sound(Seen(g))
      BY <1>2, <2>1 DEF Member, DecidesOnLedger
    <3>2. IsPrefix(db.chain, l.chain)
      BY <1>3, <1>4, <3>1, TypesOf, PrefixTrans
    <3>3. booked \subseteq db.claims /\ db.claims \ booked = l.claims
      BY <1>3, <1>5, <3>1 DEF booked
    <3>4. Seen(g)' = l
      <4>1. Seen(g)' = [[db EXCEPT !.chain = l.chain] EXCEPT !.claims = l.claims]
        BY <1>2, <1>7, <3>3, TypesOf DEF Seen, Ledgers
      <4>2. db = [chain |-> db.chain, claims |-> db.claims, owed |-> db.owed]
        BY TypesOf DEF Ledgers
      <4> QED
        BY <1>3, <1>4, <4>1, <4>2
    <3>5. l \in Ledger!Reach(db, who)[next]
      <4>1. Seen(g) \in Ledger!Reach(db, who)[next - 1]
        BY <1>5, <3>1
      <4> QED
        BY <1>1, <1>5, <4>1, ReachIs
    <3>6. Sound(l)
      BY <1>1, <3>1, SeenIs, TypesOf, OperationKeepsSound
    <3> QED
      BY <3>1, <3>2, <3>3, <3>4, <3>5, <3>6
  <2> QED
    BY <2>1, <2>2, <2>3, <2>4 DEF Member
<1> QED
  BY <1>8, <1>9, <1>10 DEF FleetInv

\* The end of a session that commits nothing.
LEMMA EndedIs ==
    ASSUME FleetInv, NEW g \in Governors, Ended(g)
    PROVE  /\ lock' \in Governors \cup {None} /\ lock' # g
           /\ pc' \in [Governors -> {"idle", "in", "joined"}] /\ pc'[g] = "idle"
           /\ sess' \in [Governors -> Sessions]
           /\ \A h \in Governors \ {g} :
                (lock' = h <=> lock = h) /\ pc'[h] = pc[h] /\ sess'[h] = sess[h]
           /\ failovers' = failovers /\ staged' = staged
<1>1. NoSession \in Sessions
  BY FleetAssumption DEF NoSession, Sessions
<1>2. /\ lock' \in Governors \cup {None} /\ lock' # g
      /\ \A h \in Governors \ {g} : lock' = h <=> lock = h
  BY FreeIs DEF Ended
<1>3. /\ pc' \in [Governors -> {"idle", "in", "joined"}] /\ pc'[g] = "idle"
      /\ \A h \in Governors \ {g} : pc'[h] = pc[h]
  BY TypesOf DEF Ended
<1>4. /\ sess' \in [Governors -> Sessions]
      /\ \A h \in Governors \ {g} : sess'[h] = sess[h]
  BY <1>1, TypesOf DEF Ended
<1> QED
  BY <1>2, <1>3, <1>4 DEF Ended

LEMMA EndEmptyKeeps == ASSUME FleetInv, NEW g \in Governors, EndEmpty(g) PROVE FleetInv'
<1>1. /\ pc[g] = "in" /\ ~Wrote(g) /\ Ended(g) /\ db' = db /\ replica' = replica
      /\ view' = view /\ dirty' = dirty /\ unusable' = unusable
  BY DEF EndEmpty
<1>2. FleetTypes' /\ Sound(db)' /\ Sound(replica)'
  <2>1. FleetTypes'
    BY <1>1, EndedIs DEF FleetInv, FleetTypes
  <2>2. db' = db /\ replica' = replica
    BY <1>1
  <2> QED
    BY <2>1, <2>2, SoundStays
<1>3. ASSUME NEW h \in Governors, h # g PROVE Member(h)'
  <2>1. /\ lock' = h <=> lock = h
        /\ pc'[h] = pc[h] /\ sess'[h] = sess[h] /\ failovers' = failovers /\ staged' = staged
    BY <1>1, <1>3, EndedIs
  <2> QED
    BY <1>1, <1>3, <2>1, OthersKeep
<1>4. Member(g)'
  <2>1. /\ Member(g) /\ staged[g] = {} /\ pc'[g] = "idle" /\ staged' = staged
        /\ failovers' = failovers
    BY <1>1, TypesOf, EndedIs DEF Member, StagedFits
  <2>2. sess[g].base = Len(view[g])
    <3>1. sess[g].base <= Len(view[g])
      BY <1>1, <2>1 DEF Member, StartsCommitted
    <3>2. sess[g].base \in Nat /\ Len(view[g]) \in Nat
      BY TypesOf
    <3> QED
      BY <1>1, <3>1, <3>2 DEF Wrote
  <2>3. SubSeq(view[g], 1, Len(view[g])) = view[g]
    BY TypesOf, SubSeqFull
  <2>4. failovers = 0 => IsPrefix(view[g], db.chain)
    BY <1>1, <2>1, <2>2, <2>3 DEF Member, StartsCommitted
  <2> QED
    BY <1>1, <2>1, <2>4, IdleMember DEF Member, AlarmIsTrue
<1> QED
  BY <1>2, <1>3, <1>4 DEF FleetInv

\* What a session commits is what it decided on the ledger it extends.
LEMMA WrittenIsSeen ==
    ASSUME FleetInv, NEW g \in Governors, Committing(g)
    PROVE  /\ Written(g) = Seen(g) /\ Written(g).chain = view[g] /\ Written(g) \in Ledgers
           /\ IsPrefix(db.chain, view[g])
           /\ Sound(Written(g))
           /\ Written(g) \in Ledger!Units(db, <<g, failovers>>)
<1>1. /\ pc[g] = "in" /\ lock = g /\ Len(db.chain) = sess[g].base
      /\ IsPrefix(db.chain, view[g])
  BY DEF Committing, Admits
<1>2. /\ Seen(g) \in Ledger!Reach(db, <<g, failovers>>)[sess[g].made]
      /\ Sound(Seen(g))
  BY <1>1, TypesOf DEF Member, DecidesOnLedger
<1>3. db.chain \o Queued(g) = view[g]
  <2>1. db.chain \o SubSeq(view[g], Len(db.chain) + 1, Len(view[g])) = view[g]
    BY <1>1, TypesOf, PrefixRest
  <2> QED
    BY <1>1, <2>1 DEF Queued
<1>4. Written(g) = Seen(g)
  <2> HIDE DEF Queued
  <2> QED
    BY <1>3 DEF Written, Seen
<1>5. Seen(g) \in Ledger!Units(db, <<g, failovers>>)
  BY <1>2, TypesOf, ReachGrows
<1> QED
  BY <1>1, <1>2, <1>4, <1>5, SeenIs

\* _recover leaves the view as the ledger is, or known to be behind.
LEMMA RecoverIs ==
    ASSUME FleetInv, NEW g \in Governors, Recover(g), db'.chain \in Seq(Entries)
    PROVE  /\ view' \in [Governors -> Seq(Entries)] /\ dirty' \in [Governors -> BOOLEAN]
           /\ \A h \in Governors \ {g} : view'[h] = view[h] /\ dirty'[h] = dirty[h]
           /\ view'[g] = db'.chain \/ dirty'[g]
           /\ unusable' = unusable
  BY TypesOf DEF Recover, Fetched

LEMMA CommittedKeeps ==
    ASSUME FleetInv, NEW g \in Governors, Committing(g), db' = Written(g), replica' = db,
           Ended(g), UNCHANGED <<view, dirty, unusable>> \/ Recover(g)
    PROVE  FleetInv'
<1>1. /\ db' \in Ledgers /\ db'.chain = view[g] /\ db'.chain \in Seq(Entries)
      /\ IsPrefix(db.chain, db'.chain) /\ Sound(db')
  BY WrittenIsSeen, TypesOf
<1>2. /\ view' \in [Governors -> Seq(Entries)] /\ dirty' \in [Governors -> BOOLEAN]
      /\ \A h \in Governors \ {g} : view'[h] = view[h] /\ dirty'[h] = dirty[h]
      /\ view'[g] = db'.chain \/ dirty'[g]
      /\ unusable' = unusable
  BY <1>1, RecoverIs, TypesOf
<1>3. FleetTypes'
  BY <1>1, <1>2, EndedIs, TypesOf DEF FleetInv, FleetTypes
<1>4. ASSUME NEW h \in Governors, h # g PROVE Member(h)'
  <2>1. lock = g /\ lock' # h
    BY <1>4, EndedIs DEF Committing
  <2>2. /\ pc'[h] = pc[h] /\ sess'[h] = sess[h] /\ staged'[h] = staged[h]
        /\ failovers' = failovers
    BY <1>4, EndedIs
  <2> QED
    BY <1>1, <1>2, <1>4, <2>1, <2>2, OthersKeepWhenCommitting
<1>5. Member(g)'
  <2>1. Member(g) /\ staged[g] = {} /\ pc'[g] = "idle" /\ staged' = staged
        /\ failovers' = failovers
    BY TypesOf, EndedIs DEF Committing, Member, StagedFits
  <2>2. ~dirty'[g] => IsPrefix(view'[g], db'.chain)
    BY <1>1, <1>2, PrefixSelf
  <2> QED
    BY <1>2, <2>1, <2>2, IdleMember DEF Member, AlarmIsTrue
<1>6. Sound(db)' /\ Sound(replica)'
  <2>1. Sound(db) /\ replica' = db
    BY TypesOf
  <2> QED
    BY <1>1, <2>1 DEF Sound
<1> QED
  BY <1>3, <1>4, <1>5, <1>6 DEF FleetInv

LEMMA EndRolledBackKeeps ==
    ASSUME FleetInv, NEW g \in Governors, EndRolledBack(g) PROVE FleetInv'
<1>1. /\ pc[g] = "in" /\ Ended(g) /\ db' = db /\ replica' = replica /\ Recover(g)
  BY DEF EndRolledBack
<1>2. /\ view' \in [Governors -> Seq(Entries)] /\ dirty' \in [Governors -> BOOLEAN]
      /\ \A h \in Governors \ {g} : view'[h] = view[h] /\ dirty'[h] = dirty[h]
      /\ view'[g] = db'.chain \/ dirty'[g]
      /\ unusable' = unusable
  BY <1>1, RecoverIs, TypesOf
<1>3. FleetTypes' /\ Sound(db)' /\ Sound(replica)'
  <2>1. FleetTypes'
    BY <1>1, <1>2, EndedIs DEF FleetInv, FleetTypes
  <2> QED
    BY <1>1, <2>1, SoundStays
<1>4. ASSUME NEW h \in Governors, h # g PROVE Member(h)'
  <2>1. /\ lock' = h <=> lock = h
        /\ pc'[h] = pc[h] /\ sess'[h] = sess[h] /\ failovers' = failovers /\ staged' = staged
    BY <1>1, <1>4, EndedIs
  <2> QED
    BY <1>1, <1>2, <1>4, <2>1, OthersKeep
<1>5. Member(g)'
  <2>1. Member(g) /\ staged[g] = {} /\ pc'[g] = "idle" /\ staged' = staged
        /\ failovers' = failovers
    BY <1>1, TypesOf, EndedIs DEF Member, StagedFits
  <2>2. ~dirty'[g] => IsPrefix(view'[g], db'.chain)
    BY <1>1, <1>2, TypesOf, PrefixSelf
  <2> QED
    BY <1>2, <2>1, <2>2, IdleMember DEF Member, AlarmIsTrue
<1> QED
  BY <1>3, <1>4, <1>5 DEF FleetInv

LEMMA JoinKeeps == ASSUME FleetInv, NEW g \in Governors, Join(g) PROVE FleetInv'
<1>1. /\ Member(g) /\ pc[g] = "idle" /\ staged' = staged /\ ~unusable[g] /\ ~dirty[g]
      /\ db' = db /\ replica' = replica /\ failovers' = failovers /\ sess' = sess
      /\ failovers \in Nat /\ lock = None /\ None \notin Governors
      /\ pc \in [Governors -> {"idle", "in", "joined"}] /\ staged[g] = {}
  BY TypesOf DEF Join, Member, StagedFits
<1>2. /\ \A h \in Governors \ {g} :
              view'[h] = view[h] /\ dirty'[h] = dirty[h] /\ unusable'[h] = unusable[h]
      /\ view' \in [Governors -> Seq(Entries)]
      /\ dirty' \in [Governors -> BOOLEAN] /\ unusable' \in [Governors -> BOOLEAN]
      /\ \/ view'[g] = db.chain /\ ~unusable'[g]
         \/ failovers # 0 /\ unusable'[g] /\ view'[g] = view[g]
  BY <1>1, FollowIs DEF Join, Member, ServesCommitted
<1>3. /\ lock' \in Governors \cup {None}
      /\ pc' \in [Governors -> {"idle", "in", "joined"}]
      /\ \A h \in Governors \ {g} : pc'[h] = pc[h] /\ (lock' = h <=> lock = h)
      /\ \/ ~unusable'[g] /\ lock' = g /\ pc'[g] = "joined"
         \/ unusable'[g] /\ pc'[g] = "idle"
  BY <1>1 DEF Join
<1>4. FleetTypes' /\ Sound(db)' /\ Sound(replica)'
  <2>1. FleetTypes'
    BY <1>1, <1>2, <1>3 DEF FleetInv, FleetTypes
  <2>2. db' = db /\ replica' = replica
    BY <1>1
  <2> QED
    BY <2>1, <2>2, SoundStays
<1>5. ASSUME NEW h \in Governors, h # g PROVE Member(h)'
  BY <1>1, <1>2, <1>3, <1>5, OthersKeep
<1>6. CASE ~unusable'[g]
  <2>1. Member(g)'
    BY <1>1, <1>2, <1>3, <1>6 DEF Member, JoinedHolds, StagedFits, DecidesOnLedger,
       StartsCommitted, ServesCommitted, AlarmIsTrue
  <2> QED
    BY <1>4, <1>5, <2>1 DEF FleetInv
<1>7. CASE unusable'[g]
  <2>1. Member(g)'
    <3>1. failovers' > 0 /\ failovers' # 0
      BY <1>1, <1>2, <1>7
    <3>2. pc'[g] = "idle" /\ staged'[g] = {}
      BY <1>1, <1>3, <1>7
    <3> QED
      BY <3>1, <3>2, IdleMember
  <2> QED
    BY <1>4, <1>5, <2>1 DEF FleetInv
<1> QED
  BY <1>6, <1>7

\* A claim left by a caller is one the ledger may take: the caller has the
\* lock, and the view it looked at is the ledger.
LEMMA ClaimFits ==
    ASSUME FleetInv, NEW g \in Governors, Claim(g)
    PROVE  /\ ~Ledger!Halted(db.chain) /\ staged'[g] \in SUBSET Claims
           /\ Owing(staged'[g]) \in Ledger!Claimed(db)
<1>1. pc[g] = "joined" /\ view[g] = db.chain /\ ~Ledger!Halted(db.chain)
  BY TypesOf DEF Claim, Member, JoinedHolds
<1>2. db = [chain |-> db.chain, claims |-> db.claims, owed |-> db.owed]
  BY TypesOf DEF Ledgers
<1>3. [db EXCEPT !.chain = view[g]] = db
  BY <1>1, <1>2
<1>4. PICK l \in Ledger!Claimed(db) : staged' = [staged EXCEPT ![g] = l.claims \ db.claims]
  BY <1>3 DEF Claim
<1>5. PICK new \in [id : ClaimIds, amount : ClaimAmounts,
                    hold : {None} \cup Ledger!Ids(db.chain, "HOLD")] :
        /\ \A old \in db.owed : new.id # old.id
        /\ l = Owing({new})
  BY DEF Ledger!Claimed, Owing
<1>6. db.claims \subseteq db.owed
  BY TypesOf DEF Sound
<1>7. l.claims \ db.claims = {new}
  <2>1. l.claims = db.claims \cup {new}
    BY <1>2, <1>5 DEF Owing
  <2> QED
    BY <1>5, <1>6, <2>1
<1>8. staged'[g] = {new}
  BY <1>4, <1>7, TypesOf
<1>9. {new} \in SUBSET Claims
  <2>1. Ledger!Ids(db.chain, "HOLD") \subseteq EntryIds
    BY TypesOf, HoldsAreIds
  <2> QED
    BY <2>1 DEF Claims
<1> QED
  BY <1>1, <1>4, <1>5, <1>8, <1>9

LEMMA ClaimKeeps == ASSUME FleetInv, NEW g \in Governors, Claim(g) PROVE FleetInv'
<1>1. /\ db' = db /\ replica' = replica /\ failovers' = failovers /\ lock' = lock
      /\ pc' = pc /\ view' = view /\ sess' = sess /\ dirty' = dirty /\ unusable' = unusable
      /\ pc[g] = "joined"
      /\ \E new : staged' = [staged EXCEPT ![g] = new]
  BY DEF Claim
<1>2. /\ staged' \in [Governors -> SUBSET Claims]
      /\ \A h \in Governors \ {g} : staged'[h] = staged[h]
  BY <1>1, TypesOf, ClaimFits
<1>3. FleetTypes' /\ Sound(db)' /\ Sound(replica)'
  <2>1. FleetTypes'
    BY <1>1, <1>2 DEF FleetInv, FleetTypes
  <2>2. db' = db /\ replica' = replica
    BY <1>1
  <2> QED
    BY <2>1, <2>2, SoundStays
<1>4. ASSUME NEW h \in Governors, h # g PROVE Member(h)'
  BY <1>1, <1>2, <1>4, OthersKeep
<1>5. Member(g)'
  <2>1. Member(g)
    BY TypesOf
  <2>2. StagedFits(g)'
    BY <1>1, ClaimFits DEF StagedFits, Owing
  <2> QED
    BY <1>1, <2>1, <2>2 DEF Member, JoinedHolds, DecidesOnLedger, StartsCommitted,
                            ServesCommitted, AlarmIsTrue
<1> QED
  BY <1>3, <1>4, <1>5 DEF FleetInv

\* A claim taken leaves the ledger sound: its id is new, so no entry has it.
LEMMA ClaimedKeepsSound ==
    ASSUME NEW l \in Ledgers, Sound(l), NEW m \in Ledger!Claimed(l)
    PROVE  Sound(m) /\ m \in Ledgers /\ m.chain = l.chain
<1>1. /\ l = [chain |-> l.chain, claims |-> l.claims, owed |-> l.owed]
      /\ l.chain \in Seq(Entries) /\ l.claims \in SUBSET Claims /\ l.owed \in SUBSET Claims
  BY DEF Ledgers
<1>2. PICK a \in [id : ClaimIds, amount : ClaimAmounts,
                  hold : {None} \cup Ledger!Ids(l.chain, "HOLD")] :
        /\ \A old \in l.owed : a.id # old.id
        /\ m = [l EXCEPT !.claims = @ \cup {a}, !.owed = @ \cup {a}]
  BY DEF Ledger!Claimed
<1>3. m.chain = l.chain /\ m.claims = l.claims \cup {a} /\ m.owed = l.owed \cup {a}
  BY <1>1, <1>2
<1>4. a \in Claims
  <2>1. Ledger!Ids(l.chain, "HOLD") \subseteq EntryIds
    BY <1>1, HoldsAreIds
  <2> QED
    BY <2>1 DEF Claims
<1>5. m \in Ledgers
  BY <1>1, <1>2, <1>4 DEF Ledgers
<1>7. a.id # None /\ \A old \in l.owed : a.id # old.id
  BY <1>2, <1>4, FleetAssumption DEF Claims
<1> DEFINE c == l.chain
<1>8. \A i \in 1..Len(c) : c[i].claim # a.id
  BY <1>7 DEF Sound
<1> HIDE DEF c
<1>9. /\ m.claims = l.claims \cup {a} /\ m.owed = l.owed \cup {a} /\ m.chain = c
      /\ l.claims \subseteq l.owed
      /\ \A x \in l.owed, y \in l.owed : x.id = y.id => x = y
      /\ \A i \in 1..Len(c) : c[i].claim # None => \E x \in l.owed : c[i].claim = x.id
      /\ \A x \in l.claims : \A i \in 1..Len(c) : c[i].claim # x.id
      /\ \A x \in l.owed \ l.claims :
           \E i \in 1..Len(c) : \A j \in 1..Len(c) : c[j].claim = x.id <=> j = i
  BY <1>3 DEF Sound, c
<1>10. Sound(m)
  <2>1. \A x \in m.owed, y \in m.owed : x.id = y.id => x = y
    BY <1>7, <1>9
  <2>2. \A x \in m.claims : \A i \in 1..Len(c) : c[i].claim # x.id
    BY <1>8, <1>9
  <2>3. m.owed \ m.claims \subseteq l.owed \ l.claims
    BY <1>9
  <2> QED
    BY <1>9, <2>1, <2>2, <2>3 DEF Sound
<1> QED
  BY <1>3, <1>5, <1>10

LEMMA LeftIs ==
    ASSUME FleetInv, NEW g \in Governors, Left(g)
    PROVE  /\ lock' \in Governors \cup {None} /\ lock' # g
           /\ pc' \in [Governors -> {"idle", "in", "joined"}] /\ pc'[g] = "idle"
           /\ staged' \in [Governors -> SUBSET Claims] /\ staged'[g] = {}
           /\ \A h \in Governors \ {g} :
                (lock' = h <=> lock = h) /\ pc'[h] = pc[h] /\ staged'[h] = staged[h]
           /\ failovers' = failovers /\ view' = view /\ sess' = sess /\ dirty' = dirty
           /\ unusable' = unusable
<1>1. /\ lock' \in Governors \cup {None} /\ lock' # g
      /\ \A h \in Governors \ {g} : lock' = h <=> lock = h
  BY FreeIs DEF Left
<1>2. /\ pc' \in [Governors -> {"idle", "in", "joined"}] /\ pc'[g] = "idle"
      /\ \A h \in Governors \ {g} : pc'[h] = pc[h]
  BY TypesOf DEF Left
<1>3. /\ staged' \in [Governors -> SUBSET Claims] /\ staged'[g] = {}
      /\ \A h \in Governors \ {g} : staged'[h] = staged[h]
  BY TypesOf DEF Left
<1> QED
  BY <1>1, <1>2, <1>3 DEF Left

LEMMA CallerCommitsKeeps ==
    ASSUME FleetInv, NEW g \in Governors, CallerCommits(g) PROVE FleetInv'
<1>1. pc[g] = "joined" /\ staged[g] # {} /\ db' = Owing(staged[g]) /\ replica' = db /\ Left(g)
  BY DEF CallerCommits, Owing
<1>2. lock = g /\ view[g] = db.chain /\ Owing(staged[g]) \in Ledger!Claimed(db)
  BY <1>1, TypesOf DEF Member, JoinedHolds, StagedFits
<1>3. db' \in Ledgers /\ Sound(db') /\ db'.chain = db.chain /\ Sound(db) /\ db \in Ledgers
      /\ db.chain \in Seq(Entries) /\ IsPrefix(db.chain, db'.chain)
  BY <1>1, <1>2, TypesOf, ClaimedKeepsSound, PrefixSelf
<1>4. Sound(db)' /\ Sound(replica)'
  BY <1>1, <1>3 DEF Sound
<1>5. FleetTypes'
  BY <1>1, <1>3, LeftIs DEF FleetInv, FleetTypes
<1>6. ASSUME NEW h \in Governors, h # g PROVE Member(h)'
  <2>1. lock' # h /\ pc'[h] = pc[h] /\ staged'[h] = staged[h]
        /\ failovers' = failovers /\ view' = view /\ sess' = sess /\ dirty' = dirty
        /\ unusable' = unusable
    BY <1>1, <1>2, <1>6, LeftIs
  <2> QED
    BY <1>2, <1>3, <1>6, <2>1, OthersKeepWhenCommitting
<1>7. Member(g)'
  <2>1. pc'[g] = "idle" /\ staged'[g] = {} /\ view'[g] = db'.chain /\ unusable' = unusable
        /\ failovers' = failovers /\ Member(g)
    BY <1>1, <1>2, <1>3, LeftIs, TypesOf
  <2> QED
    BY <1>3, <2>1, IdleMember DEF Member, AlarmIsTrue
<1> QED
  BY <1>4, <1>5, <1>6, <1>7 DEF FleetInv

LEMMA CallerRollsBackKeeps ==
    ASSUME FleetInv, NEW g \in Governors, CallerRollsBack(g) PROVE FleetInv'
<1>1. pc[g] = "joined" /\ db' = db /\ replica' = replica /\ Left(g)
  BY DEF CallerRollsBack
<1>2. FleetTypes'
  BY <1>1, LeftIs DEF FleetInv, FleetTypes
<1>3. Sound(db)' /\ Sound(replica)'
  BY <1>1, SoundStays
<1>4. ASSUME NEW h \in Governors, h # g PROVE Member(h)'
  <2>1. (lock' = h <=> lock = h) /\ pc'[h] = pc[h] /\ staged'[h] = staged[h]
        /\ failovers' = failovers /\ view' = view /\ sess' = sess /\ dirty' = dirty
        /\ unusable' = unusable
    BY <1>1, <1>4, LeftIs
  <2> QED
    BY <1>1, <1>4, <2>1, OthersKeep
<1>5. Member(g)'
  <2>1. pc'[g] = "idle" /\ staged'[g] = {} /\ view' = view /\ unusable' = unusable
        /\ failovers' = failovers /\ Member(g) /\ db.chain \in Seq(Entries)
    BY <1>1, LeftIs, TypesOf
  <2>2. IsPrefix(view'[g], db'.chain)
    BY <1>1, <2>1, PrefixSelf DEF Member, JoinedHolds
  <2> QED
    BY <2>1, <2>2, IdleMember DEF Member, AlarmIsTrue
<1> QED
  BY <1>2, <1>3, <1>4, <1>5 DEF FleetInv

LEMMA IdleTimeoutKeeps ==
    ASSUME FleetInv, NEW g \in Governors, IdleTimeout(g) PROVE FleetInv'
<1>1. /\ lock = g /\ pc[g] = "in" /\ lock' = None /\ db' = db /\ replica' = replica
      /\ failovers' = failovers /\ pc' = pc /\ view' = view /\ sess' = sess
      /\ staged' = staged /\ dirty' = dirty /\ unusable' = unusable
  BY DEF IdleTimeout
<1>2. FleetTypes'
  BY <1>1 DEF FleetInv, FleetTypes
<1>3. Sound(db)' /\ Sound(replica)'
  BY <1>1, SoundStays
<1>4. ASSUME NEW h \in Governors, h # g PROVE Member(h)'
  <2>1. lock' = h <=> lock = h
    BY <1>1, <1>4, TypesOf
  <2> QED
    BY <1>1, <1>4, <2>1, OthersKeep
<1>5. Member(g)'
  <2>1. Member(g) /\ g # None
    BY TypesOf
  <2> QED
    BY <1>1, <2>1 DEF Member, JoinedHolds, StagedFits, Owing, DecidesOnLedger,
                      StartsCommitted, ServesCommitted, AlarmIsTrue
<1> QED
  BY <1>2, <1>3, <1>4, <1>5 DEF FleetInv

LEMMA RestartKeeps == ASSUME FleetInv, NEW g \in Governors, Restart(g) PROVE FleetInv'
<1>1. db' = db /\ replica' = replica /\ failovers' = failovers
  BY DEF Restart
<1>2. /\ lock' \in Governors \cup {None} /\ lock' # g
      /\ \A h \in Governors \ {g} : lock' = h <=> lock = h
  BY FreeIs DEF Restart
<1>3. NoSession \in Sessions /\ db.chain \in Seq(Entries)
  <2>1. NoSession \in Sessions
    BY FleetAssumption DEF NoSession, Sessions
  <2> QED
    BY <2>1, TypesOf
<1>4. /\ pc' \in [Governors -> {"idle", "in", "joined"}] /\ pc'[g] = "idle"
      /\ sess' \in [Governors -> Sessions]
      /\ \A h \in Governors \ {g} : pc'[h] = pc[h] /\ sess'[h] = sess[h]
  BY <1>3, TypesOf DEF Restart
<1>5. /\ view' \in [Governors -> Seq(Entries)] /\ view'[g] = db.chain
      /\ staged' \in [Governors -> SUBSET Claims] /\ staged'[g] = {}
      /\ \A h \in Governors \ {g} : view'[h] = view[h] /\ staged'[h] = staged[h]
  BY <1>3, TypesOf DEF Restart, Fetched
<1>6. /\ dirty' \in [Governors -> BOOLEAN] /\ ~dirty'[g]
      /\ unusable' \in [Governors -> BOOLEAN] /\ ~unusable'[g]
      /\ \A h \in Governors \ {g} : dirty'[h] = dirty[h] /\ unusable'[h] = unusable[h]
  BY TypesOf DEF Restart
<1>7. FleetTypes'
  BY <1>1, <1>2, <1>4, <1>5, <1>6 DEF FleetInv, FleetTypes
<1>8. Sound(db)' /\ Sound(replica)'
  BY <1>1, SoundStays
<1>9. ASSUME NEW h \in Governors, h # g PROVE Member(h)'
  BY <1>1, <1>2, <1>4, <1>5, <1>6, <1>9, OthersKeep
<1>10. Member(g)'
  <2>1. IsPrefix(view'[g], db'.chain)
    BY <1>1, <1>3, <1>5, PrefixSelf
  <2> QED
    BY <1>4, <1>5, <1>6, <2>1, IdleMember
<1> QED
  BY <1>7, <1>8, <1>9, <1>10 DEF FleetInv

LEMMA FailoverKeeps == ASSUME FleetInv, Failover PROVE FleetInv'
<1>1. /\ failovers < MaxFailovers /\ db' = replica /\ failovers' = failovers + 1
      /\ lock' = None /\ replica' = replica /\ view' = view /\ sess' = sess
      /\ dirty' = dirty /\ unusable' = unusable
      /\ pc' = [g \in Governors |-> IF pc[g] = "joined" THEN "idle" ELSE pc[g]]
      /\ staged' = [g \in Governors |-> {}]
  BY DEF Failover
<1>2. /\ failovers' \in 0..MaxFailovers /\ failovers' # 0 /\ failovers' > 0
      /\ pc' \in [Governors -> {"idle", "in", "joined"}]
      /\ \A g \in Governors : pc'[g] # "joined" /\ (pc'[g] = "in" => pc[g] = "in")
      /\ staged' \in [Governors -> SUBSET Claims] /\ \A g \in Governors : staged'[g] = {}
  BY <1>1, FleetAssumption DEF FleetInv, FleetTypes
<1>3. FleetTypes'
  BY <1>1, <1>2 DEF FleetInv, FleetTypes
<1>4. Sound(db)' /\ Sound(replica)'
  <2>1. Sound(replica)
    BY DEF FleetInv
  <2>2. db' = replica /\ replica' = replica
    BY <1>1
  <2> QED
    BY <2>1, <2>2 DEF Sound
<1>5. ASSUME NEW g \in Governors PROVE Member(g)'
  <2>1. Member(g) /\ g # None
    BY TypesOf
  <2> QED
    BY <1>1, <1>2, <2>1 DEF Member, JoinedHolds, StagedFits, DecidesOnLedger,
                            StartsCommitted, ServesCommitted, AlarmIsTrue
<1> QED
  BY <1>3, <1>4, <1>5 DEF FleetInv

-----------------------------------------------------------------------------
(* The theorems.                                                           *)

LEMMA FleetStarts == Init => FleetInv
<1> SUFFICES ASSUME Init PROVE FleetInv
  OBVIOUS
<1>1. /\ db = Ledger!Empty /\ replica = Ledger!Empty /\ failovers = 0 /\ lock = None
      /\ pc = [g \in Governors |-> "idle"] /\ view = [g \in Governors |-> <<>>]
      /\ sess = [g \in Governors |-> NoSession] /\ staged = [g \in Governors |-> {}]
      /\ dirty = [g \in Governors |-> FALSE] /\ unusable = [g \in Governors |-> FALSE]
  BY DEF Init
<1>2. <<>> \in Seq(Entries) /\ Len(<<>>) = 0
  BY EmptySeq
<1>3. Ledger!Empty \in Ledgers /\ Ledger!Empty.chain = <<>> /\ Ledger!Empty.claims = {}
      /\ Ledger!Empty.owed = {}
  BY <1>2 DEF Ledger!Empty, Ledgers
<1>4. NoSession \in Sessions
  BY FleetAssumption DEF NoSession, Sessions
<1>5. FleetTypes
  BY <1>1, <1>2, <1>3, <1>4, FleetAssumption DEF FleetTypes
<1>6. Sound(Ledger!Empty)
  BY <1>2, <1>3 DEF Sound
<1>7. IsPrefix(<<>>, db.chain)
  BY <1>1, <1>2, <1>3, PrefixSelf
<1>8. ASSUME NEW g \in Governors PROVE Member(g)
  BY <1>1, <1>7 DEF Member, JoinedHolds, StagedFits, DecidesOnLedger, StartsCommitted,
                    ServesCommitted, AlarmIsTrue
<1> QED
  BY <1>1, <1>5, <1>6, <1>8 DEF FleetInv

LEMMA FleetStep == FleetInv /\ [Next]_vars => FleetInv'
<1> SUFFICES ASSUME FleetInv, [Next]_vars PROVE FleetInv'
  OBVIOUS
<1>1. CASE UNCHANGED vars
  <2>1. FleetTypes'
    BY <1>1 DEF vars, FleetInv, FleetTypes
  <2>2. Sound(db)' /\ Sound(replica)'
    BY <1>1, SoundStays DEF vars
  <2>3. ASSUME NEW g \in Governors PROVE Member(g)'
    <3>1. Member(g)
      BY DEF FleetInv
    <3> QED
      BY <1>1, <3>1 DEF vars, Member, JoinedHolds, StagedFits, Owing, DecidesOnLedger, Seen,
                        StartsCommitted, ServesCommitted, AlarmIsTrue
  <2> QED
    BY <2>1, <2>2, <2>3 DEF FleetInv
<1>2. ASSUME NEW g \in Governors, EndCommitted(g) PROVE FleetInv'
  BY <1>2, CommittedKeeps DEF EndCommitted
<1>3. ASSUME NEW g \in Governors, EndLost(g) PROVE FleetInv'
  BY <1>3, CommittedKeeps DEF EndLost
<1> QED
  BY <1>1, <1>2, <1>3, RefreshKeeps, GrantedKeeps, OperateKeeps, EndEmptyKeeps,
     EndRolledBackKeeps, JoinKeeps, ClaimKeeps, CallerCommitsKeeps, CallerRollsBackKeeps,
     IdleTimeoutKeeps, RestartKeeps, FailoverKeeps DEF Next

\* What every view was told, what every claim decided and what every unit
\* wrote agree with the ledger it was folded from, across lost answers, idle
\* timeouts, restarts and failovers (_refresh, _lead, GossipTransport).
THEOREM FleetInvariant == Spec => []FleetInv
  BY FleetStarts, FleetStep, PTL DEF Spec

LEMMA SerialStep ==
    FleetInv /\ [Next]_vars => [Ledger!Next]_(Ledger!vars)
<1> SUFFICES ASSUME FleetInv, Next PROVE [Ledger!Next]_(Ledger!vars)
  BY DEF vars, Ledger!vars
<1>1. ASSUME db' = db, replica' = replica, failovers' = failovers
      PROVE  UNCHANGED Ledger!vars
  BY <1>1 DEF Ledger!vars
<1>2. ASSUME NEW g \in Governors, Committing(g), db' = Written(g), replica' = db,
             failovers' = failovers
      PROVE  Ledger!Commit
  BY <1>2, WrittenIsSeen, TypesOf DEF Ledger!Commit
<1>3. ASSUME NEW g \in Governors, CallerCommits(g) PROVE Ledger!Claim
  <2>1. /\ staged[g] # {} /\ db' = Owing(staged[g]) /\ replica' = db /\ failovers' = failovers
    BY <1>3 DEF CallerCommits, Owing, Left
  <2>2. ~Ledger!Halted(db.chain) /\ Owing(staged[g]) \in Ledger!Claimed(db)
    BY <2>1, TypesOf DEF Member, StagedFits
  <2> QED
    BY <2>1, <2>2 DEF Ledger!Claim
<1>4. CASE Failover
  BY <1>4 DEF Failover, Ledger!Next, Ledger!CutBack
<1>5. ASSUME NEW g \in Governors,
             EndCommitted(g) \/ EndLost(g)
      PROVE  Ledger!Commit
  BY <1>2, <1>5 DEF EndCommitted, EndLost, Ended
<1>6. ASSUME NEW g \in Governors,
             \/ Refresh(g) \/ Granted(g) \/ Operate(g) \/ EndEmpty(g) \/ EndRolledBack(g)
             \/ Join(g) \/ Claim(g) \/ CallerRollsBack(g) \/ IdleTimeout(g) \/ Restart(g)
      PROVE  db' = db /\ replica' = replica /\ failovers' = failovers
  BY <1>6 DEF Refresh, Granted, Operate, EndEmpty, EndRolledBack, Ended, Join, Claim,
              CallerRollsBack, Left, IdleTimeout, Restart
<1> QED
  BY <1>1, <1>3, <1>4, <1>5, <1>6 DEF Next, Ledger!Next

\* Governors that share a ledger implement it: whatever they interleave, lose,
\* time out or fail over, each commit is a unit of work decided on exactly the
\* ledger it extends (_mutating, writer, _end, joined; the trigger in
\* postgres.py).
THEOREM FleetIsSerial == Spec => SerialLedger
<1>1. Init => Ledger!Init
  BY DEF Init, Ledger!Init
<1> QED
  BY <1>1, SerialStep, FleetInvariant, PTL DEF Spec, SerialLedger, Ledger!Spec

\* A claim left by a committed transaction is pending or booked by exactly one
\* entry, however many governors redeem it and whatever they hear of their
\* COMMITs (redeem, claim).
THEOREM ClaimsAreBookedOnce == Spec => []ClaimsBookedOnce
<1>1. FleetInv => ClaimsBookedOnce
  <2> SUFFICES ASSUME FleetInv, NEW claim \in db.owed
               PROVE  LET booked == {i \in DOMAIN db.chain : db.chain[i].claim = claim.id}
                      IN  IF claim \in db.claims THEN booked = {} ELSE Cardinality(booked) = 1
    BY DEF ClaimsBookedOnce
  <2> DEFINE booked == {i \in DOMAIN db.chain : db.chain[i].claim = claim.id}
  <2>1. Sound(db) /\ DOMAIN db.chain = 1..Len(db.chain)
    BY LenProperties DEF FleetInv, FleetTypes, Ledgers
  <2>2. CASE claim \in db.claims
    BY <2>1, <2>2 DEF Sound
  <2>3. CASE claim \notin db.claims
    <3>1. PICK i \in 1..Len(db.chain) :
            \A j \in 1..Len(db.chain) : db.chain[j].claim = claim.id <=> j = i
      BY <2>1, <2>3 DEF Sound
    <3>2. booked = {i}
      BY <2>1, <3>1
    <3>3. Cardinality({i}) = 1
      BY FS_Singleton
    <3> QED
      BY <2>3, <3>2, <3>3
  <2> QED
    BY <2>2, <2>3
<1> QED
  BY <1>1, FleetInvariant, PTL

\* A governor that lost no commits to a failover never refuses to follow its
\* own ledger (_catch_up, _recover).
THEOREM AlarmsAreTrue == Spec => []NoFalseAlarm
<1>1. FleetInv => NoFalseAlarm
  BY DEF FleetInv, Member, AlarmIsTrue, NoFalseAlarm
<1> QED
  BY <1>1, FleetInvariant, PTL

\* Between its mutations a governor serves what is committed, unless it knows
\* that it may not (_follow, _recover, refresh).
THEOREM ServesWhatIsCommitted == Spec => []ServedIsCommitted
<1>1. FleetInv => ServedIsCommitted
  BY DEF FleetInv, Member, ServesCommitted, ServedIsCommitted
<1> QED
  BY <1>1, FleetInvariant, PTL

=============================================================================
