------------------------- MODULE AddressWatch_proofs -------------------------
(***************************************************************************)
(* Theorems about AddressWatch, for every number of businesses, orders,    *)
(* networks, requests and restarts.                                        *)
(***************************************************************************)
EXTENDS AddressWatch, Extrema, FiniteSetTheorems, TLAPS

\* What keeps the indices dense: a row is identified by its name and by its index,
\* and no request has picked an index beyond the number of rows.
RowsUnique == \A b, d \in businesses : b.id = d.id \/ b.idx = d.idx => b = d
PickedInRange ==
  \A c \in Clients :
    req[c].pc \in {"insert", "commit", "business"} => req[c].idx <= Cardinality(businesses)

\* Whoever has a derived address, or is about to get one, has the business with
\* its index.
Onboarded(n, i) == [id |-> n, idx |-> i] \in businesses
DerivedAreOnboarded ==
  /\ \A h \in handed : Onboarded(h[1], h[2][2])
  /\ \A w \in wallets : w.addr \in Derived => Onboarded(w.owner, w.addr[2])
  /\ \A c \in Clients : req[c].pc = "wallets" => Onboarded(req[c].id, req[c].idx)

\* No row comes from the future.
RowsInPast ==
  /\ \A w \in wallets : w.at <= clock
  /\ \A c \in Clients : req[c].pc \in {"commit", "order"} => req[c].at <= clock

RegInv ==
  RegTypeOK /\ IsFiniteSet(businesses) /\ IndicesDense
  /\ RowsUnique /\ PickedInRange /\ DerivedAreOnboarded /\ RowsInPast

-----------------------------------------------------------------------------
(* Businesses and their indices *)

\* The fields a request has at each place.
LEMMA RequestFields ==
  ASSUME RegTypeOK, NEW c \in Clients
  PROVE  /\ req[c].pc \in {"none", "max", "count", "insert", "business", "commit",
                           "wallets", "order"}
         /\ req[c].pc # "none" => req[c].id \in Names
         /\ req[c].pc \in {"insert", "business", "commit", "wallets"} =>
              req[c].idx \in Indices
         /\ req[c].pc \in {"commit", "order"} => req[c].at \in 0..MaxClock
         /\ req[c].pc = "order" => req[c].addr \in Orders
         /\ req[c].pc = "wallets" => /\ req[c].next \in 1..(Len(NetworkList) + 1)
                                     /\ req[c] = [pc |-> "wallets", id |-> req[c].id,
                                                  idx |-> req[c].idx, next |-> req[c].next]
<1>1. req[c] \in Requests
  BY DEF RegTypeOK
<1>2. CASE req[c] = NoReq
  BY <1>2 DEF NoReq
<1>3. CASE req[c] \in [pc : {"max", "count"}, id : Names]
  BY <1>3
<1>4. CASE req[c] \in [pc : {"insert", "business"}, id : Names, idx : Indices]
  BY <1>4
<1>5. CASE req[c] \in [pc : {"commit"}, id : Names, idx : Indices, at : 0..MaxClock]
  BY <1>5
<1>6. CASE req[c] \in [pc : {"wallets"}, id : Names, idx : Indices,
                       next : 1..(Len(NetworkList) + 1)]
  BY <1>6
<1>7. CASE req[c] \in [pc : {"order"}, id : Names, addr : Orders, at : 0..MaxClock]
  BY <1>7
<1> QED
  BY <1>1, <1>2, <1>3, <1>4, <1>5, <1>6, <1>7 DEF Requests

\* There are no more businesses than names.
LEMMA BusinessesBounded ==
  ASSUME RegInv
  PROVE  /\ Cardinality(businesses) \in Nat /\ Cardinality(businesses) <= Cardinality(Names)
         /\ Cardinality(Names) \in Nat /\ Cardinality(businesses) \in Indices
<1> DEFINE f == [b \in businesses |-> b.id]
<1>1. f \in Injection(businesses, Names)
  BY DEF RegInv, RegTypeOK, RowsUnique, Injection, IsInjective
<1>2. Cardinality(businesses) <= Cardinality(Names)
  BY <1>1, FS_Injection, RegistrationAssumption
<1> QED
  BY <1>2, FS_CardinalityType, RegistrationAssumption DEF RegInv, Indices

\* Register's largest index plus one is the number of businesses.
LEMMA MaxIsCount ==
  ASSUME RegInv, businesses # {}
  PROVE  Max({b.idx : b \in businesses}) + 1 = Cardinality(businesses)
<1> DEFINE S == {b.idx : b \in businesses}
           n == Cardinality(businesses)
<1>1. n \in Nat /\ S = 0..(n - 1) /\ S # {}
  BY BusinessesBounded DEF RegInv, IndicesDense
<1>2. S \in SUBSET (0..n)
  BY <1>1
<1>3. Max(S) \in S /\ \A m \in S : Max(S) >= m
  BY <1>1, <1>2, MaxOfBounded
<1>4. Max(S) + 1 = n
  <2> DEFINE m == Max(S)
  <2>1. m \in 0..(n - 1) /\ m >= n - 1
    <3>1. n - 1 \in S
      BY <1>1
    <3> QED
      BY <1>1, <1>3, <3>1
  <2> HIDE DEF m
  <2>2. m + 1 = n
    BY <1>1, <2>1
  <2> QED
    BY <2>2 DEF m
<1> QED
  BY <1>4

\* A row with an index and a name that are free, and no larger than the count.
LEMMA NewBusiness ==
  ASSUME RegInv, NEW n \in Names, NEW i \in Indices,
         ~Exists(n), ~Taken(i), i <= Cardinality(businesses),
         businesses' = businesses \cup {[id |-> n, idx |-> i]}
  PROVE  /\ businesses' \subseteq [id : Names, idx : Indices]
         /\ IsFiniteSet(businesses)' /\ IndicesDense' /\ RowsUnique'
         /\ Cardinality(businesses') = Cardinality(businesses) + 1
<1> DEFINE k == Cardinality(businesses)
<1>1. k \in Nat /\ i \in Nat
  BY BusinessesBounded DEF Indices
<1>2. [id |-> n, idx |-> i] \notin businesses
  BY DEF Exists
<1>3. IsFiniteSet(businesses') /\ Cardinality(businesses') = k + 1
  BY <1>2, FS_AddElement DEF RegInv
<1>4. i = k
  <2>1. i \notin {b.idx : b \in businesses}
    BY DEF Taken
  <2> QED
    BY <2>1, <1>1 DEF RegInv, IndicesDense
<1>5. {b.idx : b \in businesses'} = {b.idx : b \in businesses} \cup {i}
  <2> DEFINE d == [id |-> n, idx |-> i]
  <2>1. d.idx = i /\ businesses' = businesses \cup {d}
    OBVIOUS
  <2> HIDE DEF d
  <2> QED
    BY <2>1
<1>6. IndicesDense'
  BY <1>1, <1>3, <1>4, <1>5 DEF RegInv, IndicesDense
<1>7. RowsUnique'
  BY DEF RegInv, RegTypeOK, RowsUnique, Exists, Taken
<1> QED
  BY <1>3, <1>6, <1>7 DEF RegInv, RegTypeOK

-----------------------------------------------------------------------------
(* Every step of a handler *)

LEMMA RegInitInv == RegInit => RegInv
<1> SUFFICES ASSUME RegInit PROVE RegInv
  OBVIOUS
<1>1. IsFiniteSet({}) /\ Cardinality({}) = 0
  BY FS_EmptySet
<1>2. IndicesDense
  BY <1>1 DEF RegInit, IndicesDense
<1> QED
  BY <1>1, <1>2, RegistrationAssumption
  DEF RegInit, RegInv, RegTypeOK, Requests, NoReq, RowsUnique, PickedInRange,
      DerivedAreOnboarded, RowsInPast

\* A step that only moves a request on: its new place may be none of those the
\* invariant speaks of, or satisfy it.
LEMMA MoveRequest ==
  ASSUME RegInv, NEW c \in Clients, NEW r \in Requests, Goto(c, r),
         UNCHANGED <<businesses, wallets, merchants>>, Rest,
         r.pc \in {"insert", "commit", "business"} => r.idx <= Cardinality(businesses),
         r.pc \in {"commit", "order"} => r.at <= clock,
         r.pc = "wallets" => Onboarded(r.id, r.idx)
  PROVE  RegInv'
<1>1. RegTypeOK'
  BY DEF RegInv, RegTypeOK, Goto, Rest
<1>2. IndicesDense' /\ RowsUnique' /\ IsFiniteSet(businesses)'
  BY DEF RegInv, IndicesDense, RowsUnique
<1>3. req' = [req EXCEPT ![c] = r] /\ req \in [Clients -> Requests]
  BY DEF Goto, RegInv, RegTypeOK
<1>4. PickedInRange'
  BY <1>3 DEF RegInv, PickedInRange
<1>5. DerivedAreOnboarded'
  BY <1>3 DEF RegInv, DerivedAreOnboarded, Onboarded, Rest
<1>6. RowsInPast'
  BY <1>3 DEF RegInv, RowsInPast, Rest
<1> QED
  BY <1>1, <1>2, <1>4, <1>5, <1>6 DEF RegInv

LEMMA ReadMaxStep ==
  ASSUME RegInv, NEW c \in Clients, ReadMax(c)
  PROVE  RegInv'
<1> DEFINE k == Cardinality(businesses)
           i == IF businesses = {} THEN 0 ELSE Max({b.idx : b \in businesses}) + 1
           r == [pc |-> "insert", id |-> req[c].id, idx |-> i]
<1>1. i = k
  BY MaxIsCount, FS_EmptySet
<1>2. r \in Requests
  BY <1>1, BusinessesBounded, RequestFields DEF ReadMax, Requests, RegInv
<1>3. r.pc = "insert" /\ r.idx <= k
  BY <1>1, BusinessesBounded
<1>4. Goto(c, r) /\ Rest /\ UNCHANGED <<businesses, wallets, merchants>>
  BY DEF ReadMax
<1> HIDE DEF r, i
<1> QED
  BY <1>2, <1>3, <1>4, MoveRequest

LEMMA InsertRowsStep ==
  ASSUME RegInv, NEW c \in Clients, InsertRows(c)
  PROVE  RegInv'
<1> DEFINE r == [pc |-> "commit", id |-> req[c].id, idx |-> req[c].idx, at |-> clock]
<1>1. req[c].pc = "insert" /\ req[c].id \in Names /\ req[c].idx \in Indices
  BY RequestFields DEF InsertRows, RegInv
<1>2. clock \in 0..MaxClock
  BY DEF RegInv, RegTypeOK
<1>3. r \in Requests
  BY <1>1, <1>2 DEF Requests
<1>4. r.pc = "commit" /\ r.at <= clock
  BY <1>2
<1>5. r.idx <= Cardinality(businesses)
  BY <1>1 DEF RegInv, PickedInRange
<1>6. Goto(c, r) /\ Rest /\ UNCHANGED <<businesses, wallets, merchants>>
  BY DEF InsertRows
<1> HIDE DEF r
<1> QED
  BY <1>3, <1>4, <1>5, <1>6, MoveRequest

LEMMA CountBusinessesStep ==
  ASSUME RegInv, NEW c \in Clients, CountBusinesses(c)
  PROVE  RegInv'
<1> DEFINE r == [pc |-> "business", id |-> req[c].id, idx |-> Cardinality(businesses)]
<1>1. req[c].pc = "count" /\ req[c].id \in Names
  BY RequestFields DEF CountBusinesses, RegInv
<1>2. r \in Requests /\ r.pc = "business" /\ r.idx <= Cardinality(businesses)
  BY <1>1, BusinessesBounded DEF Requests
<1>3. Goto(c, r) /\ Rest /\ UNCHANGED <<businesses, wallets, merchants>>
  BY DEF CountBusinesses
<1> HIDE DEF r
<1> QED
  BY <1>2, <1>3, MoveRequest

\* A request arrives, and its first check has passed.
LEMMA RegisterStep ==
  ASSUME RegInv, NEW c \in Clients, NEW n \in Names, Register(c, n) \/ HandleOnboard(c, n)
  PROVE  RegInv'
<1>1. CASE Register(c, n)
  <2>1. [pc |-> "max", id |-> n] \in Requests
    BY DEF Requests
  <2> QED
    BY <1>1, <2>1, MoveRequest DEF Register
<1>2. CASE HandleOnboard(c, n)
  <2>1. [pc |-> "count", id |-> n] \in Requests
    BY DEF Requests
  <2> QED
    BY <1>2, <2>1, MoveRequest DEF HandleOnboard
<1> QED
  BY <1>1, <1>2

LEMMA CreateOrderStep ==
  ASSUME RegInv, NEW c \in Clients, NEW n \in Names, NEW a \in Orders, CreateOrder(c, n, a)
  PROVE  RegInv'
<1> DEFINE r == [pc |-> "order", id |-> n, addr |-> a, at |-> clock]
<1>1. clock \in 0..MaxClock
  BY DEF RegInv, RegTypeOK
<1>2. r \in Requests /\ r.pc = "order" /\ r.at <= clock
  BY <1>1 DEF Requests
<1>3. Goto(c, r) /\ Rest /\ UNCHANGED <<businesses, wallets, merchants>>
  BY DEF CreateOrder
<1> HIDE DEF r
<1> QED
  BY <1>2, <1>3, MoveRequest

LEMMA CommitRegisterStep ==
  ASSUME RegInv, NEW c \in Clients, CommitRegister(c)
  PROVE  RegInv'
<1> DEFINE n == req[c].id
           i == req[c].idx
<1>1. /\ n \in Names /\ i \in Indices /\ req[c].at \in 0..MaxClock
      /\ req[c].at <= clock /\ i <= Cardinality(businesses)
  BY RequestFields DEF CommitRegister, RegInv, PickedInRange, RowsInPast
<1>2. NoReq \in Requests /\ NoReq.pc = "none"
  BY DEF Requests, NoReq
<1>3. /\ req' = [req EXCEPT ![c] = NoReq] /\ req \in [Clients -> Requests]
      /\ UNCHANGED <<handed, clock, dbFaults>>
  BY DEF CommitRegister, Goto, Rest, RegInv, RegTypeOK
<1>4. CASE UNCHANGED <<businesses, wallets, merchants>>
  BY <1>2, <1>4, MoveRequest DEF CommitRegister
<1>5. CASE /\ ~Exists(n) /\ ~Taken(i) /\ ~InUse(<<Sui, i>>)
           /\ businesses' = businesses \cup {[id |-> n, idx |-> i]}
           /\ wallets' = wallets \cup {[addr |-> <<Sui, i>>, owner |-> n, at |-> req[c].at]}
           /\ merchants' = merchants \cup {n}
  <2>1. /\ businesses' \subseteq [id : Names, idx : Indices]
        /\ IsFiniteSet(businesses)' /\ IndicesDense' /\ RowsUnique'
        /\ Cardinality(businesses') = Cardinality(businesses) + 1
    BY <1>1, <1>5, NewBusiness
  <2>2. <<Sui, i>> \in Addresses
    BY <1>1, RegistrationAssumption DEF Addresses, Derived
  <2>3. RegTypeOK'
    BY <1>1, <1>2, <1>3, <1>5, <2>1, <2>2 DEF RegInv, RegTypeOK
  <2>4. PickedInRange'
    <3> SUFFICES ASSUME NEW d \in Clients, req'[d].pc \in {"insert", "commit", "business"}
                 PROVE  req'[d].idx <= Cardinality(businesses')
      BY DEF PickedInRange
    <3>1. req'[d] = req[d]
      BY <1>2, <1>3
    <3>2. req[d].idx <= Cardinality(businesses)
      BY <3>1 DEF RegInv, PickedInRange
    <3>3. req[d].idx \in Indices
      BY <3>1, RequestFields DEF RegInv
    <3>4. req[d].idx \in Nat
      BY <3>3 DEF Indices
    <3> QED
      BY <2>1, <3>1, <3>2, <3>4, BusinessesBounded
  <2>5. DerivedAreOnboarded'
    BY <1>2, <1>3, <1>5 DEF RegInv, DerivedAreOnboarded, Onboarded
  <2>6. RowsInPast'
    BY <1>1, <1>2, <1>3, <1>5 DEF RegInv, RowsInPast
  <2> QED
    BY <2>1, <2>3, <2>4, <2>5, <2>6 DEF RegInv
<1> QED
  BY <1>4, <1>5 DEF CommitRegister

LEMMA SaveBusinessStep ==
  ASSUME RegInv, NEW c \in Clients, SaveBusiness(c)
  PROVE  RegInv'
<1> DEFINE n == req[c].id
           i == req[c].idx
           r == [pc |-> "wallets", id |-> n, idx |-> i, next |-> 1]
<1>1. /\ n \in Names /\ i \in Indices /\ i <= Cardinality(businesses)
  BY RequestFields DEF SaveBusiness, RegInv, PickedInRange
<1>2. NoReq \in Requests /\ NoReq.pc = "none"
  BY DEF Requests, NoReq
<1>3. CASE Exists(n) \/ Taken(i)
  BY <1>2, <1>3, MoveRequest DEF SaveBusiness
<1>4. CASE ~(Exists(n) \/ Taken(i))
  <2>1. /\ businesses' = businesses \cup {[id |-> n, idx |-> i]}
        /\ Goto(c, r) /\ UNCHANGED <<wallets, merchants>> /\ Rest
    BY <1>4 DEF SaveBusiness
  <2>2. /\ businesses' \subseteq [id : Names, idx : Indices]
        /\ IsFiniteSet(businesses)' /\ IndicesDense' /\ RowsUnique'
        /\ Cardinality(businesses') = Cardinality(businesses) + 1
    BY <1>1, <1>4, <2>1, NewBusiness
  <2>3. r \in Requests
    <3>1. 1 \in 1..(Len(NetworkList) + 1)
      BY RegistrationAssumption
    <3> QED
      BY <1>1, <3>1 DEF Requests
  <2>4. r.pc = "wallets" /\ [id |-> r.id, idx |-> r.idx] \in businesses'
    BY <2>1
  <2> HIDE DEF r
  <2>5. /\ req' = [req EXCEPT ![c] = r] /\ req \in [Clients -> Requests]
        /\ UNCHANGED <<handed, clock, dbFaults>>
    BY <2>1 DEF Goto, Rest, RegInv, RegTypeOK
  <2>6. RegTypeOK'
    BY <2>1, <2>2, <2>3, <2>5 DEF RegInv, RegTypeOK
  <2>7. PickedInRange'
    <3> SUFFICES ASSUME NEW d \in Clients, req'[d].pc \in {"insert", "commit", "business"}
                 PROVE  req'[d].idx <= Cardinality(businesses')
      BY DEF PickedInRange
    <3>1. req'[d] = req[d]
      BY <2>4, <2>5
    <3>2. req[d].idx <= Cardinality(businesses)
      BY <3>1 DEF RegInv, PickedInRange
    <3>3. req[d].idx \in Indices
      BY <3>1, RequestFields DEF RegInv
    <3>4. req[d].idx \in Nat
      BY <3>3 DEF Indices
    <3> QED
      BY <2>2, <3>1, <3>2, <3>4, BusinessesBounded
  <2>8. DerivedAreOnboarded'
    BY <2>1, <2>4, <2>5 DEF RegInv, DerivedAreOnboarded, Onboarded
  <2>9. RowsInPast'
    BY <2>1, <2>4, <2>5 DEF RegInv, RowsInPast
  <2> QED
    BY <2>2, <2>6, <2>7, <2>8, <2>9 DEF RegInv
<1> QED
  BY <1>3, <1>4

LEMMA SaveWalletStep ==
  ASSUME RegInv, NEW c \in Clients, SaveWallet(c)
  PROVE  RegInv'
<1> DEFINE r == [pc |-> "wallets", id |-> req[c].id, idx |-> req[c].idx,
                 next |-> req[c].next + 1]
           a == <<NetworkList[req[c].next], req[c].idx>>
           w == [addr |-> a, owner |-> req[c].id, at |-> clock]
<1>1. /\ req[c].pc = "wallets" /\ req[c].id \in Names /\ req[c].idx \in Indices
      /\ req[c].next \in 1..Len(NetworkList)
      /\ req[c] = [pc |-> "wallets", id |-> req[c].id, idx |-> req[c].idx,
                   next |-> req[c].next]
  BY RequestFields, RegistrationAssumption DEF SaveWallet, RegInv
<1>2. /\ req' = [req EXCEPT ![c] = r] /\ req \in [Clients -> Requests]
      /\ UNCHANGED <<businesses, merchants, handed, clock>>
  <2>1. [req[c] EXCEPT !.next = @ + 1] = r
    BY <1>1
  <2> QED
    BY <2>1 DEF SaveWallet, RegInv, RegTypeOK
<1>3. r \in Requests /\ r.pc = "wallets"
  <2>1. req[c].next + 1 \in 1..(Len(NetworkList) + 1)
    BY <1>1, RegistrationAssumption
  <2> QED
    BY <1>1, <2>1 DEF Requests
<1>4. Onboarded(r.id, r.idx)
  BY <1>1 DEF RegInv, DerivedAreOnboarded
<1>5. a \in Derived /\ a[2] = req[c].idx
  BY <1>1, RegistrationAssumption DEF Derived, Networks
<1>6. w.addr = a /\ w.owner = r.id /\ r.idx = a[2] /\ w.at = clock
  BY <1>5
<1>7. w \in [addr : Addresses, owner : Names, at : 0..MaxClock] /\ w.at <= clock
  BY <1>1, <1>5 DEF RegInv, RegTypeOK, Addresses
<1>8. wallets' \in {wallets, wallets \cup {w}}
  BY DEF SaveWallet
<1>9. dbFaults' \in 0..MaxDBFaults
  BY RegistrationAssumption DEF SaveWallet, RegInv, RegTypeOK
<1> HIDE DEF r, a, w
<1>10. RegTypeOK'
  BY <1>2, <1>3, <1>7, <1>8, <1>9 DEF RegInv, RegTypeOK
<1>11. IndicesDense' /\ RowsUnique' /\ IsFiniteSet(businesses)'
  BY <1>2 DEF RegInv, IndicesDense, RowsUnique
<1>12. PickedInRange'
  BY <1>2, <1>3 DEF RegInv, PickedInRange
<1>13. DerivedAreOnboarded'
  BY <1>2, <1>3, <1>4, <1>6, <1>8 DEF RegInv, DerivedAreOnboarded, Onboarded
<1>14. RowsInPast'
  BY <1>2, <1>3, <1>7, <1>8 DEF RegInv, RowsInPast
<1> QED
  BY <1>10, <1>11, <1>12, <1>13, <1>14 DEF RegInv

LEMMA RespondOnboardStep ==
  ASSUME RegInv, NEW c \in Clients, RespondOnboard(c)
  PROVE  RegInv'
<1> DEFINE new == {<<req[c].id, <<net, req[c].idx>>>> : net \in Networks}
<1>1. req[c].pc = "wallets" /\ req[c].id \in Names /\ req[c].idx \in Indices
  BY RequestFields DEF RespondOnboard, RegInv
<1>2. NoReq \in Requests /\ NoReq.pc = "none"
  BY DEF Requests, NoReq
<1>3. /\ req' = [req EXCEPT ![c] = NoReq] /\ req \in [Clients -> Requests]
      /\ handed' = handed \cup new
      /\ UNCHANGED <<businesses, wallets, merchants, clock, dbFaults>>
  BY DEF RespondOnboard, Goto, RegInv, RegTypeOK
<1>4. new \subseteq Names \X Derived
  BY <1>1 DEF Derived
<1>5. \A h \in new : Onboarded(h[1], h[2][2])
  BY <1>1 DEF RegInv, DerivedAreOnboarded
<1> HIDE DEF new
<1>6. RegTypeOK'
  BY <1>2, <1>3, <1>4 DEF RegInv, RegTypeOK
<1>7. IndicesDense' /\ RowsUnique' /\ IsFiniteSet(businesses)'
  BY <1>3 DEF RegInv, IndicesDense, RowsUnique
<1>8. PickedInRange'
  BY <1>2, <1>3 DEF RegInv, PickedInRange
<1>9. DerivedAreOnboarded'
  BY <1>2, <1>3, <1>5 DEF RegInv, DerivedAreOnboarded, Onboarded
<1>10. RowsInPast'
  BY <1>2, <1>3 DEF RegInv, RowsInPast
<1> QED
  BY <1>6, <1>7, <1>8, <1>9, <1>10 DEF RegInv

\* An order's wallet is not a derived address.
LEMMA CommitOrderStep ==
  ASSUME RegInv, NEW c \in Clients, CommitOrder(c)
  PROVE  RegInv'
<1> DEFINE w == [addr |-> req[c].addr, owner |-> req[c].id, at |-> req[c].at]
<1>1. /\ req[c].id \in Names /\ req[c].addr \in Orders
      /\ req[c].at \in 0..MaxClock /\ req[c].at <= clock
  BY RequestFields DEF CommitOrder, RegInv, RowsInPast
<1>2. NoReq \in Requests /\ NoReq.pc = "none"
  BY DEF Requests, NoReq
<1>3. /\ req' = [req EXCEPT ![c] = NoReq] /\ req \in [Clients -> Requests]
      /\ wallets' = wallets \cup {w}
      /\ UNCHANGED <<businesses, merchants, handed, clock, dbFaults>>
  BY DEF CommitOrder, Goto, Rest, RegInv, RegTypeOK
<1>4. /\ w \in [addr : Addresses, owner : Names, at : 0..MaxClock]
      /\ w.addr \notin Derived /\ w.at <= clock
  BY <1>1, RegistrationAssumption DEF Addresses
<1> HIDE DEF w
<1>5. RegTypeOK'
  BY <1>2, <1>3, <1>4 DEF RegInv, RegTypeOK
<1>6. IndicesDense' /\ RowsUnique' /\ IsFiniteSet(businesses)'
  BY <1>3 DEF RegInv, IndicesDense, RowsUnique
<1>7. PickedInRange'
  BY <1>2, <1>3 DEF RegInv, PickedInRange
<1>8. DerivedAreOnboarded'
  BY <1>2, <1>3, <1>4 DEF RegInv, DerivedAreOnboarded, Onboarded
<1>9. RowsInPast'
  BY <1>2, <1>3, <1>4 DEF RegInv, RowsInPast
<1> QED
  BY <1>5, <1>6, <1>7, <1>8, <1>9 DEF RegInv

LEMMA AbandonStep ==
  ASSUME RegInv, NEW c \in Clients, Abandon(c)
  PROVE  RegInv'
<1>1. NoReq \in Requests /\ NoReq.pc = "none"
  BY DEF Requests, NoReq
<1>2. /\ req' = [req EXCEPT ![c] = NoReq] /\ req \in [Clients -> Requests]
      /\ dbFaults' \in 0..MaxDBFaults
      /\ UNCHANGED <<businesses, wallets, merchants, handed, clock>>
  BY RegistrationAssumption DEF Abandon, Goto, RegInv, RegTypeOK
<1>3. RegTypeOK' /\ PickedInRange' /\ RowsInPast'
  BY <1>1, <1>2 DEF RegInv, RegTypeOK, PickedInRange, RowsInPast
<1>4. DerivedAreOnboarded'
  BY <1>1, <1>2 DEF RegInv, DerivedAreOnboarded, Onboarded
<1> QED
  BY <1>2, <1>3, <1>4 DEF RegInv, IndicesDense, RowsUnique

LEMMA TickStep ==
  ASSUME RegInv, Tick
  PROVE  RegInv'
<1>1. clock' \in 0..MaxClock /\ clock' = clock + 1
  BY RegistrationAssumption DEF Tick, RegInv, RegTypeOK
<1>2. RowsInPast'
  <2>1. clock \in 0..MaxClock
    BY DEF RegInv, RegTypeOK
  <2>2. \A w \in wallets : w.at \in 0..MaxClock /\ w.at <= clock
    BY DEF RegInv, RegTypeOK, RowsInPast
  <2>3. \A c \in Clients : req[c].pc \in {"commit", "order"} =>
                             req[c].at \in 0..MaxClock /\ req[c].at <= clock
    BY RequestFields DEF RegInv, RowsInPast
  <2> QED
    BY <1>1, <2>1, <2>2, <2>3 DEF Tick, RowsInPast
<1>3. RegTypeOK' /\ PickedInRange' /\ DerivedAreOnboarded'
  BY <1>1 DEF Tick, RegInv, RegTypeOK, PickedInRange, DerivedAreOnboarded, Onboarded
<1> QED
  BY <1>2, <1>3 DEF Tick, RegInv, IndicesDense, RowsUnique

LEMMA RegStep ==
  ASSUME RegInv, [RegNext]_regVars
  PROVE  RegInv'
<1>1. CASE UNCHANGED regVars
  BY <1>1 DEF regVars, RegInv, RegTypeOK, IndicesDense, RowsUnique, PickedInRange,
              DerivedAreOnboarded, Onboarded, RowsInPast
<1>2. CASE Tick
  BY <1>2, TickStep
<1>3. ASSUME NEW c \in Clients, NEW n \in Names, Register(c, n) \/ HandleOnboard(c, n)
      PROVE  RegInv'
  BY <1>3, RegisterStep
<1>4. ASSUME NEW c \in Clients, NEW n \in Names, NEW a \in Orders, CreateOrder(c, n, a)
      PROVE  RegInv'
  BY <1>4, CreateOrderStep
<1>5. ASSUME NEW c \in Clients, Handle(c)
      PROVE  RegInv'
  BY <1>5, ReadMaxStep, InsertRowsStep, CommitRegisterStep, CountBusinessesStep,
     SaveBusinessStep, SaveWalletStep, RespondOnboardStep, CommitOrderStep DEF Handle
<1>6. ASSUME NEW c \in Clients, Abandon(c)
      PROVE  RegInv'
  BY <1>6, AbandonStep
<1> QED
  BY <1>1, <1>2, <1>3, <1>4, <1>5, <1>6 DEF RegNext

-----------------------------------------------------------------------------
(* The filter and its position *)

\* The position is a created_at that was seen, so not in the future.
Inv == RegInv /\ TypeOK /\ lastSynced <= clock /\ PositionBehindRows

LEMMA InitInv == Init => Inv
<1> SUFFICES ASSUME Init PROVE Inv
  OBVIOUS
<1>1. RegInv
  BY RegInitInv DEF Init
<1>2. TypeOK /\ lastSynced <= clock
  BY <1>1, RegistrationAssumption, AddressWatchAssumption
  DEF Init, RegInv, RegInit, TypeOK
<1>3. PositionBehindRows
  BY DEF Init, PositionBehindRows
<1> QED
  BY <1>1, <1>2, <1>3 DEF Inv

\* A row that appears in time is younger than the overlap, and the position is
\* not ahead of the clock.
LEMMA RegistrationKeepsPosition ==
  ASSUME Inv, RegistrationStep
  PROVE  Inv'
<1>1. RegInv'
  BY RegStep DEF Inv, RegistrationStep
<1>2. /\ clock \in Nat /\ clock' \in Nat /\ clock <= clock' /\ Overlap \in Nat
      /\ lastSynced \in Nat /\ lastSynced <= clock
      /\ UNCHANGED <<process, filter, lastSynced, restarts>>
  <2>1. clock' \in {clock, clock + 1}
    BY DEF RegistrationStep, RegNext, Register, HandleOnboard, CreateOrder, Handle, Abandon,
           ReadMax, InsertRows, CommitRegister, CountBusinesses, SaveBusiness, SaveWallet,
           RespondOnboard, CommitOrder, Tick, Rest
  <2>2. clock \in Nat /\ lastSynced \in Nat /\ lastSynced <= clock
    BY RegistrationAssumption DEF Inv, RegInv, RegTypeOK, TypeOK
  <2> QED
    BY <2>1, <2>2, AddressWatchAssumption DEF RegistrationStep
<1>3. late' = late \cup {w.addr : w \in {x \in wallets' \ wallets : clock - x.at >= Overlap}}
  BY DEF RegistrationStep
<1>4. TypeOK'
  BY <1>1, <1>2, <1>3 DEF Inv, TypeOK, RegInv, RegTypeOK
<1>5. PositionBehindRows'
  <2> SUFFICES ASSUME process = "syncing", NEW w \in Watched', w.addr \notin filter \cup late'
               PROVE  w.at > lastSynced - Overlap
    BY <1>2 DEF PositionBehindRows
  <2>1. CASE w \in wallets
    BY <1>3, <2>1 DEF Inv, PositionBehindRows, Watched
  <2>2. CASE w \notin wallets
    <3>1. w \in wallets' /\ w.at \in Nat
      BY <1>1 DEF Watched, RegInv, RegTypeOK
    <3>2. ~(clock - w.at >= Overlap)
      BY <1>3, <2>2, <3>1
    <3> QED
      BY <1>2, <3>1, <3>2
  <2> QED
    BY <2>1, <2>2
<1> QED
  BY <1>1, <1>2, <1>4, <1>5 DEF Inv

LEMMA StartSyncKeepsPosition ==
  ASSUME Inv, StartSync
  PROVE  Inv'
<1>1. RegInv'
  BY RegStep DEF Inv, StartSync, regVars
<1>2. /\ late' = late \cup AddrsOf({w \in Watched : w.addr \notin filter /\ w.at <= clock - Overlap})
      /\ lastSynced' = clock /\ filter' = filter /\ clock' = clock /\ wallets' = wallets
      /\ clock \in 0..MaxClock /\ process' = "syncing" /\ restarts' = restarts
  BY DEF StartSync, regVars, Inv, RegInv, RegTypeOK
<1>3. \A w \in Watched : w \in wallets /\ w.addr \in Addresses /\ w.at \in Nat
  BY DEF Watched, Inv, RegInv, RegTypeOK
<1>4. TypeOK'
  BY <1>1, <1>2, <1>3 DEF Inv, TypeOK, RegInv, AddrsOf
<1>5. PositionBehindRows'
  BY <1>2, <1>3, RegistrationAssumption, AddressWatchAssumption
  DEF PositionBehindRows, Watched, AddrsOf
<1> QED
  BY <1>1, <1>2, <1>4, <1>5 DEF Inv

\* The rows left out of a batch are no older than its last one.
LEMMA SyncNetworkKeepsPosition ==
  ASSUME Inv, SyncNetwork
  PROVE  Inv'
<1>1. RegInv'
  BY RegStep DEF Inv, SyncNetwork, regVars
<1>2. PICK rows \in SUBSET Found :
        /\ rows # {} /\ IsBatch(rows)
        /\ filter' = filter \cup AddrsOf(rows)
        /\ lastSynced' = Max({w.at : w \in rows})
  BY DEF SyncNetwork
<1>3. /\ UNCHANGED <<process, late, restarts, wallets, clock>>
      /\ clock \in 0..MaxClock /\ MaxClock \in Nat /\ Overlap \in Nat \ {0}
      /\ lastSynced \in 0..MaxClock
  BY RegistrationAssumption, AddressWatchAssumption
  DEF SyncNetwork, regVars, Inv, RegInv, RegTypeOK, TypeOK
<1>4. \A w \in Watched : /\ w \in wallets /\ w.addr \in Addresses /\ w.at \in 0..MaxClock
                         /\ w.at <= clock
  BY DEF Watched, Inv, RegInv, RegTypeOK, RowsInPast
<1>5. rows \subseteq Watched
  BY <1>2 DEF Found
<1> DEFINE S == {w.at : w \in rows}
<1>6. S \in SUBSET (0..MaxClock) /\ S # {}
  BY <1>2, <1>4, <1>5
<1>7. Max(S) \in S /\ \A m \in S : Max(S) >= m
  BY <1>3, <1>6, MaxOfBounded
<1>8. PICK last \in rows : lastSynced' = last.at
  BY <1>2, <1>7
<1>9. lastSynced' \in 0..MaxClock /\ lastSynced' <= clock'
  BY <1>3, <1>4, <1>5, <1>8
<1>10. filter' \subseteq Addresses
  BY <1>2, <1>4, <1>5 DEF Inv, TypeOK, AddrsOf
<1>11. TypeOK'
  BY <1>1, <1>3, <1>9, <1>10 DEF Inv, TypeOK, RegInv
<1>12. PositionBehindRows'
  <2> SUFFICES ASSUME process = "syncing", NEW w \in Watched, w.addr \notin filter' \cup late
               PROVE  w.at > lastSynced' - Overlap
    BY <1>3 DEF PositionBehindRows, Watched
  <2>1. w \notin rows /\ w.addr \notin filter \cup late
    BY <1>2 DEF AddrsOf
  <2>2. w.at > lastSynced - Overlap
    BY <2>1 DEF Inv, PositionBehindRows
  <2>3. w \in Found \ rows
    BY <2>1, <2>2 DEF Found
  <2>4. last.at <= w.at
    BY <1>2, <1>8, <2>3 DEF IsBatch
  <2> QED
    BY <1>3, <1>4, <1>5, <1>8, <2>4
<1> QED
  BY <1>1, <1>9, <1>11, <1>12 DEF Inv

LEMMA InitializeKeepsPosition ==
  ASSUME Inv, Initialize
  PROVE  Inv'
<1>1. RegInv'
  BY RegStep DEF Inv, Initialize, regVars
<1>2. /\ process' = "starting" /\ lastSynced' = 0 /\ late' = late /\ clock' = clock
      /\ filter' = AddrsOf(Watched) /\ restarts' \in 0..MaxRestarts
      /\ clock \in 0..MaxClock
  BY AddressWatchAssumption
  DEF Initialize, regVars, Inv, RegInv, RegTypeOK, TypeOK
<1>3. AddrsOf(Watched) \subseteq Addresses
  BY DEF AddrsOf, Watched, Inv, RegInv, RegTypeOK
<1> QED
  BY <1>1, <1>2, <1>3, RegistrationAssumption DEF Inv, TypeOK, RegInv, PositionBehindRows

LEMMA StepInv == Inv /\ [Next]_vars => Inv'
<1> SUFFICES ASSUME Inv, [Next]_vars PROVE Inv'
  OBVIOUS
<1>1. CASE UNCHANGED vars
  <2>1. RegInv'
    BY <1>1, RegStep DEF Inv, vars
  <2>2. TypeOK'
    BY <1>1, <2>1 DEF vars, watchVars, Inv, TypeOK, RegInv
  <2> QED
    BY <1>1, <2>1, <2>2
    DEF vars, regVars, watchVars, Inv, PositionBehindRows, Watched
<1> QED
  BY <1>1, RegistrationKeepsPosition, StartSyncKeepsPosition, SyncNetworkKeepsPosition,
     InitializeKeepsPosition DEF Next

\* Every reachable state satisfies the inductive invariant.
LEMMA Invariance == Spec => []Inv
  BY InitInv, StepInv, PTL DEF Spec

-----------------------------------------------------------------------------

\* A derivation index never leaves the range its column and its callers expect,
\* and every row has a known owner: there are no more businesses than names, so
\* neither MAX + 1 nor COUNT runs past them.
THEOREM TypeCorrect == Spec => []TypeOK
<1>1. Inv => TypeOK
  BY DEF Inv
<1> QED
  BY Invariance, <1>1, PTL

\* Registrations at the backend (MAX + 1) and onboardings at the indexer (COUNT)
\* together leave no gap in the derivation indices, however they race or fail.
THEOREM IndicesStayDense == Spec => []IndicesDense
<1>1. Inv => IndicesDense
  BY DEF Inv, RegInv
<1> QED
  BY Invariance, <1>1, PTL

\* No row, saved or still to come, gives another business an address an onboarding
\* has handed out.
THEOREM HandedStaysOwn == Spec => []HandedIsOwn
<1>1. Inv => HandedIsOwn
  BY DEF Inv, RegInv, RegTypeOK, RowsUnique, DerivedAreOnboarded, Onboarded, HandedIsOwn
<1> QED
  BY Invariance, <1>1, PTL

\* BloomSyncWorker's position never passes a row that came in time, for every batch
\* size, every overlap and every order of commits, queries and restarts.
THEOREM PositionStaysBehind == Spec => []PositionBehindRows
<1>1. Inv => PositionBehindRows
  BY DEF Inv
<1> QED
  BY Invariance, <1>1, PTL
=============================================================================
