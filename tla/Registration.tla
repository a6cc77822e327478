----------------------------- MODULE Registration -----------------------------
(***************************************************************************)
(* How addresses come to be: a merchant registers at the backend, a        *)
(* business is onboarded at the indexer, an order gets a wallet of its     *)
(* own.  All three write to the database the indexer reads.  Register and  *)
(* CreateOrder run in a transaction, HandleOnboard saves row by row; they  *)
(* pick the derivation index in two ways.                                  *)
(*                                                                         *)
(* A derived address is its network and index.  The unique indexes are     *)
(* those of indexer/sql/business.sql and of the merchants table.           *)
(***************************************************************************)
EXTENDS Integers, FiniteSets, FiniteSetsExt, Sequences

CONSTANTS
  Names,       \* business ids
  Orders,      \* an order's wallet has a mnemonic of its own, so it stands for its address
  NetworkList, \* supportedNetworks of the onboarding
  Sui,
  Clients,     \* requests handled at the same time
  MaxClock,    \* bound
  MaxDBFaults  \* bound: statements that fail, handlers that die

Networks == {NetworkList[k] : k \in DOMAIN NetworkList}
Indices == 0..Cardinality(Names)
Derived == Networks \X Indices     \* DeriveAddress(network, index)
Addresses == Derived \cup Orders

ASSUME RegistrationAssumption ==
  /\ NetworkList \in Seq(Networks) /\ Sui \in Networks
  /\ Orders \cap Derived = {}
  /\ {MaxClock, MaxDBFaults} \subseteq Nat
  /\ IsFiniteSet(Names)

VARIABLES
  businesses,  \* rows [id, idx]
  wallets,     \* wallet_addresses: rows [addr, owner, at], at is created_at
  merchants,   \* business ids with a merchant profile
  req,         \* each request: where its handler is
  handed,      \* <<business, address>> pairs that an onboarding answered
  clock, dbFaults

regVars == <<businesses, wallets, merchants, req, handed, clock, dbFaults>>

NoReq == [pc |-> "none"]

Requests ==
  {NoReq}
  \cup [pc : {"max", "count"}, id : Names]
  \cup [pc : {"insert", "business"}, id : Names, idx : Indices]
  \cup [pc : {"commit"}, id : Names, idx : Indices, at : 0..MaxClock]
  \cup [pc : {"wallets"}, id : Names, idx : Indices, next : 1..(Len(NetworkList) + 1)]
  \cup [pc : {"order"}, id : Names, addr : Orders, at : 0..MaxClock]

RegTypeOK ==
  /\ businesses \subseteq [id : Names, idx : Indices]
  /\ wallets \subseteq [addr : Addresses, owner : Names, at : 0..MaxClock]
  /\ merchants \subseteq Names
  /\ req \in [Clients -> Requests]
  /\ handed \subseteq Names \X Derived
  /\ clock \in 0..MaxClock /\ dbFaults \in 0..MaxDBFaults

RegInit ==
  /\ businesses = {} /\ wallets = {} /\ merchants = {}
  /\ req = [c \in Clients |-> NoReq]
  /\ handed = {}
  /\ clock = 0 /\ dbFaults = 0

Exists(n) == \E b \in businesses : b.id = n
Taken(i) == \E b \in businesses : b.idx = i
InUse(a) == \E w \in wallets : w.addr = a

Goto(c, r) == req' = [req EXCEPT ![c] = r]
Rest == UNCHANGED <<handed, clock, dbFaults>>

-----------------------------------------------------------------------------
(* Register, at the backend.                                               *)

\* The duplicate guard; a name that exists is refused.
Register(c, n) ==
  /\ req[c] = NoReq /\ ~Exists(n)
  /\ Goto(c, [pc |-> "max", id |-> n])
  /\ UNCHANGED <<businesses, wallets, merchants>> /\ Rest

\* Mutant: indices are counted from 1 here.
ReadMaxFromOne(c) ==
  /\ req[c].pc = "max"
  /\ Goto(c, [pc |-> "insert", id |-> req[c].id,
              idx |-> Max({0} \cup {b.idx : b \in businesses}) + 1])
  /\ UNCHANGED <<businesses, wallets, merchants>> /\ Rest

\* The largest index, plus one.
ReadMax(c) ==
  /\ req[c].pc = "max"
  /\ Goto(c, [pc |-> "insert", id |-> req[c].id,
              idx |-> IF businesses = {} THEN 0 ELSE Max({b.idx : b \in businesses}) + 1])
  /\ UNCHANGED <<businesses, wallets, merchants>> /\ Rest

\* The rows are inserted, with created_at from the process's clock.
InsertRows(c) ==
  /\ req[c].pc = "insert"
  /\ Goto(c, [pc |-> "commit", id |-> req[c].id, idx |-> req[c].idx, at |-> clock])
  /\ UNCHANGED <<businesses, wallets, merchants>> /\ Rest

\* The transaction ends.  An insert waits for a transaction that holds the same
\* key, so a conflict can as well be found here: then nothing is kept.
CommitRegister(c) ==
  /\ req[c].pc = "commit"
  /\ LET n == req[c].id
         i == req[c].idx IN
     IF Exists(n) \/ Taken(i) \/ InUse(<<Sui, i>>) \/ n \in merchants
     THEN UNCHANGED <<businesses, wallets, merchants>>
     ELSE /\ businesses' = businesses \cup {[id |-> n, idx |-> i]}
          /\ wallets' = wallets \cup {[addr |-> <<Sui, i>>, owner |-> n, at |-> req[c].at]}
          /\ merchants' = merchants \cup {n}
  /\ Goto(c, NoReq)
  /\ Rest

-----------------------------------------------------------------------------
(* HandleOnboard, at the indexer.                                          *)

HandleOnboard(c, n) ==
  /\ req[c] = NoReq /\ ~Exists(n)
  /\ Goto(c, [pc |-> "count", id |-> n])
  /\ UNCHANGED <<businesses, wallets, merchants>> /\ Rest

\* The number of businesses is the index.
CountBusinesses(c) ==
  /\ req[c].pc = "count"
  /\ Goto(c, [pc |-> "business", id |-> req[c].id, idx |-> Cardinality(businesses)])
  /\ UNCHANGED <<businesses, wallets, merchants>> /\ Rest

\* Mutant: nothing in the database keeps the index unique.
SaveBusinessAnyIndex(c) ==
  /\ req[c].pc = "business"
  /\ IF Exists(req[c].id)
     THEN Goto(c, NoReq) /\ UNCHANGED businesses
     ELSE /\ businesses' = businesses \cup {[id |-> req[c].id, idx |-> req[c].idx]}
          /\ Goto(c, [pc |-> "wallets", id |-> req[c].id, idx |-> req[c].idx, next |-> 1])
  /\ UNCHANGED <<wallets, merchants>> /\ Rest

\* A duplicate of name or index is answered 409.
SaveBusiness(c) ==
  /\ req[c].pc = "business"
  /\ IF Exists(req[c].id) \/ Taken(req[c].idx)
     THEN Goto(c, NoReq) /\ UNCHANGED businesses
     ELSE /\ businesses' = businesses \cup {[id |-> req[c].id, idx |-> req[c].idx]}
          /\ Goto(c, [pc |-> "wallets", id |-> req[c].id, idx |-> req[c].idx, next |-> 1])
  /\ UNCHANGED <<wallets, merchants>> /\ Rest

\* The next wallet row; an error of the database, a duplicate too, is logged only.
SaveWallet(c) ==
  /\ req[c].pc = "wallets" /\ req[c].next <= Len(NetworkList)
  /\ req' = [req EXCEPT ![c].next = @ + 1]
  /\ LET a == <<NetworkList[req[c].next], req[c].idx>> IN
     \/ /\ wallets' = IF InUse(a) THEN wallets
                       ELSE wallets \cup {[addr |-> a, owner |-> req[c].id, at |-> clock]}
        /\ UNCHANGED dbFaults
     \/ /\ dbFaults < MaxDBFaults /\ dbFaults' = dbFaults + 1
        /\ UNCHANGED wallets
  /\ UNCHANGED <<businesses, merchants, handed, clock>>

\* 201 with the addresses, whether their rows were saved or not.
RespondOnboard(c) ==
  /\ req[c].pc = "wallets" /\ req[c].next > Len(NetworkList)
  /\ handed' = handed \cup {<<req[c].id, <<net, req[c].idx>>>> : net \in Networks}
  /\ Goto(c, NoReq)
  /\ UNCHANGED <<businesses, wallets, merchants, clock, dbFaults>>

-----------------------------------------------------------------------------
(* CreateOrder, at the backend: the order's wallet row.                    *)

\* created_at is NOW(), the time the transaction began.
CreateOrder(c, n, a) ==
  /\ req[c] = NoReq /\ n \in merchants /\ ~InUse(a)
  /\ \A d \in Clients : req[d].pc = "order" => req[d].addr # a
  /\ Goto(c, [pc |-> "order", id |-> n, addr |-> a, at |-> clock])
  /\ UNCHANGED <<businesses, wallets, merchants>> /\ Rest

CommitOrder(c) ==
  /\ req[c].pc = "order"
  /\ wallets' = wallets \cup {[addr |-> req[c].addr, owner |-> req[c].id, at |-> req[c].at]}
  /\ Goto(c, NoReq)
  /\ UNCHANGED <<businesses, merchants>> /\ Rest

\* A handler ends before its next statement: an error, a lost connection, a crash.
Abandon(c) ==
  /\ req[c] # NoReq
  /\ dbFaults < MaxDBFaults /\ dbFaults' = dbFaults + 1
  /\ Goto(c, NoReq)
  /\ UNCHANGED <<businesses, wallets, merchants, handed, clock>>

Tick ==
  /\ clock < MaxClock /\ clock' = clock + 1
  /\ UNCHANGED <<businesses, wallets, merchants, req, handed, dbFaults>>

Handle(c) ==
  \/ ReadMax(c) \/ InsertRows(c) \/ CommitRegister(c)
  \/ CountBusinesses(c) \/ SaveBusiness(c)
  \/ SaveWallet(c) \/ RespondOnboard(c)
  \/ CommitOrder(c)

RegNext ==
  \/ \E c \in Clients :
       \/ \E n \in Names : Register(c, n) \/ HandleOnboard(c, n)
       \/ \E n \in Names, a \in Orders : CreateOrder(c, n, a)
       \/ Handle(c) \/ Abandon(c)
  \/ Tick

-----------------------------------------------------------------------------

\* The two ways to pick an index agree: the number of businesses is the largest
\* index plus one, whichever of the two services registered them, whatever
\* requests lost a race or died half-way.  With a gap, COUNT would give an index
\* that is taken and every further onboarding would be refused.
IndicesDense == {b.idx : b \in businesses} = 0..(Cardinality(businesses) - 1)

\* An address a business was given in an answer receives payments for nobody else,
\* though several requests may have picked the same index and the rows are saved
\* without a transaction.
HandedIsOwn == \A h \in handed, w \in wallets : w.addr = h[2] => w.owner = h[1]
=============================================================================
