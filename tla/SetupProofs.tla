---------------------------- MODULE SetupProofs ----------------------------
(***************************************************************************)
(* For every number of threads and whatever fails, main holds at each step *)
(* exactly what Setup!Held says, so that nothing is misused on the way and *)
(* nothing is left when it returns.                                        *)
(***************************************************************************)
EXTENDS Setup, TLAPS

-----------------------------------------------------------------------------
(* Sets of resources                                                        *)

(* A set of resources is known by its members of each kind.                 *)
LEMMA HeldMembers ==
    ASSUME NEW W, NEW K, NEW C, NEW S, NEW O, NEW r
    PROVE  r \in HeldOf(W, K, C, S, O) <=>
              \/ \E i \in W : r = Res("wallet", i)
              \/ \E i \in K : r = Res("evp_key", i)
              \/ \E i \in C : r = Res("ctx", i)
              \/ \E i \in S : r = Res("sock", i)
              \/ \E k \in O : r = One(k)
BY DEF HeldOf

(* The other resources are of kinds of their own.                           *)
OtherKinds == {"thread_wallets", "thread_ctxs", "thread_socks", "thread_submitted", "key_ctx"}

(* A resource is in a set of resources when its index is among those of its kind.*)
LEMMA HeldByKind ==
    ASSUME NEW W, NEW K, NEW C, NEW S, NEW O, O \subseteq OtherKinds
    PROVE  /\ \A i : Res("wallet", i) \in HeldOf(W, K, C, S, O) <=> i \in W
           /\ \A i : Res("evp_key", i) \in HeldOf(W, K, C, S, O) <=> i \in K
           /\ \A i : Res("ctx", i) \in HeldOf(W, K, C, S, O) <=> i \in C
           /\ \A i : Res("sock", i) \in HeldOf(W, K, C, S, O) <=> i \in S
           /\ \A k \in OtherKinds : One(k) \in HeldOf(W, K, C, S, O) <=> k \in O
<1>1. \A kind, i : Res(kind, i).kind = kind /\ Res(kind, i).of = i
  BY DEF Res
<1>2. \A kind : One(kind).kind = kind
  BY DEF One, Res
<1> QED BY <1>1, <1>2, HeldMembers DEF OtherKinds

(* Releasing and acquiring are done kind by kind.                           *)
LEMMA HeldChange ==
    ASSUME NEW W, NEW K, NEW C, NEW S, NEW O, O \subseteq OtherKinds,
           NEW W1, NEW K1, NEW C1, NEW S1, NEW O1, O1 \subseteq OtherKinds,
           NEW W2, NEW K2, NEW C2, NEW S2, NEW O2, O2 \subseteq OtherKinds
    PROVE  (HeldOf(W, K, C, S, O) \ HeldOf(W1, K1, C1, S1, O1)) \cup HeldOf(W2, K2, C2, S2, O2)
            = HeldOf((W \ W1) \cup W2, (K \ K1) \cup K2, (C \ C1) \cup C2,
                     (S \ S1) \cup S2, (O \ O1) \cup O2)
<1> DEFINE left == (HeldOf(W, K, C, S, O) \ HeldOf(W1, K1, C1, S1, O1))
                       \cup HeldOf(W2, K2, C2, S2, O2)
           right == HeldOf((W \ W1) \cup W2, (K \ K1) \cup K2, (C \ C1) \cup C2,
                           (S \ S1) \cup S2, (O \ O1) \cup O2)
<1>1. (O \ O1) \cup O2 \subseteq OtherKinds
  OBVIOUS
<1>2. ASSUME NEW r, r \in left PROVE r \in right
  BY <1>1, <1>2, HeldMembers, HeldByKind
<1>3. ASSUME NEW r, r \in right PROVE r \in left
  BY <1>1, <1>3, HeldMembers, HeldByKind
<1> QED BY <1>2, <1>3

(* Fewer members of each kind make a smaller set.                           *)
LEMMA HeldSubset ==
    ASSUME NEW W, NEW K, NEW C, NEW S, NEW O,
           NEW W1, NEW K1, NEW C1, NEW S1, NEW O1,
           W1 \subseteq W, K1 \subseteq K, C1 \subseteq C, S1 \subseteq S, O1 \subseteq O
    PROVE  HeldOf(W1, K1, C1, S1, O1) \subseteq HeldOf(W, K, C, S, O)
BY HeldMembers

-----------------------------------------------------------------------------
(* One step                                                                 *)

(* Others names known kinds only.                                           *)
LEMMA OthersKnown == Others \subseteq OtherKinds
BY DEF Others, OtherKinds

(* A step that releases what is held, uses what is held, and ends where what *)
(* is held is what remains, keeps the books.                                 *)
LEMMA BooksKept ==
    ASSUME IInv, pc # "exited", Others' \subseteq OtherKinds,
           NEW W1, NEW K1, NEW C1, NEW S1, NEW O1, O1 \subseteq OtherKinds,
           NEW W2, NEW K2, NEW C2, NEW S2, NEW O2, O2 \subseteq OtherKinds,
           NEW used, used \subseteq Held,
           W1 \subseteq Wallets, K1 \subseteq Keys, C1 \subseteq Contexts,
           S1 \subseteq Sockets, O1 \subseteq Others,
           Exchange(HeldOf(W1, K1, C1, S1, O1), used, HeldOf(W2, K2, C2, S2, O2)),
           Wallets' = (Wallets \ W1) \cup W2, Keys' = (Keys \ K1) \cup K2,
           Contexts' = (Contexts \ C1) \cup C2, Sockets' = (Sockets \ S1) \cup S2,
           Others' = (Others \ O1) \cup O2
    PROVE  live' = Held' /\ NothingMisused'
<1>1. live = Held
  BY DEF IInv
<1>2. HeldOf(W1, K1, C1, S1, O1) \subseteq Held
  BY HeldSubset DEF Held
<1>3. misused' = {}
  BY <1>1, <1>2 DEF Exchange, IInv, NothingMisused
<1>4. Held' = HeldOf((Wallets \ W1) \cup W2, (Keys \ K1) \cup K2, (Contexts \ C1) \cup C2,
                     (Sockets \ S1) \cup S2, (Others \ O1) \cup O2)
  BY DEF Held, HeldOf
<1>5. live' = (Held \ HeldOf(W1, K1, C1, S1, O1)) \cup HeldOf(W2, K2, C2, S2, O2)
  BY <1>1 DEF Exchange
<1>6. live' = Held'
  BY <1>4, <1>5, HeldChange, OthersKnown DEF Held
<1> QED BY <1>3, <1>6 DEF NothingMisused

-----------------------------------------------------------------------------
(* Control: counters and pointers                                           *)

Control == TypeOK /\ CounterInv /\ PointerInv /\ QueueInv

(* No step takes a counter or a pointer out of its range.                   *)
LEMMA ControlKept == IInv /\ [Next]_vars => Control'
<1> SUFFICES ASSUME IInv, [Next]_vars PROVE Control'
  OBVIOUS
<1> USE SetupAssumption DEF IInv, Control, TypeOK, CounterInv, PointerInv, QueueInv, Threads, Pointers, pointers
<1>1. CASE OutOfMemory
  BY <1>1 DEF OutOfMemory, FailTo
<1>2. CASE AllocWalletArray
  BY <1>2 DEF AllocWalletArray, GoTo
<1>3. CASE AllocWallet
  BY <1>3 DEF AllocWallet, GoTo
<1>4. CASE NewKeyContext
  BY <1>4 DEF NewKeyContext, GoTo, FailTo
<1>5. CASE GenerateKey
  BY <1>5 DEF GenerateKey, GoTo, FailTo
<1>6. CASE HaveWallets
  BY <1>6 DEF HaveWallets, GoTo
<1>7. CASE AllocSocketArrays
  BY <1>7 DEF AllocSocketArrays, GoTo
<1>8. CASE OpenSocket
  BY <1>8 DEF OpenSocket, GoTo, FailTo
<1>9. CASE HaveSockets
  BY <1>9 DEF HaveSockets, GoTo
<1>10. CASE AllocCounters
  BY <1>10 DEF AllocCounters, GoTo
<1>11. CASE Parallel
  BY <1>11 DEF Parallel, GoTo
<1>12. CASE Close
  BY <1>12 DEF Close, GoTo
<1>13. CASE Destroy
  BY <1>13 DEF Destroy, DestroyContext, Destroyable, GoTo
<1>14. CASE FreeSocketArrays
  BY <1>14 DEF FreeSocketArrays, GoTo
<1>15. CASE DestroyWallet
  BY <1>15 DEF DestroyWallet, GoTo
<1>16. CASE Return
  BY <1>16 DEF Return, GoTo
<1>17. CASE UndoClose
  BY <1>17 DEF UndoClose, Undo
<1>18. CASE UndoDestroy
  BY <1>18 DEF UndoDestroy, Undo
<1>19. CASE UndoSocketArrays
  BY <1>19 DEF UndoSocketArrays, Undo
<1>20. CASE UndoWallet
  BY <1>20 DEF UndoWallet, Undo, WalletsToUndo
<1>21. CASE ReturnEarly
  BY <1>21 DEF ReturnEarly, Undo, WalletsToUndo
<1>22. CASE Ended \/ UNCHANGED vars
  <2>1. UNCHANGED <<pc, t, j, code, use_zmq, thread_ctxs, thread_socks, queued>>
    BY <1>22 DEF Ended, vars
  <2>2. TypeOK' /\ CounterInv'
    BY <2>1
  <2>3. PointerInv'
    BY <2>1
  <2>4. QueueInv'
    BY <2>1
  <2> QED BY <2>2, <2>3, <2>4
<1>23. CASE Transfer
  BY <1>23 DEF Transfer
<1> QED BY <1>1, <1>2, <1>3, <1>4, <1>5, <1>6, <1>7, <1>8, <1>9, <1>10, <1>11, <1>12, <1>13, <1>14, <1>15, <1>16, <1>17, <1>18, <1>19, <1>20, <1>21, <1>22, <1>23 DEF Next, Main

-----------------------------------------------------------------------------
(* Books: what is held, after each kind of step                             *)

(* The empty exchange.                                                      *)
LEMMA NothingHeld == HeldOf({}, {}, {}, {}, {}) = {}
BY DEF HeldOf

Components == <<Wallets, Keys, Contexts, Sockets, Others>>

(* A step that takes and gives nothing.                                     *)
LEMMA BooksUntouched ==
    ASSUME IInv, pc # "exited", Others' \subseteq OtherKinds,
           UNCHANGED resourceVars, UNCHANGED Components
    PROVE  live' = Held' /\ NothingMisused'
<1>1. Held' = Held
  BY DEF Held, HeldOf, Components
<1> QED BY <1>1 DEF IInv, NothingMisused, resourceVars

(* The array of wallets is acquired (main.c 117).                           *)
LEMMA AllocWalletArrayBooks ==
    ASSUME IInv, AllocWalletArray
    PROVE  live' = Held' /\ NothingMisused'
<1> USE SetupAssumption DEF IInv, Control, TypeOK, CounterInv, PointerInv, Threads, Pointers, pointers
<1>1. Exchange(HeldOf({}, {}, {}, {}, {}), {},
             HeldOf({}, {}, {}, {}, {"thread_wallets"}))
  BY NothingHeld DEF HeldOf, Exchange, AllocWalletArray, Acquire, GoTo
<1>2. Others' = Others \cup {"thread_wallets"}
  BY DEF Others, AllocWalletArray, Acquire, GoTo
<1>3. UNCHANGED <<Wallets, Keys, Contexts, Sockets>>
  BY DEF Keys, Wallets, FirstContext, FirstSocket, Contexts, Sockets, Others, AllocWalletArray, Acquire, GoTo
<1>4. pc # "exited" /\ Others' \subseteq OtherKinds
  BY DEF Others, OtherKinds, AllocWalletArray
<1> HIDE DEF IInv
<1> QED BY <1>1, <1>2, <1>3, <1>4, BooksKept DEF OtherKinds

(* One wallet more (wallet.c 76).                                           *)
LEMMA AllocWalletBooks ==
    ASSUME IInv, AllocWallet
    PROVE  live' = Held' /\ NothingMisused'
<1> USE SetupAssumption DEF IInv, Control, TypeOK, CounterInv, PointerInv, Threads, Pointers, pointers
<1>1. Exchange(HeldOf({}, {}, {}, {}, {}), {},
             HeldOf({t}, {}, {}, {}, {}))
  BY NothingHeld DEF HeldOf, Exchange, AllocWallet, Acquire, GoTo
<1>2. Wallets' = Wallets \cup {t}
  BY DEF Wallets, Keys, AllocWallet, Acquire, GoTo
<1>3. UNCHANGED <<Keys, Contexts, Sockets, Others>>
  BY DEF Keys, Wallets, FirstContext, FirstSocket, Contexts, Sockets, Others, AllocWallet, Acquire, GoTo
<1>4. pc # "exited" /\ Others' \subseteq OtherKinds
  BY DEF Others, OtherKinds, AllocWallet
<1> HIDE DEF IInv
<1> QED BY <1>1, <1>2, <1>3, <1>4, BooksKept DEF OtherKinds

(* The key context is acquired (wallet.c 86).                               *)
LEMMA NewKeyContextBooks ==
    ASSUME IInv, NewKeyContext, pc' = "keygen"
    PROVE  live' = Held' /\ NothingMisused'
<1> USE SetupAssumption DEF IInv, Control, TypeOK, CounterInv, PointerInv, Threads, Pointers, pointers
<1>1. Exchange(HeldOf({}, {}, {}, {}, {}), {},
             HeldOf({}, {}, {}, {}, {"key_ctx"}))
  BY NothingHeld DEF HeldOf, Exchange, NewKeyContext, Acquire, GoTo, FailTo
<1>2. Others' = Others \cup {"key_ctx"}
  BY DEF Others, NewKeyContext, Acquire, GoTo, FailTo
<1>3. UNCHANGED <<Wallets, Keys, Contexts, Sockets>>
  BY DEF Keys, Wallets, FirstContext, FirstSocket, Contexts, Sockets, Others, NewKeyContext, Acquire, GoTo, FailTo
<1>4. pc # "exited" /\ Others' \subseteq OtherKinds
  BY DEF Others, OtherKinds, NewKeyContext
<1> HIDE DEF IInv
<1> QED BY <1>1, <1>2, <1>3, <1>4, BooksKept DEF OtherKinds

(* Without a key context the wallet is freed (wallet.c 87-90).              *)
LEMMA NoKeyContextBooks ==
    ASSUME IInv, NewKeyContext, pc' = "undo_wallets"
    PROVE  live' = Held' /\ NothingMisused'
<1> USE SetupAssumption DEF IInv, Control, TypeOK, CounterInv, PointerInv, Threads, Pointers, pointers
<1>1. Exchange(HeldOf({t}, {}, {}, {}, {}), {},
             HeldOf({}, {}, {}, {}, {}))
  BY NothingHeld DEF HeldOf, Exchange, NewKeyContext, Release, GoTo, FailTo
<1>2. {t} \subseteq Wallets /\ Wallets' = Wallets \ {t}
  BY DEF Wallets, Keys, NewKeyContext, Release, GoTo, FailTo
<1>3. UNCHANGED <<Keys, Contexts, Sockets, Others>>
  BY DEF Keys, Wallets, FirstContext, FirstSocket, Contexts, Sockets, Others, NewKeyContext, Release, GoTo, FailTo
<1>4. pc # "exited" /\ Others' \subseteq OtherKinds
  BY DEF Others, OtherKinds, NewKeyContext
<1> HIDE DEF IInv
<1> QED BY <1>1, <1>2, <1>3, <1>4, BooksKept DEF OtherKinds

(* The key is made and its context freed (wallet.c 104-110).                *)
LEMMA GenerateKeyBooks ==
    ASSUME IInv, GenerateKey, pc' = "wallet"
    PROVE  live' = Held' /\ NothingMisused'
<1> USE SetupAssumption DEF IInv, Control, TypeOK, CounterInv, PointerInv, Threads, Pointers, pointers
<1>1. Exchange(HeldOf({}, {}, {}, {}, {"key_ctx"}), {Res("wallet", t)},
             HeldOf({}, {t}, {}, {}, {}))
  BY NothingHeld DEF HeldOf, Exchange, GenerateKey, GoTo, FailTo
<1>2. {Res("wallet", t)} \subseteq Held
  BY DEF Held, HeldOf, Wallets, GenerateKey, GoTo, FailTo
<1>3. Keys' = Keys \cup {t}
  BY DEF Keys, GenerateKey, GoTo, FailTo
<1>4. {"key_ctx"} \subseteq Others /\ Others' = Others \ {"key_ctx"}
  BY DEF Others, GenerateKey, GoTo, FailTo
<1>5. UNCHANGED <<Wallets, Contexts, Sockets>>
  BY DEF Keys, Wallets, FirstContext, FirstSocket, Contexts, Sockets, Others, GenerateKey, GoTo, FailTo
<1>6. pc # "exited" /\ Others' \subseteq OtherKinds
  BY DEF Others, OtherKinds, GenerateKey
<1> HIDE DEF IInv
<1> QED BY <1>1, <1>2, <1>3, <1>4, <1>5, <1>6, BooksKept DEF OtherKinds

(* Without a key, context and wallet are freed (wallet.c 92-108).           *)
LEMMA NoKeyBooks ==
    ASSUME IInv, GenerateKey, pc' = "undo_wallets"
    PROVE  live' = Held' /\ NothingMisused'
<1> USE SetupAssumption DEF IInv, Control, TypeOK, CounterInv, PointerInv, Threads, Pointers, pointers
<1>1. Exchange(HeldOf({t}, {}, {}, {}, {"key_ctx"}), {},
             HeldOf({}, {}, {}, {}, {}))
  BY NothingHeld DEF HeldOf, Exchange, GenerateKey, Release, GoTo, FailTo
<1>2. {t} \subseteq Wallets /\ Wallets' = Wallets \ {t}
  BY DEF Wallets, Keys, GenerateKey, Release, GoTo, FailTo
<1>3. {"key_ctx"} \subseteq Others /\ Others' = Others \ {"key_ctx"}
  BY DEF Others, GenerateKey, Release, GoTo, FailTo
<1>4. UNCHANGED <<Keys, Contexts, Sockets>>
  BY DEF Keys, Wallets, FirstContext, FirstSocket, Contexts, Sockets, Others, GenerateKey, Release, GoTo, FailTo
<1>5. pc # "exited" /\ Others' \subseteq OtherKinds
  BY DEF Others, OtherKinds, GenerateKey
<1> HIDE DEF IInv
<1> QED BY <1>1, <1>2, <1>3, <1>4, <1>5, BooksKept DEF OtherKinds

(* The two arrays of pointers (main.c 132-133).                             *)
LEMMA AllocSocketArraysBooks ==
    ASSUME IInv, AllocSocketArrays
    PROVE  live' = Held' /\ NothingMisused'
<1> USE SetupAssumption DEF IInv, Control, TypeOK, CounterInv, PointerInv, Threads, Pointers, pointers
<1>1. Exchange(HeldOf({}, {}, {}, {}, {}), {},
             HeldOf({}, {}, {}, {}, {"thread_ctxs", "thread_socks"}))
  BY NothingHeld DEF HeldOf, Exchange, AllocSocketArrays, SocketArrays, Acquire, GoTo
<1>2. Others' = Others \cup {"thread_ctxs", "thread_socks"}
  BY DEF Others, AllocSocketArrays, SocketArrays, Acquire, GoTo
<1>3. UNCHANGED <<Wallets, Keys, Contexts, Sockets>>
  BY DEF Keys, Wallets, FirstContext, FirstSocket, Contexts, Sockets, Others, AllocSocketArrays, SocketArrays, Acquire, GoTo
<1>4. pc # "exited" /\ Others' \subseteq OtherKinds
  BY DEF Others, OtherKinds, AllocSocketArrays
<1> HIDE DEF IInv
<1> QED BY <1>1, <1>2, <1>3, <1>4, BooksKept DEF OtherKinds

(* What was opened, connected or not (main.c 135-147).                      *)
LEMMA OpenSocketBooks ==
    ASSUME IInv, OpenSocket
    PROVE  live' = Held' /\ NothingMisused'
<1> USE SetupAssumption DEF IInv, Control, TypeOK, CounterInv, PointerInv, Threads, Pointers, pointers
<1>1. Exchange(HeldOf({}, {}, {}, {}, {}), {},
             HeldOf({}, {}, {i \in {t} : thread_ctxs'[t] = "set"}, {i \in {t} : thread_socks'[t] = "set"}, {}))
  BY NothingHeld DEF HeldOf, Exchange, OpenSocket, Acquire, GoTo, FailTo
<1>2. Contexts' = Contexts \cup {i \in {t} : thread_ctxs'[t] = "set"}
  BY DEF Contexts, FirstContext, OpenSocket, Acquire, GoTo, FailTo
<1>3. Sockets' = Sockets \cup {i \in {t} : thread_socks'[t] = "set"}
  BY DEF Sockets, FirstSocket, FirstContext, OpenSocket, Acquire, GoTo, FailTo
<1>4. UNCHANGED <<Wallets, Keys, Others>>
  BY DEF Keys, Wallets, FirstContext, FirstSocket, Contexts, Sockets, Others, OpenSocket, Acquire, GoTo, FailTo
<1>5. pc # "exited" /\ Others' \subseteq OtherKinds
  BY DEF Others, OtherKinds, OpenSocket
<1> HIDE DEF IInv
<1> QED BY <1>1, <1>2, <1>3, <1>4, <1>5, BooksKept DEF OtherKinds

(* The counters (main.c 153).                                               *)
LEMMA AllocCountersBooks ==
    ASSUME IInv, AllocCounters
    PROVE  live' = Held' /\ NothingMisused'
<1> USE SetupAssumption DEF IInv, Control, TypeOK, CounterInv, PointerInv, Threads, Pointers, pointers
<1>1. Exchange(HeldOf({}, {}, {}, {}, {}), {},
             HeldOf({}, {}, {}, {}, {"thread_submitted"}))
  BY NothingHeld DEF HeldOf, Exchange, AllocCounters, Acquire, GoTo
<1>2. Others' = Others \cup {"thread_submitted"}
  BY DEF Others, AllocCounters, Acquire, GoTo
<1>3. UNCHANGED <<Wallets, Keys, Contexts, Sockets>>
  BY DEF Keys, Wallets, FirstContext, FirstSocket, Contexts, Sockets, Others, AllocCounters, Acquire, GoTo
<1>4. pc # "exited" /\ Others' \subseteq OtherKinds
  BY DEF Others, OtherKinds, AllocCounters
<1> HIDE DEF IInv
<1> QED BY <1>1, <1>2, <1>3, <1>4, BooksKept DEF OtherKinds

(* The arrays go once the loop has emptied them (main.c 246-247).           *)
LEMMA FreeSocketArraysBooks ==
    ASSUME IInv, FreeSocketArrays
    PROVE  live' = Held' /\ NothingMisused'
<1> USE SetupAssumption DEF IInv, Control, TypeOK, CounterInv, PointerInv, Threads, Pointers, pointers
<1>1. Exchange(HeldOf({}, {}, {}, {}, {"thread_ctxs", "thread_socks"}), {},
             HeldOf({}, {}, {}, {}, {}))
  BY NothingHeld DEF HeldOf, Exchange, FreeSocketArrays, SocketArrays, Release, GoTo
<1>2. {"thread_ctxs", "thread_socks"} \subseteq Others /\ Others' = Others \ {"thread_ctxs", "thread_socks"}
  BY DEF Others, FreeSocketArrays, SocketArrays, Release, GoTo
<1>3. UNCHANGED <<Wallets, Keys, Contexts, Sockets>>
  BY DEF Keys, Wallets, FirstContext, FirstSocket, Contexts, Sockets, Others, FreeSocketArrays, SocketArrays, Release, GoTo
<1>4. pc # "exited" /\ Others' \subseteq OtherKinds
  BY DEF Others, OtherKinds, FreeSocketArrays
<1> HIDE DEF IInv
<1> QED BY <1>1, <1>2, <1>3, <1>4, BooksKept DEF OtherKinds

(* A wallet goes with its key (main.c 258-259).                             *)
LEMMA DestroyWalletBooks ==
    ASSUME IInv, DestroyWallet
    PROVE  live' = Held' /\ NothingMisused'
<1> USE SetupAssumption DEF IInv, Control, TypeOK, CounterInv, PointerInv, Threads, Pointers, pointers
<1>1. Exchange(HeldOf({t}, {t}, {}, {}, {}), {},
             HeldOf({}, {}, {}, {}, {}))
  BY NothingHeld DEF HeldOf, Exchange, DestroyWallet, Wallet, Release, GoTo
<1>2. {t} \subseteq Wallets /\ Wallets' = Wallets \ {t}
  BY DEF Wallets, Keys, DestroyWallet, Wallet, Release, GoTo
<1>3. {t} \subseteq Keys /\ Keys' = Keys \ {t}
  BY DEF Keys, DestroyWallet, Wallet, Release, GoTo
<1>4. UNCHANGED <<Contexts, Sockets, Others>>
  BY DEF Keys, Wallets, FirstContext, FirstSocket, Contexts, Sockets, Others, DestroyWallet, Wallet, Release, GoTo
<1>5. pc # "exited" /\ Others' \subseteq OtherKinds
  BY DEF Others, OtherKinds, DestroyWallet
<1> HIDE DEF IInv
<1> QED BY <1>1, <1>2, <1>3, <1>4, <1>5, BooksKept DEF OtherKinds

(* The last two arrays go (main.c 260-263).                                 *)
LEMMA ReturnBooks ==
    ASSUME IInv, Return
    PROVE  live' = Held' /\ NothingMisused'
<1> USE SetupAssumption DEF IInv, Control, TypeOK, CounterInv, PointerInv, Threads, Pointers, pointers
<1>1. Exchange(HeldOf({}, {}, {}, {}, {"thread_wallets", "thread_submitted"}), {},
             HeldOf({}, {}, {}, {}, {}))
  BY NothingHeld DEF HeldOf, Exchange, Return, Release, GoTo
<1>2. {"thread_wallets", "thread_submitted"} \subseteq Others /\ Others' = Others \ {"thread_wallets", "thread_submitted"}
  BY DEF Others, Return, Release, GoTo
<1>3. UNCHANGED <<Wallets, Keys, Contexts, Sockets>>
  BY DEF Keys, Wallets, FirstContext, FirstSocket, Contexts, Sockets, Others, Return, Release, GoTo
<1>4. pc # "exited" /\ Others' \subseteq OtherKinds
  BY DEF Others, OtherKinds, Return
<1> HIDE DEF IInv
<1> QED BY <1>1, <1>2, <1>3, <1>4, BooksKept DEF OtherKinds

(* The arrays go once the way out has emptied them (main.c 143).            *)
LEMMA UndoSocketArraysBooks ==
    ASSUME IInv, UndoSocketArrays
    PROVE  live' = Held' /\ NothingMisused'
<1> USE SetupAssumption DEF IInv, Control, TypeOK, CounterInv, PointerInv, Threads, Pointers, pointers
<1>1. Exchange(HeldOf({}, {}, {}, {}, {"thread_ctxs", "thread_socks"}), {},
             HeldOf({}, {}, {}, {}, {}))
  BY NothingHeld DEF HeldOf, Exchange, UndoSocketArrays, SocketArrays, Release, Undo
<1>2. {"thread_ctxs", "thread_socks"} \subseteq Others /\ Others' = Others \ {"thread_ctxs", "thread_socks"}
  BY DEF Others, UndoSocketArrays, SocketArrays, Release, Undo
<1>3. UNCHANGED <<Wallets, Keys, Contexts, Sockets>>
  BY DEF Keys, Wallets, FirstContext, FirstSocket, Contexts, Sockets, Others, UndoSocketArrays, SocketArrays, Release, Undo
<1>4. pc # "exited" /\ Others' \subseteq OtherKinds
  BY DEF Others, OtherKinds, UndoSocketArrays
<1> HIDE DEF IInv
<1> QED BY <1>1, <1>2, <1>3, <1>4, BooksKept DEF OtherKinds

(* A way out destroys a wallet with its key (main.c 122, 144).              *)
LEMMA UndoWalletBooks ==
    ASSUME IInv, UndoWallet
    PROVE  live' = Held' /\ NothingMisused'
<1> USE SetupAssumption DEF IInv, Control, TypeOK, CounterInv, PointerInv, Threads, Pointers, pointers
<1>1. Exchange(HeldOf({j}, {j}, {}, {}, {}), {},
             HeldOf({}, {}, {}, {}, {}))
  BY NothingHeld DEF HeldOf, Exchange, UndoWallet, WalletsToUndo, Wallet, Release, Undo
<1>2. {j} \subseteq Wallets /\ Wallets' = Wallets \ {j}
  BY DEF Wallets, Keys, UndoWallet, WalletsToUndo, Wallet, Release, Undo
<1>3. {j} \subseteq Keys /\ Keys' = Keys \ {j}
  BY DEF Keys, UndoWallet, WalletsToUndo, Wallet, Release, Undo
<1>4. UNCHANGED <<Contexts, Sockets, Others>>
  BY DEF Keys, Wallets, FirstContext, FirstSocket, Contexts, Sockets, Others, UndoWallet, WalletsToUndo, Wallet, Release, Undo
<1>5. pc # "exited" /\ Others' \subseteq OtherKinds
  BY DEF Others, OtherKinds, UndoWallet
<1> HIDE DEF IInv
<1> QED BY <1>1, <1>2, <1>3, <1>4, <1>5, BooksKept DEF OtherKinds

(* A way out frees the array of wallets last (main.c 123, 145).             *)
LEMMA ReturnEarlyBooks ==
    ASSUME IInv, ReturnEarly
    PROVE  live' = Held' /\ NothingMisused'
<1> USE SetupAssumption DEF IInv, Control, TypeOK, CounterInv, PointerInv, Threads, Pointers, pointers
<1>1. Exchange(HeldOf({}, {}, {}, {}, {"thread_wallets"}), {},
             HeldOf({}, {}, {}, {}, {}))
  BY NothingHeld DEF HeldOf, Exchange, ReturnEarly, WalletsToUndo, Release, Undo
<1>2. {"thread_wallets"} \subseteq Others /\ Others' = Others \ {"thread_wallets"}
  BY DEF Others, ReturnEarly, WalletsToUndo, Release, Undo
<1>3. UNCHANGED <<Wallets, Keys, Contexts, Sockets>>
  BY DEF Keys, Wallets, FirstContext, FirstSocket, Contexts, Sockets, Others, ReturnEarly, WalletsToUndo, Release, Undo
<1>4. pc # "exited" /\ Others' \subseteq OtherKinds
  BY DEF Others, OtherKinds, ReturnEarly
<1> HIDE DEF IInv
<1> QED BY <1>1, <1>2, <1>3, <1>4, BooksKept DEF OtherKinds

(* A socket is closed after the loop (main.c 243).                          *)
LEMMA CloseBooks ==
    ASSUME IInv, Close
    PROVE  live' = Held' /\ NothingMisused'
<1> USE SetupAssumption DEF IInv, Control, TypeOK, CounterInv, PointerInv, Threads, Pointers, pointers
<1>1. Exchange(HeldOf({}, {}, {}, {t}, {}), {},
             HeldOf({}, {}, {}, {}, {}))
  BY NothingHeld DEF HeldOf, Exchange, Close, CloseSocket, Release, GoTo
<1>2. {t} \subseteq Sockets /\ Sockets' = Sockets \ {t}
  BY DEF Sockets, FirstSocket, FirstContext, Close, CloseSocket, Release, GoTo
<1>3. UNCHANGED <<Wallets, Keys, Contexts, Others>>
  BY DEF Keys, Wallets, FirstContext, FirstSocket, Contexts, Sockets, Others, Close, CloseSocket, Release, GoTo
<1>4. pc # "exited" /\ Others' \subseteq OtherKinds
  BY DEF Others, OtherKinds, Close
<1> HIDE DEF IInv
<1> QED BY <1>1, <1>2, <1>3, <1>4, BooksKept DEF OtherKinds

(* A context is destroyed after the loop (main.c 244).                      *)
LEMMA DestroyBooks ==
    ASSUME IInv, Destroy
    PROVE  live' = Held' /\ NothingMisused'
<1> USE SetupAssumption DEF IInv, Control, TypeOK, CounterInv, PointerInv, Threads, Pointers, pointers
<1>1. Exchange(HeldOf({}, {}, {t}, {}, {}), {},
             HeldOf({}, {}, {}, {}, {}))
  BY NothingHeld DEF HeldOf, Exchange, Destroy, DestroyContext, Release, GoTo
<1>2. {t} \subseteq Contexts /\ Contexts' = Contexts \ {t}
  BY DEF Contexts, FirstContext, Destroy, DestroyContext, Release, GoTo
<1>3. UNCHANGED <<Wallets, Keys, Sockets, Others>>
  BY DEF Keys, Wallets, FirstContext, FirstSocket, Contexts, Sockets, Others, Destroy, DestroyContext, Release, GoTo
<1>4. pc # "exited" /\ Others' \subseteq OtherKinds
  BY DEF Others, OtherKinds, Destroy
<1> HIDE DEF IInv
<1> QED BY <1>1, <1>2, <1>3, <1>4, BooksKept DEF OtherKinds

(* A way out closes the socket if there is one (main.c 140).                *)
LEMMA UndoCloseBooks ==
    ASSUME IInv, UndoClose
    PROVE  live' = Held' /\ NothingMisused'
<1> USE SetupAssumption DEF IInv, Control, TypeOK, CounterInv, PointerInv, Threads, Pointers, pointers
<1>1. Exchange(HeldOf({}, {}, {}, {i \in {j} : thread_socks[j] = "set"}, {}), {},
             HeldOf({}, {}, {}, {}, {}))
  BY NothingHeld DEF HeldOf, Exchange, UndoClose, CloseSocket, Release, Use, Undo, resourceVars
<1>2. {i \in {j} : thread_socks[j] = "set"} \subseteq Sockets /\ Sockets' = Sockets \ {i \in {j} : thread_socks[j] = "set"}
  BY DEF Sockets, FirstSocket, FirstContext, UndoClose, CloseSocket, Release, Use, Undo, resourceVars
<1>3. UNCHANGED <<Wallets, Keys, Contexts, Others>>
  BY DEF Keys, Wallets, FirstContext, FirstSocket, Contexts, Sockets, Others, UndoClose, CloseSocket, Release, Use, Undo, resourceVars
<1>4. pc # "exited" /\ Others' \subseteq OtherKinds
  BY DEF Others, OtherKinds, UndoClose
<1> HIDE DEF IInv
<1> QED BY <1>1, <1>2, <1>3, <1>4, BooksKept DEF OtherKinds

(* A way out destroys the context if there is one (main.c 141).             *)
LEMMA UndoDestroyBooks ==
    ASSUME IInv, UndoDestroy
    PROVE  live' = Held' /\ NothingMisused'
<1> USE SetupAssumption DEF IInv, Control, TypeOK, CounterInv, PointerInv, Threads, Pointers, pointers
<1>1. Exchange(HeldOf({}, {}, {i \in {j} : thread_ctxs[j] = "set"}, {}, {}), {},
             HeldOf({}, {}, {}, {}, {}))
  BY NothingHeld DEF HeldOf, Exchange, UndoDestroy, DestroyContext, Release, Use, Undo, resourceVars
<1>2. {i \in {j} : thread_ctxs[j] = "set"} \subseteq Contexts /\ Contexts' = Contexts \ {i \in {j} : thread_ctxs[j] = "set"}
  BY DEF Contexts, FirstContext, UndoDestroy, DestroyContext, Release, Use, Undo, resourceVars
<1>3. UNCHANGED <<Wallets, Keys, Sockets, Others>>
  BY DEF Keys, Wallets, FirstContext, FirstSocket, Contexts, Sockets, Others, UndoDestroy, DestroyContext, Release, Use, Undo, resourceVars
<1>4. pc # "exited" /\ Others' \subseteq OtherKinds
  BY DEF Others, OtherKinds, UndoDestroy
<1> HIDE DEF IInv
<1> QED BY <1>1, <1>2, <1>3, <1>4, BooksKept DEF OtherKinds

(* The loop over the batches uses what every thread holds and takes nothing. *)
LEMMA ParallelBooks ==
    ASSUME IInv, Parallel
    PROVE  live' = Held' /\ NothingMisused'
<1> USE SetupAssumption DEF IInv, TypeOK, CounterInv, PointerInv, Threads, Pointers, pointers
<1> DEFINE used == {One("thread_submitted")} \cup (UNION {Wallet(i) : i \in Threads})
                       \cup {Res("sock", i) : i \in {k \in Threads : use_zmq}}
<1>1. used \subseteq Held
  <2>1. "thread_submitted" \in Others
    BY DEF Parallel, Others
  <2>2. Keys = Threads /\ Wallets = Threads
    BY DEF Parallel, Keys, Wallets
  <2>3. \A i \in Threads : use_zmq => i \in Sockets
    BY DEF Parallel, Sockets, FirstSocket, FirstContext
  <2>4. Others \subseteq OtherKinds
    BY OthersKnown
  <2> QED BY <2>1, <2>2, <2>3, HeldMembers DEF Held, Wallet
<1>2. live' = live /\ misused' = misused \cup (used \ live)
  BY DEF Parallel, Use, Exchange
<1>3. UNCHANGED <<Wallets, Keys, Contexts, Sockets, Others>>
  BY DEF Keys, Wallets, FirstContext, FirstSocket, Contexts, Sockets, Others, Parallel, GoTo
<1>4. Held' = Held
  BY <1>3 DEF Held, HeldOf
<1>5. live = Held /\ misused = {}
  BY DEF Parallel, NothingMisused
<1> QED BY <1>1, <1>2, <1>4, <1>5 DEF NothingMisused

(* The end of a loop takes and gives nothing.                               *)
LEMMA HaveBooks ==
    ASSUME IInv, HaveWallets \/ HaveSockets
    PROVE  live' = Held' /\ NothingMisused'
<1> USE SetupAssumption DEF IInv, TypeOK, CounterInv, PointerInv, Threads, Pointers, pointers
<1>1. pc # "exited" /\ Others' \subseteq OtherKinds /\ UNCHANGED resourceVars
  BY DEF Others, OtherKinds, HaveWallets, HaveSockets
<1>2. UNCHANGED <<Wallets, Keys, Contexts, Sockets, Others>>
  BY DEF Keys, Wallets, FirstContext, FirstSocket, Contexts, Sockets, Others,
         HaveWallets, HaveSockets, GoTo
<1> HIDE DEF IInv
<1> QED BY <1>1, <1>2, BooksUntouched DEF Components

-----------------------------------------------------------------------------
(* The invariant                                                            *)

(* When main begins it holds nothing.                                       *)
LEMMA InitInv == Init => IInv
<1> SUFFICES ASSUME Init PROVE IInv
  OBVIOUS
<1> USE SetupAssumption DEF Init, Threads, Pointers
<1>1. TypeOK /\ CounterInv /\ PointerInv /\ QueueInv
  BY DEF TypeOK, CounterInv, PointerInv, QueueInv
<1>2. Keys = {} /\ Wallets = {} /\ Contexts = {} /\ Sockets = {} /\ Others = {}
  BY DEF Keys, Wallets, Contexts, Sockets, Others
<1>3. Held = {}
  BY <1>2, NothingHeld DEF Held
<1> QED BY <1>1, <1>3 DEF IInv, NothingMisused, ResourceInit

(* A step that ends the process leaves the books where they are.            *)
LEMMA ExitBooks ==
    ASSUME IInv, OutOfMemory
    PROVE  pc' = "exited" /\ NothingMisused'
BY DEF IInv, NothingMisused, OutOfMemory, FailTo, resourceVars

(* A step that changes nothing.                                             *)
LEMMA StayInv ==
    ASSUME IInv, UNCHANGED vars
    PROVE  (pc # "exited" => live = Held)' /\ NothingMisused'
<1>1. UNCHANGED <<Wallets, Keys, Contexts, Sockets, Others>>
  BY DEF Keys, Wallets, FirstContext, FirstSocket, Contexts, Sockets, Others, vars, pointers
<1>2. Held' = Held
  BY <1>1 DEF Held, HeldOf
<1> QED BY <1>2 DEF IInv, NothingMisused, vars, resourceVars

(* libzmq hands over a request: nothing of main's changes.                   *)
LEMMA TransferBooks ==
    ASSUME IInv, Transfer
    PROVE  (pc # "exited" => live = Held)' /\ NothingMisused'
<1>1. UNCHANGED <<Wallets, Keys, Contexts, Sockets, Others>>
  BY DEF Keys, Wallets, FirstContext, FirstSocket, Contexts, Sockets, Others, Transfer
<1>2. Held' = Held
  BY <1>1 DEF Held, HeldOf
<1> QED BY <1>2 DEF IInv, NothingMisused, Transfer, resourceVars

(* Every step keeps the invariant.                                          *)
LEMMA NextInv == IInv /\ [Next]_vars => IInv'
<1> SUFFICES ASSUME IInv, [Next]_vars PROVE IInv'
  OBVIOUS
<1> DEFINE Books == (pc # "exited" => live = Held) /\ NothingMisused
<1>1. CASE OutOfMemory
  <2>1. Books'
    BY <1>1, ExitBooks
  <2> QED BY <2>1, ControlKept DEF IInv, Control
<1>2. CASE NewKeyContext
  <2>1. pc' = "keygen" \/ pc' = "undo_wallets"
    BY <1>2 DEF NewKeyContext, GoTo, FailTo
  <2>2. Books'
    BY <1>2, <2>1, NewKeyContextBooks, NoKeyContextBooks
  <2> QED BY <2>2, ControlKept DEF IInv, Control
<1>3. CASE GenerateKey
  <2>1. pc' = "wallet" \/ pc' = "undo_wallets"
    BY <1>3 DEF GenerateKey, GoTo, FailTo
  <2>2. Books'
    BY <1>3, <2>1, GenerateKeyBooks, NoKeyBooks
  <2> QED BY <2>2, ControlKept DEF IInv, Control
<1>4. CASE AllocWalletArray \/ AllocWallet \/ HaveWallets
  <2>1. Books'
    BY <1>4, AllocWalletArrayBooks, AllocWalletBooks, HaveBooks
  <2> QED BY <2>1, ControlKept DEF IInv, Control
<1>5. CASE AllocSocketArrays \/ OpenSocket \/ HaveSockets
  <2>1. Books'
    BY <1>5, AllocSocketArraysBooks, OpenSocketBooks, HaveBooks
  <2> QED BY <2>1, ControlKept DEF IInv, Control
<1>6. CASE AllocCounters \/ Parallel
  <2>1. Books'
    BY <1>6, AllocCountersBooks, ParallelBooks
  <2> QED BY <2>1, ControlKept DEF IInv, Control
<1>7. CASE Close \/ Destroy \/ FreeSocketArrays \/ DestroyWallet \/ Return
  <2>1. Books'
    BY <1>7, CloseBooks, DestroyBooks, FreeSocketArraysBooks, DestroyWalletBooks, ReturnBooks
  <2> QED BY <2>1, ControlKept DEF IInv, Control
<1>8. CASE UndoClose \/ UndoDestroy \/ UndoSocketArrays \/ UndoWallet \/ ReturnEarly
  <2>1. Books'
    BY <1>8, UndoCloseBooks, UndoDestroyBooks, UndoSocketArraysBooks, UndoWalletBooks,
       ReturnEarlyBooks
  <2> QED BY <2>1, ControlKept DEF IInv, Control
<1>9. CASE Ended \/ UNCHANGED vars
  <2>1. Books'
    BY <1>9, StayInv DEF Ended
  <2> QED BY <2>1, ControlKept DEF IInv, Control
<1>10. CASE Transfer
  <2>1. Books'
    BY <1>10, TransferBooks
  <2> QED BY <2>1, ControlKept DEF IInv, Control
<1> QED BY <1>1, <1>2, <1>3, <1>4, <1>5, <1>6, <1>7, <1>8, <1>9, <1>10 DEF Next, Main

(* At every step of main, whatever has failed so far, the blocks and handles *)
(* it holds are the ones its loop counters say (main.c 117-156, 239-263).    *)
THEOREM SetupInvariance == Spec => []IInv
<1>1. Init => IInv
  BY InitInv
<1>2. IInv /\ [Next]_vars => IInv'
  BY NextInv
<1> QED BY <1>1, <1>2, PTL DEF Spec

(* The counters stay in range and main is always at one of its steps.       *)
THEOREM SetupTypeCorrect == Spec => []TypeOK
<1>1. IInv => TypeOK
  BY DEF IInv
<1> QED BY <1>1, SetupInvariance, PTL

(* For any number of threads and any failure, main frees, closes and uses    *)
(* only what it holds: the way out of a failed connection stops at the socket *)
(* that failed, and so never follows a pointer malloc left there.            *)
THEOREM NeverMisuses == Spec => []NothingMisused
<1>1. IInv => NothingMisused
  BY DEF IInv
<1> QED BY <1>1, SetupInvariance, PTL

(* For any number of threads and any failure, main returns with every wallet, *)
(* key, context, socket and array given back and every request handed over.  *)
THEOREM LeavesNothing == Spec => []ReturnsEmptyHanded
<1>1. IInv => ReturnsEmptyHanded
  <2> SUFFICES ASSUME IInv, pc = "returned" PROVE live = {} /\ queued = {}
    BY DEF ReturnsEmptyHanded
  <2>0. queued = {}
    BY DEF IInv, QueueInv
  <2>1. Keys = {} /\ Wallets = {} /\ Others = {}
    BY DEF Keys, Wallets, Others
  <2>2. Contexts = {} /\ Sockets = {}
    BY SetupAssumption DEF Contexts, Sockets, FirstSocket, FirstContext, Threads
  <2>3. live = Held
    BY DEF IInv
  <2> QED BY <2>0, <2>1, <2>2, <2>3, NothingHeld DEF Held
<1> QED BY <1>1, SetupInvariance, PTL

(* For any number of threads, zmq_ctx_destroy finds its socket closed, and on *)
(* the way out of a failed connection nothing queued: the one call that may   *)
(* not return is the one after the loop, over a request (main.c 140-141, 244).*)
THEOREM OnlyRequestsBlock == Spec => []BlocksOnRequestsOnly
<1>1. IInv => BlocksOnRequestsOnly
  <2> SUFFICES ASSUME IInv PROVE BlocksOnRequestsOnly
    OBVIOUS
  <2>1. live = Held \/ pc = "exited"
    BY DEF IInv
  <2>2. ASSUME pc = "destroy" PROVE Res("sock", t) \notin live
    <3>1. t \notin Sockets
      BY <2>2, SetupAssumption DEF Sockets, FirstSocket, FirstContext, IInv, TypeOK
    <3> QED BY <2>1, <2>2, <3>1, HeldByKind, OthersKnown DEF Held
  <2>3. ASSUME pc = "undo_destroy" PROVE Destroyable(j)
    <3>1. j \notin Sockets
      BY <2>3, SetupAssumption DEF Sockets, FirstSocket, FirstContext, IInv, TypeOK
    <3>2. queued = {}
      BY <2>3 DEF IInv, QueueInv
    <3> QED BY <2>1, <2>3, <3>1, <3>2, HeldByKind, OthersKnown DEF Held, Destroyable
  <2> QED BY <2>2, <2>3 DEF BlocksOnRequestsOnly
<1> QED BY <1>1, SetupInvariance, PTL
=============================================================================
