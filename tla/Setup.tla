------------------------------- MODULE Setup -------------------------------
(***************************************************************************)
(* The main function of the generator around its parallel loop: it creates *)
(* a wallet and, unless --in-process, a ZeroMQ context and socket for each *)
(* thread, runs the loop, and gives everything back.  Any step may fail,   *)
(* and each failure has a way out of its own.                              *)
(***************************************************************************)
EXTENDS Resources

CONSTANT num_threads    \* the number of threads, after the clamp

ASSUME SetupAssumption == num_threads \in Nat \ {0}

VARIABLES
    use_zmq,            \* FALSE with --in-process
    pc,                 \* where the main thread is
    t,                  \* the counter of the loop over the threads
    j,                  \* the counter of a loop that undoes an earlier one
    thread_ctxs,        \* the two arrays of pointers, which malloc leaves
    thread_socks,       \*   filled with garbage
    queued,             \* the threads whose last request libzmq still holds
    code                \* what main returns

pointers == <<use_zmq, thread_ctxs, thread_socks, queued>>
vars == <<resourceVars, pc, t, j, code, pointers>>

Threads == 0..(num_threads - 1)
Pointers == {"garbage", "null", "set"}

Init ==
    /\ ResourceInit
    /\ use_zmq \in BOOLEAN
    /\ pc = "wallet_array"
    /\ t = 0
    /\ j = 0
    /\ thread_ctxs = [i \in Threads |-> "garbage"]
    /\ thread_socks = [i \in Threads |-> "garbage"]
    /\ queued = {}
    /\ code = 0

GoTo(label, index) == pc' = label /\ t' = index /\ UNCHANGED <<j, code>>

(* A failure leaves through the way out `label`, and main returns 1.        *)
FailTo(label) == pc' = label /\ j' = 0 /\ code' = 1 /\ UNCHANGED t

Wallet(i) == {Res("wallet", i), Res("evp_key", i)}
SocketArrays == {One("thread_ctxs"), One("thread_socks")}

-----------------------------------------------------------------------------
(* The wallets                                                              *)

(* safe_malloc ends the process when there is no memory.                    *)
OutOfMemory ==
    /\ pc \in {"wallet_array", "wallet", "socket_arrays", "counters"}
    /\ pc = "wallet" => t < num_threads
    /\ FailTo("exited")
    /\ UNCHANGED <<resourceVars, pointers>>

AllocWalletArray ==
    /\ pc = "wallet_array"
    /\ Acquire({One("thread_wallets")})
    /\ GoTo("wallet", 0)
    /\ UNCHANGED pointers

AllocWallet ==
    /\ pc = "wallet" /\ t < num_threads
    /\ Acquire({Res("wallet", t)})
    /\ GoTo("key_ctx", t)
    /\ UNCHANGED pointers

NewKeyContext ==
    /\ pc = "key_ctx"
    /\ \/ Acquire({One("key_ctx")}) /\ GoTo("keygen", t)
       \/ Release({Res("wallet", t)}) /\ FailTo("undo_wallets")
    /\ UNCHANGED pointers

(* Any of the three calls to OpenSSL may fail.  The address and the PEM text *)
(* that follow hold nothing beyond the call.                                 *)
GenerateKey ==
    /\ pc = "keygen"
    /\ \/ /\ Exchange({One("key_ctx")}, {Res("wallet", t)}, {Res("evp_key", t)})
          /\ GoTo("wallet", t + 1)
       \/ /\ Release({One("key_ctx"), Res("wallet", t)})
          /\ FailTo("undo_wallets")
    /\ UNCHANGED pointers

HaveWallets ==
    /\ pc = "wallet" /\ t = num_threads
    /\ GoTo(IF use_zmq THEN "socket_arrays" ELSE "counters", t)
    /\ UNCHANGED <<resourceVars, pointers>>

-----------------------------------------------------------------------------
(* The sockets                                                              *)

AllocSocketArrays ==
    /\ pc = "socket_arrays"
    /\ Acquire(SocketArrays)
    /\ GoTo("open", 0)
    /\ UNCHANGED pointers

(* zmq_ctx_new and zmq_socket may return NULL; zmq_socket and zmq_connect    *)
(* fail on a NULL argument, and zmq_connect may fail on its own.             *)
OpenSocket ==
    /\ pc = "open" /\ t < num_threads
    /\ \E context, socket, connected \in BOOLEAN :
          /\ socket => context
          /\ connected => socket
          /\ thread_ctxs' = [thread_ctxs EXCEPT ![t] = IF context THEN "set" ELSE "null"]
          /\ thread_socks' = [thread_socks EXCEPT ![t] = IF socket THEN "set" ELSE "null"]
          /\ Acquire({r \in {Res("ctx", t)} : context} \cup {r \in {Res("sock", t)} : socket})
          /\ UNCHANGED <<use_zmq, queued>>
          /\ IF connected THEN GoTo("open", t + 1) ELSE FailTo("undo_close")

HaveSockets ==
    /\ pc = "open" /\ t = num_threads
    /\ GoTo("counters", t)
    /\ UNCHANGED <<resourceVars, pointers>>

(* The counters are the last thing acquired; the loop then uses the wallet   *)
(* and the socket of each thread.                                            *)
AllocCounters ==
    /\ pc = "counters"
    /\ Acquire({One("thread_submitted")})
    /\ GoTo("parallel", 0)
    /\ UNCHANGED pointers

(* After a timeout the last request of any thread may still be in its pipe.  *)
Parallel ==
    /\ pc = "parallel"
    /\ Use({One("thread_submitted")} \cup (UNION {Wallet(i) : i \in Threads})
           \cup {Res("sock", i) : i \in {k \in Threads : use_zmq}})
    /\ queued' \in SUBSET {i \in Threads : use_zmq}
    /\ GoTo(IF use_zmq THEN "close" ELSE "destroy_wallets", 0)
    /\ UNCHANGED <<use_zmq, thread_ctxs, thread_socks>>

(* libzmq hands a request to a receiver, which need not ever come.           *)
Transfer ==
    /\ \E i \in queued : queued' = queued \ {i}
    /\ UNCHANGED <<resourceVars, pc, t, j, code, use_zmq, thread_ctxs, thread_socks>>

-----------------------------------------------------------------------------
(* Giving back                                                              *)

(* zmq_close of socket i, if its pointer is not NULL.  A pointer that was    *)
(* never written is whatever malloc left there.                              *)
CloseSocket(i) ==
    \/ thread_socks[i] = "set"     /\ Release({Res("sock", i)})
    \/ thread_socks[i] = "null"    /\ UNCHANGED resourceVars
    \/ thread_socks[i] = "garbage" /\ Use({Res("sock", i)})

(* zmq_ctx_destroy does not return while a socket of the context is open or, *)
(* the linger period being infinite, a request of a closed one is queued.    *)
Destroyable(i) == Res("sock", i) \notin live /\ i \notin queued

DestroyContext(i) ==
    \/ thread_ctxs[i] = "set"     /\ Destroyable(i) /\ Release({Res("ctx", i)})
    \/ thread_ctxs[i] = "null"    /\ UNCHANGED resourceVars
    \/ thread_ctxs[i] = "garbage" /\ Use({Res("ctx", i)})

-----------------------------------------------------------------------------
(* Faulty variants: the sockets are not closed before their contexts, one     *)
(* wallet too many is destroyed, and the way out of a failed connection       *)
(* visits every socket, or stops before the one that failed.                  *)

CloseForgotten ==
    /\ pc = "close" /\ t < num_threads
    /\ GoTo("destroy", t)
    /\ UNCHANGED <<resourceVars, pointers>>

DestroyWalletOnceMore ==
    /\ pc = "destroy_wallets" /\ t <= num_threads
    /\ Release(Wallet(t))
    /\ GoTo("destroy_wallets", t + 1)
    /\ UNCHANGED pointers

Undo(label, index) == pc' = label /\ j' = index /\ UNCHANGED <<t, code, pointers>>

UndoCloseAll ==
    /\ pc = "undo_close" /\ j < num_threads
    /\ CloseSocket(j)
    /\ Undo("undo_destroy", j)

UndoSocketArraysEarly ==
    /\ pc = "undo_close" /\ j >= t
    /\ Release(SocketArrays)
    /\ Undo("undo_all_wallets", 0)

-----------------------------------------------------------------------------
(* After the loop                                                           *)

Close ==
    /\ pc = "close" /\ t < num_threads
    /\ CloseSocket(t)
    /\ GoTo("destroy", t)
    /\ UNCHANGED pointers

Destroy ==
    /\ pc = "destroy"
    /\ DestroyContext(t)
    /\ GoTo("close", t + 1)
    /\ UNCHANGED pointers

FreeSocketArrays ==
    /\ pc = "close" /\ t = num_threads
    /\ Release(SocketArrays)
    /\ GoTo("destroy_wallets", 0)
    /\ UNCHANGED pointers

DestroyWallet ==
    /\ pc = "destroy_wallets" /\ t < num_threads
    /\ Release(Wallet(t))
    /\ GoTo("destroy_wallets", t + 1)
    /\ UNCHANGED pointers

Return ==
    /\ pc = "destroy_wallets" /\ t = num_threads
    /\ Release({One("thread_wallets"), One("thread_submitted")})
    /\ GoTo("returned", t)
    /\ UNCHANGED pointers

-----------------------------------------------------------------------------
(* The ways out                                                             *)

(* A socket was not connected: those opened so far are closed, that one and  *)
(* its context included.                                                     *)
UndoClose ==
    /\ pc = "undo_close" /\ j <= t
    /\ CloseSocket(j)
    /\ Undo("undo_destroy", j)

UndoDestroy ==
    /\ pc = "undo_destroy"
    /\ DestroyContext(j)
    /\ Undo("undo_close", j + 1)

UndoSocketArrays ==
    /\ pc = "undo_close" /\ j > t
    /\ Release(SocketArrays)
    /\ Undo("undo_all_wallets", 0)

(* How many wallets a way out destroys.                                     *)
WalletsToUndo == IF pc = "undo_wallets" THEN t ELSE num_threads

UndoWallet ==
    /\ pc \in {"undo_wallets", "undo_all_wallets"} /\ j < WalletsToUndo
    /\ Release(Wallet(j))
    /\ Undo(pc, j + 1)

ReturnEarly ==
    /\ pc \in {"undo_wallets", "undo_all_wallets"} /\ j >= WalletsToUndo
    /\ Release({One("thread_wallets")})
    /\ Undo("returned", j)

-----------------------------------------------------------------------------
Ended == pc \in {"returned", "exited"} /\ UNCHANGED vars

Main ==
    \/ OutOfMemory
    \/ AllocWalletArray \/ AllocWallet \/ NewKeyContext \/ GenerateKey \/ HaveWallets
    \/ AllocSocketArrays \/ OpenSocket \/ HaveSockets
    \/ AllocCounters \/ Parallel
    \/ Close \/ Destroy \/ FreeSocketArrays \/ DestroyWallet \/ Return
    \/ UndoClose \/ UndoDestroy \/ UndoSocketArrays \/ UndoWallet \/ ReturnEarly
    \/ Ended

Next == Main \/ Transfer

Spec == Init /\ [][Next]_vars

(* A sequential program runs on while no call blocks; of the receiver nothing *)
(* is assumed.                                                               *)
FairSpec == Spec /\ WF_vars(Main)

-----------------------------------------------------------------------------
TypeOK ==
    /\ pc \in {"wallet_array", "wallet", "key_ctx", "keygen", "socket_arrays", "open",
               "counters", "parallel", "close", "destroy", "destroy_wallets",
               "undo_close", "undo_destroy", "undo_wallets", "undo_all_wallets",
               "returned", "exited"}
    /\ use_zmq \in BOOLEAN
    /\ t \in 0..num_threads
    /\ j \in 0..num_threads
    /\ thread_ctxs \in [Threads -> Pointers]
    /\ thread_socks \in [Threads -> Pointers]
    /\ queued \subseteq Threads
    /\ code \in {0, 1}

(* Nothing is released twice, used after its release, or reached through a   *)
(* pointer that was never written, on any way out.                           *)
NothingMisused == misused = {}

(* When main returns, with a result or with an error, it holds nothing, and   *)
(* libzmq holds none of its requests.                                        *)
ReturnsEmptyHanded == pc = "returned" => live = {} /\ queued = {}

(* main waits for a receiver to take a request of the thread whose context   *)
(* it destroys after the loop.                                              *)
AwaitsReceiver == pc = "destroy" /\ t \in queued

(* Every run of main comes to an end, unless it stays for ever in the         *)
(* zmq_ctx_destroy that follows the loop, on a request that no receiver       *)
(* takes.  No other call blocks it for good, and on no way out does any: no   *)
(* context is destroyed before its socket is closed.                         *)
EndsOrAwaitsReceiver == <>(pc \in {"returned", "exited"}) \/ <>[]AwaitsReceiver

(* The safety half: when main calls zmq_ctx_destroy the socket of that        *)
(* context is closed, and on the way out of a failed connection, before       *)
(* anything was sent, nothing is queued for it either.                       *)
BlocksOnRequestsOnly ==
    /\ pc = "destroy" => Res("sock", t) \notin live
    /\ pc = "undo_destroy" => Destroyable(j)

-----------------------------------------------------------------------------
(* The inductive invariant: what main holds, as a function of where it is.  *)

HeldOf(wallets, keys, contexts, sockets, others) ==
    {Res("wallet", i) : i \in wallets} \cup {Res("evp_key", i) : i \in keys}
        \cup {Res("ctx", i) : i \in contexts} \cup {Res("sock", i) : i \in sockets}
        \cup {One(kind) : kind \in others}

Keys ==
    CASE pc \in {"wallet_array", "returned"}      -> {}
      [] pc \in {"wallet", "key_ctx", "keygen"}   -> 0..(t - 1)
      [] pc = "undo_wallets"                      -> j..(t - 1)
      [] pc = "undo_all_wallets"                  -> j..(num_threads - 1)
      [] pc = "destroy_wallets"                   -> t..(num_threads - 1)
      [] OTHER                                    -> Threads

Wallets == Keys \cup {i \in {t} : pc \in {"key_ctx", "keygen"}}

(* The first thread whose context is still to be given back.                *)
FirstContext ==
    CASE pc \in {"close", "destroy"}                               -> t
      [] pc \in {"undo_close", "undo_destroy"}                     -> j
      [] pc \in {"destroy_wallets", "undo_all_wallets", "returned"} -> num_threads
      [] OTHER                                                     -> 0

FirstSocket == IF pc \in {"destroy", "undo_destroy"} THEN FirstContext + 1 ELSE FirstContext

Contexts == {i \in Threads : thread_ctxs[i] = "set" /\ i >= FirstContext}
Sockets == {i \in Threads : thread_socks[i] = "set" /\ i >= FirstSocket}

Others ==
    {k \in {"thread_wallets"} : pc \notin {"wallet_array", "returned"}}
        \cup {k \in {"key_ctx"} : pc = "keygen"}
        \cup {k \in {"thread_ctxs", "thread_socks"} :
                 \/ pc \in {"open", "undo_close", "undo_destroy", "close", "destroy"}
                 \/ use_zmq /\ pc \in {"counters", "parallel"}}
        \cup {k \in {"thread_submitted"} :
                 pc \in {"parallel", "close", "destroy", "destroy_wallets"}}

Held == HeldOf(Wallets, Keys, Contexts, Sockets, Others)

(* Which loops the counters are in the middle of, and which pointers have    *)
(* been written by then.                                                     *)
CounterInv ==
    /\ pc \in {"key_ctx", "keygen", "undo_wallets", "undo_close", "undo_destroy", "destroy"}
          => t < num_threads
    /\ pc \in {"undo_wallets", "undo_destroy"} => j <= t
    /\ pc = "undo_close" => j <= t + 1

PointerInv ==
    /\ pc \in {"socket_arrays", "open", "undo_close", "undo_destroy", "close", "destroy",
               "undo_all_wallets"} => use_zmq
    /\ pc \in {"wallet_array", "wallet", "key_ctx", "keygen", "socket_arrays", "undo_wallets"}
          => \A i \in Threads : thread_ctxs[i] = "garbage" /\ thread_socks[i] = "garbage"
    /\ pc \in {"open", "undo_close", "undo_destroy"} =>
          \A i \in Threads : i < t => thread_ctxs[i] = "set" /\ thread_socks[i] = "set"
    /\ pc = "open" =>
          \A i \in Threads : i >= t => thread_ctxs[i] = "garbage" /\ thread_socks[i] = "garbage"
    /\ pc \in {"undo_close", "undo_destroy"} =>
          /\ thread_ctxs[t] # "garbage" /\ thread_socks[t] # "garbage"
          /\ \A i \in Threads : i > t => thread_ctxs[i] = "garbage" /\ thread_socks[i] = "garbage"
    /\ pc \in {"counters", "parallel", "close", "destroy"} =>
          \A i \in Threads : thread_ctxs[i] = (IF use_zmq THEN "set" ELSE "garbage")
                             /\ thread_socks[i] = thread_ctxs[i]

(* Only the threads whose context is still to be destroyed after the loop     *)
(* can have a request queued.                                                *)
QueueInv ==
    /\ pc \in {"close", "destroy"} => \A i \in queued : i >= t
    /\ pc \notin {"close", "destroy"} => queued = {}

IInv ==
    /\ TypeOK
    /\ CounterInv
    /\ PointerInv
    /\ QueueInv
    /\ pc # "exited" => live = Held
    /\ NothingMisused
=============================================================================
