----------------------------- MODULE NFSReqCache -----------------------------
(***************************************************************************)
(* The NFS server's cache of recent requests (sys/nfs/nfs_srvcache.c) and  *)
(* the server threads that use it (nfssvc_nfsd in nfs_syscalls.c).         *)
(*                                                                         *)
(* Clients repeat a request that is not answered, and the network may lose *)
(* or reorder what they send, so that copies of one request can be in the  *)
(* hands of several nfsds at once.  The cache is to keep a request that is *)
(* not idempotent from being done twice.                                   *)
(*                                                                         *)
(* A request stands for a client's address, its transaction id and the     *)
(* procedure.  A reply is known by the request that it answers.  Each      *)
(* action is a section under nfsrv_reqcache_lock, or what an nfsd does     *)
(* between two of them to the entry that it has locked (RC_G_LOCKED).      *)
(* Write gathering and the authorisation upcall are left out.              *)
(*                                                                         *)
(* A definition marked "Slip" is the one that follows it with a plausible  *)
(* mistake: the properties are shown to reject it.                         *)
(***************************************************************************)
EXTENDS Naturals, Sequences, FiniteSets, SequencesExt

CONSTANTS
    Nfsd,          \* the server threads
    Request,
    NonIdempotent, \* the requests of such procedures
    Inet,          \* the requests from AF_INET addresses
    Entry,         \* the memory of nfs_reqcache_pool
    NoEntry,
    NoRequest,
    CacheSizes,    \* the values that desirednfsrvcache may have
    MaxSend        \* bound: how often clients send a request

NFSAssumption ==
    /\ NonIdempotent \subseteq Request
    /\ Inet \subseteq Request
    /\ NoEntry \notin Entry
    /\ NoRequest \notin Request
    /\ MaxSend \in Nat
    /\ IsFiniteSet(Nfsd) /\ IsFiniteSet(Entry)
    /\ CacheSizes \subseteq 0..Cardinality(Entry)

VARIABLES
    desirednfsrvcache,    \* how many entries there may be
    nfsrvlruhead,  \* the entries, in the order of their use
    numnfsrvcache,
    rc_req,        \* the request an entry is for
    rc_state,
    rc_reply,      \* RC_REPSTATUS or RC_REPMBUF: the reply that is kept
    rc_locked,     \* RC_G_LOCKED
    pc,            \* what each nfsd does
    nd,            \* its request
    rp,            \* its entry
    cv,            \* the entry whose rc_cv it sleeps on, or NoEntry
    mreq,          \* the reply it sends
    sends,         \* how often clients have sent a request
    net,           \* the copies of it on their way
    claimed        \* history: the requests that have been given to an nfsd to
                   \* do, since then neither failed nor fallen out of the cache

entries == <<nfsrvlruhead, numnfsrvcache, rc_req, rc_state, rc_reply, rc_locked>>
clients == <<sends, net>>
vars == <<desirednfsrvcache, nfsrvlruhead, numnfsrvcache, rc_req, rc_state,
          rc_reply, rc_locked, pc, nd, rp, cv, mreq, sends, net, claimed>>

-----------------------------------------------------------------------------
Cached == ToSet(nfsrvlruhead)

\* What nfsrv_lookupcache() finds: NETFAMILY() is AF_INET or AF_ISO, and
\* netaddr_match() finds no other addresses than AF_INET.
Found(r) == {e \in Cached : rc_req[e] = r /\ r \in Inet}

\* An nfsd finds an entry that is locked, and sleeps on its rc_cv ...
Sleep(d, e, next) ==
    /\ rc_locked[e]
    /\ cv' = [cv EXCEPT ![d] = e]
    /\ pc' = [pc EXCEPT ![d] = next]
    /\ UNCHANGED <<entries, clients, nd, rp, mreq, claimed>>

\* ... or locks it.
Lock(d, e, next) ==
    /\ ~rc_locked[e]
    /\ rc_locked' = [rc_locked EXCEPT ![e] = TRUE]
    /\ pc' = [pc EXCEPT ![d] = next]
    /\ rp' = [rp EXCEPT ![d] = e]
    /\ UNCHANGED cv

\* cv_broadcast(&rp->rc_cv)
Broadcast(e) == cv' = [d \in Nfsd |-> IF cv[d] = e THEN NoEntry ELSE cv[d]]

-----------------------------------------------------------------------------
\* A client sends a request, or sends it again; the network loses a copy.
Send(r) ==
    /\ sends < MaxSend
    /\ sends' = sends + 1
    /\ net' = [net EXCEPT ![r] = @ + 1]
    /\ UNCHANGED <<entries, pc, nd, rp, cv, mreq, claimed>>

Lose(r) ==
    /\ net[r] > 0
    /\ net' = [net EXCEPT ![r] = @ - 1]
    /\ UNCHANGED <<entries, pc, nd, rp, cv, mreq, sends, claimed>>

\* nfsrv_dorec()
Receive(d, r) ==
    /\ pc[d] = "Idle" /\ net[r] > 0
    /\ net' = [net EXCEPT ![r] = @ - 1]
    /\ pc' = [pc EXCEPT ![d] = "Lookup"]
    /\ nd' = [nd EXCEPT ![d] = r]
    /\ UNCHANGED <<entries, rp, cv, mreq, sends, claimed>>

-----------------------------------------------------------------------------
\* nfsrv_getcache(): the entry is there.
LookupFound(d) ==
    /\ pc[d] = "Lookup"
    /\ \E e \in Found(nd[d]) :
          \/ Sleep(d, e, "Lookup")
          \/ /\ Lock(d, e, "Found")
             /\ UNCHANGED <<nfsrvlruhead, numnfsrvcache, rc_req, rc_state,
                            rc_reply, clients, nd, mreq, claimed>>

\* The new entry, on no list yet.
Fill(d, e) ==
    /\ rc_req' = [rc_req EXCEPT ![e] = nd[d]]
    /\ rc_state' = [rc_state EXCEPT ![e] = "INPROG"]
    /\ rc_reply' = [rc_reply EXCEPT ![e] = NoRequest]

\* It is not, and there may be more entries.
LookupNew(d) ==
    /\ pc[d] = "Lookup"
    /\ Found(nd[d]) = {}
    /\ numnfsrvcache < desirednfsrvcache
    /\ numnfsrvcache' = numnfsrvcache + 1
    /\ \E e \in {x \in Entry : ~rc_locked[x] /\ x \notin Cached} :
          Lock(d, e, "Duplicate") /\ Fill(d, e)
    /\ UNCHANGED <<nfsrvlruhead, clients, nd, mreq, claimed>>

\* It is not, and the cache is full.
Full(d) ==
    \/ pc[d] = "Lookup" /\ Found(nd[d]) = {} /\ numnfsrvcache >= desirednfsrvcache
    \/ pc[d] = "Evict"

\* The entry used least recently is taken, once it is not in use.
Evict(d) ==
    /\ Full(d)
    /\ nfsrvlruhead # <<>>
    /\ LET e == Head(nfsrvlruhead)
       IN  \/ Sleep(d, e, "Evict")
           \/ /\ Lock(d, e, "Duplicate")
              /\ Fill(d, e)
              /\ nfsrvlruhead' = Tail(nfsrvlruhead)
              /\ claimed' = claimed \ {rc_req[e]}
              /\ UNCHANGED <<numnfsrvcache, clients, nd, mreq>>

\* Every entry is in the hands of an nfsd that is to insert it: the code goes
\* through TAILQ_FIRST, which is NULL, and the kernel faults.
EvictNull(d) ==
    /\ Full(d)
    /\ nfsrvlruhead = <<>>
    /\ pc' = [pc EXCEPT ![d] = "Fault"]
    /\ UNCHANGED <<entries, clients, nd, rp, cv, mreq, claimed>>

\* Slip: only the first lookup counts.
InsertUnlooked(d) ==
    /\ pc[d] = "Duplicate"
    /\ nfsrvlruhead' = Append(nfsrvlruhead, rp[d])
    /\ rc_locked' = [rc_locked EXCEPT ![rp[d]] = FALSE]
    /\ pc' = [pc EXCEPT ![d] = "Do"]
    /\ Broadcast(rp[d])
    /\ claimed' = claimed \cup {nd[d]}
    /\ UNCHANGED <<numnfsrvcache, rc_req, rc_state, rc_reply, clients, nd, rp, mreq>>

\* The lock was left in between: no other nfsd has made an entry ...
Insert(d) ==
    /\ pc[d] = "Duplicate"
    /\ Found(nd[d]) = {}
    /\ nfsrvlruhead' = Append(nfsrvlruhead, rp[d])
    /\ rc_locked' = [rc_locked EXCEPT ![rp[d]] = FALSE]
    /\ pc' = [pc EXCEPT ![d] = "Do"]
    /\ Broadcast(rp[d])
    /\ claimed' = claimed \cup {nd[d]}
    /\ UNCHANGED <<numnfsrvcache, rc_req, rc_state, rc_reply, clients, nd, rp, mreq>>

\* ... or it has.
InsertDuplicate(d) ==
    /\ pc[d] = "Duplicate"
    /\ \E e \in Found(nd[d]) :
          \/ Sleep(d, e, "Duplicate")
          \/ /\ ~rc_locked[e]
             /\ numnfsrvcache' = numnfsrvcache - 1
             /\ rc_locked' = [rc_locked EXCEPT ![rp[d]] = FALSE, ![e] = TRUE]
             /\ rp' = [rp EXCEPT ![d] = e]
             /\ pc' = [pc EXCEPT ![d] = "Found"]
             /\ UNCHANGED <<nfsrvlruhead, rc_req, rc_state, rc_reply, clients,
                            nd, cv, mreq, claimed>>

\* TAILQ_NEXT(rp, rc_lru), read without the mutex ("racy but ok"): the entry is
\* the last, or has become so while another nfsd moves the one after it.
NothingAfter(d) ==
    LET n == Len(nfsrvlruhead)
    IN  \/ nfsrvlruhead[n] = rp[d]
        \/ /\ n > 1 /\ nfsrvlruhead[n - 1] = rp[d]
           /\ \E x \in Nfsd : pc[x] = "Move" /\ rp[x] = nfsrvlruhead[n]

Look(d) ==
    /\ pc[d] = "Found"
    /\ \/ NothingAfter(d) /\ pc' = [pc EXCEPT ![d] = "Answer"]
       \/ /\ nfsrvlruhead[Len(nfsrvlruhead)] # rp[d]
          /\ pc' = [pc EXCEPT ![d] = "Move"]
    /\ UNCHANGED <<entries, clients, nd, rp, cv, mreq, claimed>>

\* If not at end of LRU chain, move it there
ToTail(d) ==
    /\ pc[d] = "Move"
    /\ \E i \in DOMAIN nfsrvlruhead :
          /\ nfsrvlruhead[i] = rp[d]
          /\ nfsrvlruhead' = Append(RemoveAt(nfsrvlruhead, i), rp[d])
    /\ pc' = [pc EXCEPT ![d] = "Answer"]
    /\ UNCHANGED <<numnfsrvcache, rc_req, rc_state, rc_reply, rc_locked, clients,
                   nd, rp, cv, mreq, claimed>>

\* Slip: without a reply the request is done, even if it is in progress.
AnswerAlways(d) ==
    /\ pc[d] = "Answer"
    /\ \/ /\ rc_reply[rp[d]] # NoRequest
          /\ mreq' = [mreq EXCEPT ![d] = rc_reply[rp[d]]]
          /\ pc' = [pc EXCEPT ![d] = "UnlockReply"]
          /\ UNCHANGED <<rc_state, claimed>>
       \/ /\ rc_reply[rp[d]] = NoRequest
          /\ rc_state' = [rc_state EXCEPT ![rp[d]] = "INPROG"]
          /\ pc' = [pc EXCEPT ![d] = "UnlockDo"]
          /\ claimed' = claimed \cup {nd[d]}
          /\ UNCHANGED mreq
    /\ UNCHANGED <<nfsrvlruhead, numnfsrvcache, rc_req, rc_reply, rc_locked,
                   clients, nd, rp, cv>>

\* RC_DROPIT, RC_REPLY or RC_DOIT
Answer(d) ==
    /\ pc[d] = "Answer"
    /\ \/ /\ rc_state[rp[d]] = "INPROG"
          /\ pc' = [pc EXCEPT ![d] = "UnlockDrop"]
          /\ UNCHANGED <<rc_state, mreq, claimed>>
       \/ /\ rc_state[rp[d]] = "DONE" /\ rc_reply[rp[d]] # NoRequest
          /\ mreq' = [mreq EXCEPT ![d] = rc_reply[rp[d]]]
          /\ pc' = [pc EXCEPT ![d] = "UnlockReply"]
          /\ UNCHANGED <<rc_state, claimed>>
       \/ /\ rc_state[rp[d]] = "DONE" /\ rc_reply[rp[d]] = NoRequest
          /\ rc_state' = [rc_state EXCEPT ![rp[d]] = "INPROG"]
          /\ pc' = [pc EXCEPT ![d] = "UnlockDo"]
          /\ claimed' = claimed \cup {nd[d]}
          /\ UNCHANGED mreq
    /\ UNCHANGED <<nfsrvlruhead, numnfsrvcache, rc_req, rc_reply, rc_locked,
                   clients, nd, rp, cv>>

\* nfsrv_unlockcache()
Unlock(d, from, to) ==
    /\ pc[d] = from
    /\ rc_locked' = [rc_locked EXCEPT ![rp[d]] = FALSE]
    /\ pc' = [pc EXCEPT ![d] = to]
    /\ Broadcast(rp[d])
    /\ UNCHANGED <<nfsrvlruhead, numnfsrvcache, rc_req, rc_state, rc_reply,
                   clients, nd, rp, mreq, claimed>>

-----------------------------------------------------------------------------
\* The procedure is called; it has a reply or it is an error.
Do(d) ==
    /\ pc[d] = "Do"
    /\ \E m \in {nd[d], NoRequest} : mreq' = [mreq EXCEPT ![d] = m]
    /\ pc' = [pc EXCEPT ![d] = "Update"]
    /\ UNCHANGED <<entries, clients, nd, rp, cv, claimed>>

\* nfsrv_updatecache()
UpdateFound(d) ==
    /\ pc[d] = "Update"
    /\ \E e \in Found(nd[d]) :
          \/ Sleep(d, e, "Update")
          \/ /\ Lock(d, e, "Save")
             /\ UNCHANGED <<nfsrvlruhead, numnfsrvcache, rc_req, rc_state,
                            rc_reply, clients, nd, mreq, claimed>>

UpdateNone(d) ==
    /\ pc[d] = "Update"
    /\ Found(nd[d]) = {}
    /\ pc' = [pc EXCEPT ![d] = "Reply"]
    /\ UNCHANGED <<entries, clients, nd, rp, cv, mreq, claimed>>

Save(d) ==
    /\ pc[d] = "Save"
    /\ rc_state' = [rc_state EXCEPT ![rp[d]] = "DONE"]
    /\ rc_reply' = [rc_reply EXCEPT ![rp[d]] =
                       IF nd[d] \in NonIdempotent THEN mreq[d] ELSE NoRequest]
    /\ claimed' = IF mreq[d] = NoRequest \/ nd[d] \notin NonIdempotent
                  THEN claimed \ {nd[d]} ELSE claimed
    /\ pc' = [pc EXCEPT ![d] = "UnlockReply"]
    /\ UNCHANGED <<nfsrvlruhead, numnfsrvcache, rc_req, rc_locked, clients, nd,
                   rp, cv, mreq>>

\* The reply is sent, or the request dropped.
Reply(d) ==
    /\ pc[d] \in {"Reply", "Drop"}
    /\ pc' = [pc EXCEPT ![d] = "Idle"]
    /\ nd' = [nd EXCEPT ![d] = NoRequest]
    /\ rp' = [rp EXCEPT ![d] = NoEntry]
    /\ mreq' = [mreq EXCEPT ![d] = NoRequest]
    /\ UNCHANGED <<entries, clients, cv, claimed>>

\* nfsrv_cleancache(), when the last nfsd has gone; others are started later.
CleanCache ==
    /\ \A d \in Nfsd : pc[d] = "Idle"
    /\ nfsrvlruhead # <<>>
    /\ nfsrvlruhead' = <<>>
    /\ numnfsrvcache' = numnfsrvcache - Len(nfsrvlruhead)
    /\ claimed' = {}
    /\ UNCHANGED <<rc_req, rc_state, rc_reply, rc_locked, pc, nd, rp, cv, mreq,
                   clients>>

-----------------------------------------------------------------------------
Init ==
    /\ desirednfsrvcache \in CacheSizes
    /\ nfsrvlruhead = <<>>
    /\ numnfsrvcache = 0
    /\ rc_req = [e \in Entry |-> NoRequest]
    /\ rc_state = [e \in Entry |-> "UNUSED"]
    /\ rc_reply = [e \in Entry |-> NoRequest]
    /\ rc_locked = [e \in Entry |-> FALSE]
    /\ pc = [d \in Nfsd |-> "Idle"]
    /\ nd = [d \in Nfsd |-> NoRequest]
    /\ rp = [d \in Nfsd |-> NoEntry]
    /\ cv = [d \in Nfsd |-> NoEntry]
    /\ mreq = [d \in Nfsd |-> NoRequest]
    /\ sends = 0
    /\ net = [r \in Request |-> 0]
    /\ claimed = {}

Step(d) ==
    /\ cv[d] = NoEntry
    /\ \/ LookupFound(d) \/ LookupNew(d) \/ Evict(d) \/ EvictNull(d)
       \/ Insert(d) \/ InsertDuplicate(d) \/ Look(d) \/ ToTail(d) \/ Answer(d)
       \/ Unlock(d, "UnlockDrop", "Drop") \/ Unlock(d, "UnlockReply", "Reply")
       \/ Unlock(d, "UnlockDo", "Do")
       \/ Do(d) \/ UpdateFound(d) \/ UpdateNone(d) \/ Save(d) \/ Reply(d)

\* A kernel that has faulted does nothing more.
Next ==
    /\ \A d \in Nfsd : pc[d] # "Fault"
    /\ \/ \E r \in Request : Send(r) \/ Lose(r) \/ \E d \in Nfsd : Receive(d, r)
       \/ \E d \in Nfsd : Step(d)
       \/ CleanCache
    /\ UNCHANGED desirednfsrvcache

Spec == Init /\ [][Next]_vars

-----------------------------------------------------------------------------
Holding == {"Duplicate", "Found", "Move", "Answer", "UnlockDrop",
            "UnlockReply", "UnlockDo", "Save"}

\* There are entries for all nfsds: the code does not see to that.
Enough == Cardinality(Nfsd) <= desirednfsrvcache

(***************************************************************************)
(* The entries.  A locked one is held by one nfsd; each is counted; one    *)
(* that is on the list is for a request that no other is for; and the      *)
(* reply that an nfsd is about to send, from the cache or not, is one to   *)
(* its own request, although entries are read and written without the      *)
(* mutex and used again for other requests.  Whoever is to reuse the entry *)
(* at the head of the list finds one, if there are entries for all nfsds:  *)
(* the code does not look whether TAILQ_FIRST is NULL.                     *)
(***************************************************************************)
CacheInv ==
    /\ \A e \in Entry :
          Cardinality({d \in Nfsd : rp[d] = e /\ pc[d] \in Holding})
              = IF rc_locked[e] THEN 1 ELSE 0
    /\ numnfsrvcache = Cardinality(Cached \cup {e \in Entry : rc_locked[e]})
    /\ numnfsrvcache <= desirednfsrvcache
    /\ Len(nfsrvlruhead) = Cardinality(Cached)
    /\ \A e, f \in Cached : rc_req[e] = rc_req[f] /\ rc_req[e] \in Inet => e = f
    /\ \A d \in Nfsd : mreq[d] \in {nd[d], NoRequest}
    /\ Enough => \A d \in Nfsd : pc[d] # "Fault"

\* Whoever goes on to do a request that is not idempotent, and that the cache
\* can find, is the first.
TakesUpNew ==
    \A d \in Nfsd :
        /\ nd[d] \in NonIdempotent \cap Inet
        /\ pc[d] \in {"Duplicate", "Answer"}
        /\ pc'[d] \in {"Do", "UnlockDo"}
        => nd[d] \notin claimed

(***************************************************************************)
(* A request that is not idempotent, from an AF_INET address, is not given *)
(* to an nfsd to do while another does it, or after it has been done, as   *)
(* long as its entry is in the cache: "if in progress, return DROP request *)
(* [...] if completed a longer time ago return REPLY if the reply was      *)
(* cached".                                                                *)
(***************************************************************************)
NotDoneTwice == [][TakesUpNew]_vars

(***************************************************************************)
(* What is inductive.  An nfsd that holds an entry holds it alone, and it  *)
(* is for its request; it is on the list unless the nfsd is to put it      *)
(* there.  An entry is on the list once.  The entries are those on the     *)
(* list and those that are to be inserted; if there are enough for all     *)
(* nfsds, enough are on the list for all who have been told to take one    *)
(* from it, although the number of entries may have gone down since.  A    *)
(* request that has been given out is in the cache, in progress or with a  *)
(* reply.                                                                  *)
(***************************************************************************)
TypeOK ==
    /\ desirednfsrvcache \in CacheSizes
    /\ nfsrvlruhead \in Seq(Entry)
    /\ numnfsrvcache \in Nat
    /\ rc_req \in [Entry -> Request \cup {NoRequest}]
    /\ rc_state \in [Entry -> {"UNUSED", "INPROG", "DONE"}]
    /\ rc_reply \in [Entry -> Request \cup {NoRequest}]
    /\ rc_locked \in [Entry -> BOOLEAN]
    /\ pc \in [Nfsd -> Holding \cup {"Idle", "Lookup", "Evict", "Do", "Update",
                                     "Reply", "Drop", "Fault"}]
    /\ nd \in [Nfsd -> Request \cup {NoRequest}]
    /\ rp \in [Nfsd -> Entry \cup {NoEntry}]
    /\ cv \in [Nfsd -> Entry \cup {NoEntry}]
    /\ mreq \in [Nfsd -> Request \cup {NoRequest}]
    /\ sends \in Nat /\ net \in [Request -> Nat]
    /\ claimed \subseteq Request

Inserting == {d \in Nfsd : pc[d] = "Duplicate"}
Evicting == {d \in Nfsd : pc[d] = "Evict"}

HeldInv ==
    \A d \in Nfsd :
        /\ pc[d] # "Idle" => nd[d] \in Request
        /\ pc[d] \in Holding => /\ rp[d] \in Entry
                                /\ rc_locked[rp[d]]
                                /\ rc_req[rp[d]] = nd[d]
                                /\ rp[d] \in Cached <=> pc[d] # "Duplicate"
        /\ pc[d] = "Duplicate" => /\ rc_state[rp[d]] = "INPROG"
                                  /\ rc_reply[rp[d]] = NoRequest

LockInv ==
    /\ \A d, x \in Nfsd : pc[d] \in Holding /\ pc[x] \in Holding /\ rp[d] = rp[x]
                          => d = x
    /\ \A e \in Entry : rc_locked[e] => \E d \in Nfsd : pc[d] \in Holding /\ rp[d] = e

ListInv ==
    /\ \A i, j \in DOMAIN nfsrvlruhead : nfsrvlruhead[i] = nfsrvlruhead[j] => i = j
    /\ \A e, f \in Cached : rc_req[e] = rc_req[f] /\ rc_req[e] \in Inet => e = f

ReplyInv ==
    /\ \A d \in Nfsd : mreq[d] \in {nd[d], NoRequest}
    /\ \A d \in Nfsd : pc[d] = "Idle" => mreq[d] = NoRequest
    /\ \A e \in Cached : rc_reply[e] \in {rc_req[e], NoRequest}

CountInv ==
    /\ numnfsrvcache = Len(nfsrvlruhead) + Cardinality(Inserting)
    /\ numnfsrvcache <= desirednfsrvcache
    /\ Enough => Cardinality(Evicting) <= Len(nfsrvlruhead)

FaultInv == Enough => \A d \in Nfsd : pc[d] # "Fault"

ClaimInv ==
    \A r \in claimed \cap NonIdempotent \cap Inet :
        \E e \in Cached : /\ rc_req[e] = r
                          /\ rc_state[e] = "INPROG" \/ rc_reply[e] # NoRequest

NFSInv == /\ TypeOK /\ HeldInv /\ LockInv /\ ListInv /\ ReplyInv /\ CountInv
          /\ FaultInv /\ ClaimInv
=============================================================================
