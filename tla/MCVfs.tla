------------------------------- MODULE MCVfs --------------------------------
(***************************************************************************)
(* Vnodes, the buffer cache, file system transactions and the NFS server's *)
(* request cache, one component at a time: "part" names the component that *)
(* a behaviour is about. File system transactions are the module extended, *)
(* and stay in their initial state in the behaviours of the others; the    *)
(* variables of the others are None when they are not the part.            *)
(***************************************************************************)
EXTENDS FSTrans, TLC

CONSTANTS
    n1, n2, n3, vt, k1, k2, k3, t1, t2, lh_first, Nfsd, Request,
    NonIdempotent, Inet, CacheEntry, CacheSizes, MaxSend

VARIABLES
    part,
    vn_pc, then, nowait, ref, asleep, usecount, xlocked, iflag, interlock,
    vnlock, onfree, vrele_list, hashed, cached, linked, allocated, gone,
    unseen, late, revoked, past,
    buf, age, lru, hash, lock, bc_pc, op, blk, at, first, victim, why, io,
    done, intr, numoutput, current, owed, left,
    desirednfsrvcache, nfsrvlruhead, numnfsrvcache, rc_req, rc_state,
    rc_reply, rc_locked, nfs_pc, nd, rp, cv, mreq, sends, net, claimed

FSTransVars == <<fli, rwl, state, handlers, running, suspend, phase, smount,
                 wait, stack>>
VnodeVars == <<vn_pc, then, nowait, ref, asleep, usecount, xlocked, iflag,
               interlock, vnlock, onfree, vrele_list, hashed, cached,
               linked, allocated, gone, unseen, late, revoked, past>>
BufCacheVars == <<buf, age, lru, hash, lock, bc_pc, op, blk, at, first,
                  victim, why, io, done, intr, numoutput, current, owed,
                  left>>
NFSReqCacheVars == <<desirednfsrvcache, nfsrvlruhead, numnfsrvcache, rc_req,
                     rc_state, rc_reply, rc_locked, nfs_pc, nd, rp, cv,
                     mreq, sends, net, claimed>>
partsvars == <<part, FSTransVars, VnodeVars, BufCacheVars, NFSReqCacheVars>>

Three == {n1, n2, n3}
Two == {n1, n2}

VN == INSTANCE Vnode WITH
    LWP <- {vt, n1, n2}, Vrele <- vt, Waiters <- TRUE, Revoke <- TRUE,
    pc <- vn_pc
BC == INSTANCE BufCache WITH
    Lwp <- {t1, t2}, Blk <- {k1, k2}, Buf <- Three, LoWater <- 0,
    HiWater <- 1, Ops <- {"write", "flush"}, MemShort <- FALSE,
    IOErrors <- TRUE, Null <- None, Bounded <- FALSE, Rounds <- 1,
    StructShort <- FALSE, pc <- bc_pc
BCShort == INSTANCE BufCache WITH
    Lwp <- {t1, t2}, Blk <- {k1, k2}, Buf <- Three, LoWater <- 0,
    HiWater <- 1, Ops <- {"read"}, MemShort <- TRUE, IOErrors <- FALSE,
    Null <- None, Bounded <- FALSE, Rounds <- 1, StructShort <- FALSE,
    pc <- bc_pc
BCAlone == INSTANCE BufCache WITH
    Lwp <- {t1}, Blk <- {k1, k2, k3}, Buf <- Three, LoWater <- 0,
    HiWater <- 2, Ops <- {"read", "ahead", "flush"}, MemShort <- TRUE,
    IOErrors <- TRUE, Null <- None, Bounded <- FALSE, Rounds <- 1,
    StructShort <- TRUE, pc <- bc_pc
NF == INSTANCE NFSReqCache WITH
    Entry <- CacheEntry, NoEntry <- None, NoRequest <- None, pc <- nfs_pc

ASSUME PartsAssumption ==
    /\ VN!VnodeAssumption
    /\ BC!BufAssumption
    /\ BCShort!BufAssumption
    /\ BCAlone!BufAssumption
    /\ NF!NFSAssumption

FSTransOff == Init
VnodeOff ==
    /\ vn_pc = None /\ then = None /\ nowait = None /\ ref = None
    /\ asleep = None /\ usecount = None /\ xlocked = None /\ iflag = None
    /\ interlock = None /\ vnlock = None /\ onfree = None
    /\ vrele_list = None /\ hashed = None /\ cached = None
    /\ linked = None /\ allocated = None /\ gone = None /\ unseen = None
    /\ late = None /\ revoked = None /\ past = None
BufCacheOff ==
    /\ buf = None /\ age = None /\ lru = None /\ hash = None
    /\ lock = None /\ bc_pc = None /\ op = None /\ blk = None
    /\ at = None /\ first = None /\ victim = None /\ why = None
    /\ io = None /\ done = None /\ intr = None /\ numoutput = None
    /\ current = None /\ owed = None /\ left = None
NFSReqCacheOff ==
    /\ desirednfsrvcache = None /\ nfsrvlruhead = None
    /\ numnfsrvcache = None /\ rc_req = None /\ rc_state = None
    /\ rc_reply = None /\ rc_locked = None /\ nfs_pc = None /\ nd = None
    /\ rp = None /\ cv = None /\ mreq = None /\ sends = None
    /\ net = None /\ claimed = None

PartsInit ==
    \/ /\ part = "transactions" /\ Init
       /\ VnodeOff /\ BufCacheOff /\ NFSReqCacheOff
    \/ /\ part = "vnode" /\ VN!Init
       /\ FSTransOff /\ BufCacheOff /\ NFSReqCacheOff
    \/ /\ part = "buffers" /\ BC!Init
       /\ FSTransOff /\ VnodeOff /\ NFSReqCacheOff
    \/ /\ part = "buffers, memory is short" /\ BCShort!Init
       /\ FSTransOff /\ VnodeOff /\ NFSReqCacheOff
    \/ /\ part = "buffers, all is short" /\ BCAlone!Init
       /\ FSTransOff /\ VnodeOff /\ NFSReqCacheOff
    \/ /\ part = "nfs" /\ NF!Init
       /\ FSTransOff /\ VnodeOff /\ BufCacheOff


PartsNext ==
    \/ /\ part = "transactions" /\ Next
       /\ UNCHANGED <<part, VnodeVars, BufCacheVars, NFSReqCacheVars>>
    \/ /\ part = "vnode" /\ VN!Next
       /\ UNCHANGED <<part, FSTransVars, BufCacheVars, NFSReqCacheVars>>
    \/ /\ part = "buffers" /\ BC!Next
       /\ UNCHANGED <<part, FSTransVars, VnodeVars, NFSReqCacheVars>>
    \/ /\ part = "buffers, memory is short" /\ BCShort!Next
       /\ UNCHANGED <<part, FSTransVars, VnodeVars, NFSReqCacheVars>>
    \/ /\ part = "buffers, all is short" /\ BCAlone!Next
       /\ UNCHANGED <<part, FSTransVars, VnodeVars, NFSReqCacheVars>>
    \/ /\ part = "nfs" /\ NF!Next
       /\ UNCHANGED <<part, FSTransVars, VnodeVars, BufCacheVars>>

PartsSpec == PartsInit /\ [][PartsNext]_partsvars

\* vrele(), vget(), vgone() and getcleanvnode(): v_usecount is the number of
\* references, who drops the last one is alone with the vnode, and a vnode
\* that is gone is not used. What is unlinked is not kept, unless the last
\* vrele() fell between the end of a deactivation and vrelel()'s look at the
\* count; a vnode is cleaned under a holder only if it was revoked, its file
\* was deleted, or the holder's vtryget() or waiting vget() missed VI_XLOCK;
\* and the lock of a clean vnode is held only by an LWP that had looked at
\* VI_XLOCK before.
VnodeSafe ==
    /\ part = "vnode" => VN!GoneUnused
    /\ part = "vnode" => VN!CountExact
    /\ part = "vnode" => VN!LastIsAlone
    /\ part = "vnode" => VN!UnlinkedNotKept
    /\ part = "vnode" => VN!HeldIsLive
    /\ part = "vnode" => VN!CleanUnlocked

\* getblk(), brelse(), bdwrite() and buf_drain(): a buffer is on the queue
\* its flags name, a block that is in core is found there by everyone (as
\* long as pool_cache_get() does not fail), its contents are those last
\* written, what was flushed is on disk, and the memory of a buffer is
\* unused when it returns to its pool.
BufCacheSafe ==
    /\ part = "buffers" => BC!QueuesExact
    /\ part = "buffers" => BC!InCoreFound
    /\ part = "buffers, memory is short" => BCShort!InCoreFound
    /\ part = "buffers, memory is short" => BCShort!Coherent
    /\ part = "buffers, all is short" => BCAlone!Coherent
    /\ part = "buffers" => BC!FlushedIsOnDisk
    /\ part = "buffers" => BC!PooledUnused
    /\ part = "buffers, all is short" => BCAlone!PooledUnused

\* nfsrv_getcache() and nfsrv_updatecache(). A locked entry is held by one
\* nfsd, each entry is counted, one that is on the list and can be found is
\* for a request that no other is for, the reply that an nfsd is about to
\* send is one to its own request, and an nfsd that must reuse an entry has
\* one to take if there are entries for all nfsds. And a request from an
\* AF_INET address that is not idempotent is not given to an nfsd to do
\* while another does it, or after it has been done, as long as its entry is
\* in the cache: "if in progress, return DROP request".
NFSCacheSafe ==
    /\ part = "nfs" => NF!CacheInv
    /\ [][part = "nfs" => NF!CacheInv']_partsvars
    /\ [][part = "nfs" => [NF!TakesUpNew]_(NF!vars)]_partsvars

\* n1, n2 and n3 stand for LWPs or for buffers, t1 and t2 for LWPs, k1 and k2
\* for blocks or file systems.
Symmetry == Permutations(Three) \cup Permutations(LWP) \cup Permutations(Mount)

=============================================================================
