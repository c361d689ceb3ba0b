-------------------------------- MODULE Vnode --------------------------------
(***************************************************************************)
(* The life of a vnode (sys/kern/vfs_subr.c): how references are taken and *)
(* dropped, and how the vnode is deactivated, cleaned out, put on the free *)
(* list, recycled and destroyed.                                           *)
(*                                                                         *)
(* There is one vnode, of a file that can be found through the hash of the *)
(* file system, with vget(), and through the name cache, with vtryget().   *)
(* Whoever holds a reference may lock the vnode, unlink the file, release  *)
(* the vnode or revoke it.  VOP_INACTIVE() and VOP_RECLAIM() are those of  *)
(* UFS.  v_usecount is kept as a number and the bit VC_XLOCK.  Layered     *)
(* file systems, special files and v_holdcnt are left out.                 *)
(*                                                                         *)
(* A definition marked "Slip" is the one that follows it with a plausible  *)
(* mistake: the properties are shown to reject it.                         *)
(***************************************************************************)
EXTENDS Naturals, FiniteSets

CONSTANTS
    LWP,
    Vrele,       \* the LWP of vrele_thread()
    None,
    Waiters,     \* TRUE: some calls of vget() are without LK_NOWAIT
    Revoke       \* TRUE: holders may have the vnode cleaned out under others

VnodeAssumption ==
    /\ Vrele \in LWP /\ None \notin LWP
    /\ Waiters \in BOOLEAN /\ Revoke \in BOOLEAN

VARIABLES
    pc,         \* where each LWP is
    then,       \* where it goes on after VOP_INACTIVE() or vclean()
    nowait,     \* LK_NOWAIT of its vget()
    ref,        \* the LWPs that have a reference, counted in v_usecount
    asleep,     \* the LWPs asleep on v_cv
    usecount, xlocked,    \* v_usecount & VC_MASK, and its bit VC_XLOCK
    iflag, interlock,
    vnlock,     \* the owner of the vnode's lock
    onfree,     \* on one of the free lists
    vrele_list, \* on the list of vrele_thread(), with a reference
    hashed,     \* in the hash of the file system
    cached,     \* in the name cache
    linked,     \* the file has a name on the disk
    allocated,  \* the inode is in use (i_mode # 0)
    gone,       \* the vnode was destroyed or used for another file
    \* History, for the properties
    unseen,     \* a reference was dropped where vrelel() does not notice it
    late,       \* the LWPs that got their reference when vclean() had begun
    revoked,    \* a holder had the vnode cleaned out
    past        \* the LWPs in vn_lock() that had looked at VI_XLOCK before

lwpvars == <<pc, then, nowait, ref, asleep>>
countvars == <<usecount, xlocked>>
filevars == <<hashed, cached, linked, allocated>>
history == <<unseen, late, revoked, past>>
vars == <<lwpvars, countvars, iflag, interlock, vnlock, onfree, vrele_list,
          filevars, gone, history>>

Goto(t, p) == pc' = [pc EXCEPT ![t] = p]

\* cv_broadcast(&vp->v_cv)
Broadcast == asleep' = {}

Has(t) == interlock = t
Enter(t) == interlock = None /\ interlock' = t
Exit(t) == interlock' = None

-----------------------------------------------------------------------------
(* vget(), with the interlock, from a lookup in the hash or the name cache *)

Lookup(t) ==
    /\ pc[t] = "idle" /\ t \notin ref /\ t # Vrele
    /\ hashed
    /\ Enter(t)
    /\ \E nw \in (IF Waiters THEN BOOLEAN ELSE {TRUE}) :
          nowait' = [nowait EXCEPT ![t] = nw]
    /\ Goto(t, "get")
    /\ UNCHANGED <<then, ref, asleep, countvars, iflag, vnlock, onfree,
                   vrele_list, filevars, gone>>

GetSlip(t) ==
    /\ pc[t] = "get" /\ Has(t)
    /\ usecount' = usecount + 1
    /\ onfree' = IF usecount = 0 THEN FALSE ELSE onfree
    /\ ref' = ref \cup {t}
    /\ Goto(t, IF "FREEING" \in iflag
               THEN IF nowait[t] THEN "rel" ELSE "getx"
               ELSE IF "INACTNOW" \in iflag
                    THEN IF nowait[t] THEN "rel" ELSE "geti"
                    ELSE "got")
    /\ UNCHANGED <<then, nowait, asleep, xlocked, iflag, interlock, vnlock,
                   vrele_list, filevars, gone>>

Get(t) ==
    /\ pc[t] = "get" /\ Has(t)
    /\ usecount' = usecount + 1
    /\ onfree' = IF usecount = 0 THEN FALSE ELSE onfree
    /\ ref' = ref \cup {t}
    /\ Goto(t, IF iflag \cap {"XLOCK", "FREEING"} # {}
               THEN IF nowait[t] THEN "rel" ELSE "getx"
               ELSE IF "INACTNOW" \in iflag
                    THEN IF nowait[t] THEN "rel" ELSE "geti"
                    ELSE "got")
    /\ UNCHANGED <<then, nowait, asleep, xlocked, iflag, interlock, vnlock,
                   vrele_list, filevars, gone>>

\* vwait(), entered with the interlock
Awaited(t) ==
    CASE pc[t] = "getx" -> {"XLOCK", "FREEING"}
      [] pc[t] = "geti" -> {"INACTNOW"}
      [] pc[t] = "cwait" -> {"XLOCK"}

Wait(t) ==
    /\ pc[t] \in {"getx", "geti", "cwait"} /\ Has(t)
    /\ iflag \cap Awaited(t) # {}
    /\ asleep' = asleep \cup {t}
    /\ Exit(t)
    /\ UNCHANGED <<pc, then, nowait, ref, countvars, iflag, vnlock, onfree,
                   vrele_list, filevars, gone>>

Woken(t) ==
    /\ pc[t] \in {"getx", "geti", "cwait"} /\ t \notin asleep /\ ~Has(t)
    /\ Enter(t)
    /\ UNCHANGED <<lwpvars, countvars, iflag, vnlock, onfree, vrele_list,
                   filevars, gone>>

Waited(t) ==
    /\ pc[t] \in {"getx", "geti", "cwait"} /\ Has(t)
    /\ iflag \cap Awaited(t) = {}
    /\ Goto(t, CASE pc[t] = "getx" -> "rel"
                 [] pc[t] = "geti" -> IF "CLEAN" \in iflag THEN "rel"
                                      ELSE "got"
                 [] pc[t] = "cwait" -> then[t])
    /\ UNCHANGED <<then, nowait, ref, asleep, countvars, iflag, interlock,
                   vnlock, onfree, vrele_list, filevars, gone>>

\* vget() returns 0.
Got(t) ==
    /\ pc[t] = "got" /\ Has(t)
    /\ Exit(t)
    /\ Goto(t, "idle")
    /\ UNCHANGED <<then, nowait, ref, asleep, countvars, iflag, vnlock,
                   onfree, vrele_list, filevars, gone>>

\* vtryget() from the name cache, with nc_lock: the flags, then the count.
TryFlags(t) ==
    /\ pc[t] = "idle" /\ t \notin ref /\ t # Vrele
    /\ cached
    /\ iflag \cap {"XLOCK", "FREEING"} = {}
    /\ Goto(t, "try")
    /\ UNCHANGED <<then, nowait, ref, asleep, countvars, iflag, interlock,
                   vnlock, onfree, vrele_list, filevars, gone>>

\* When it fails, cache_lookup() goes on with vget(LK_NOWAIT) as Lookup.
TryCount(t) ==
    /\ pc[t] = "try"
    /\ IF usecount = 0 \/ xlocked THEN UNCHANGED <<usecount, ref>>
       ELSE usecount' = usecount + 1 /\ ref' = ref \cup {t}
    /\ Goto(t, "idle")
    /\ UNCHANGED <<then, nowait, asleep, xlocked, iflag, interlock, vnlock,
                   onfree, vrele_list, filevars, gone>>

\* A holder passes a further reference on.
Vref(t, u) ==
    /\ pc[t] = "idle" /\ t \in ref /\ pc[u] = "idle" /\ u \notin ref
    /\ u # Vrele
    /\ usecount' = usecount + 1
    /\ ref' = ref \cup {u}
    /\ UNCHANGED <<pc, then, nowait, asleep, xlocked, iflag, interlock,
                   vnlock, onfree, vrele_list, filevars, gone>>

-----------------------------------------------------------------------------
(* What a holder does with the vnode *)

Holds(t) == pc[t] = "idle" /\ t \in ref

\* The operations of a vnode that was cleaned out are those of deadfs, which
\* neither take nor drop the lock.
Dead == "CLEAN" \in iflag

\* vn_lock(): the look at VI_XLOCK, then VOP_LOCK()
LockFlag(t) ==
    /\ Holds(t) /\ vnlock # t
    /\ "XLOCK" \notin iflag /\ ~Dead
    /\ Goto(t, "lock")
    /\ UNCHANGED <<then, nowait, ref, asleep, countvars, iflag, interlock,
                   vnlock, onfree, vrele_list, filevars, gone>>

\* rw_enter() of the lock, by a holder or by vrele_thread()
LockTake(t) ==
    /\ pc[t] \in {"lock", "vtake"} /\ vnlock = None
    /\ vnlock' = t
    /\ Goto(t, IF pc[t] = "lock" THEN "idle" ELSE "vlocked")
    /\ UNCHANGED <<then, nowait, ref, asleep, countvars, iflag, interlock,
                   onfree, vrele_list, filevars, gone>>

\* VOP_UNLOCK()
Unlocked == IF Dead THEN vnlock ELSE None

Unlock(t) ==
    /\ Holds(t) /\ vnlock = t /\ ~Dead
    /\ vnlock' = None
    /\ UNCHANGED <<lwpvars, countvars, iflag, interlock, onfree, vrele_list,
                   filevars, gone>>

\* The name is looked up to be removed, which takes it out of the name cache,
\* and VOP_REMOVE() is called with the lock.
Unlink(t) ==
    /\ Holds(t) /\ vnlock = t /\ ~Dead
    /\ \A u \in LWP : pc[u] # "try"
    /\ cached' = FALSE
    /\ linked' = FALSE
    /\ UNCHANGED <<lwpvars, countvars, iflag, interlock, vnlock, onfree,
                   vrele_list, hashed, allocated, gone>>

-----------------------------------------------------------------------------
(* vrele() and vrelel() *)

\* if ((vp->v_iflag & VI_INACTNOW) == 0 && vtryrele(vp)): the flag ...
ReleFlag(t) ==
    /\ Holds(t) /\ (vnlock # t \/ Dead)
    /\ Goto(t, IF "INACTNOW" \in iflag THEN "slow" ELSE "fast")
    /\ UNCHANGED <<then, nowait, ref, asleep, countvars, iflag, interlock,
                   vnlock, onfree, vrele_list, filevars, gone>>

\* ... and vtryrele()
ReleFast(t) ==
    /\ pc[t] = "fast"
    /\ IF usecount > 1
       THEN /\ usecount' = usecount - 1
            /\ ref' = ref \ {t}
            /\ Goto(t, "idle")
       ELSE /\ Goto(t, "slow")
            /\ UNCHANGED <<usecount, ref>>
    /\ UNCHANGED <<then, nowait, asleep, xlocked, iflag, interlock, vnlock,
                   onfree, vrele_list, filevars, gone>>

ReleSlow(t) ==
    /\ pc[t] = "slow"
    /\ Enter(t)
    /\ Goto(t, "rel")
    /\ UNCHANGED <<then, nowait, ref, asleep, countvars, iflag, vnlock,
                   onfree, vrele_list, filevars, gone>>

RelSlip(t) ==
    /\ pc[t] = "rel" /\ Has(t)
    /\ IF usecount > 1
       THEN /\ usecount' = usecount - 1
            /\ ref' = ref \ {t}
            /\ Exit(t)
            /\ Goto(t, "idle")
       ELSE /\ Goto(t, "last")
            /\ UNCHANGED <<usecount, ref, interlock>>
    /\ UNCHANGED <<then, nowait, asleep, xlocked, iflag, vnlock, onfree,
                   vrele_list, filevars, gone>>

\* The start of vrelel(): vtryrele()
Rel(t) ==
    /\ pc[t] = "rel" /\ Has(t)
    /\ IF usecount > 1
       THEN /\ usecount' = usecount - 1
            /\ ref' = ref \ {t}
            /\ iflag' = iflag \cup {"INACTREDO"}
            /\ Exit(t)
            /\ Goto(t, "idle")
       ELSE /\ Goto(t, "last")
            /\ UNCHANGED <<usecount, ref, iflag, interlock>>
    /\ UNCHANGED <<then, nowait, asleep, xlocked, vnlock, onfree,
                   vrele_list, filevars, gone>>

\* The last one: the vnode is clean already, or is deactivated with its lock.
\* (From the label retry on.)
Last(t) ==
    /\ pc[t] = "last" /\ Has(t)
    /\ IF "CLEAN" \in iflag
       THEN /\ Goto(t, "dec")
            /\ UNCHANGED <<iflag, interlock, vnlock, asleep>>
       ELSE IF t = Vrele
       THEN /\ iflag' = iflag \ {"INACTREDO", "INACTNOW"}
            /\ Broadcast
            /\ Exit(t)
            /\ Goto(t, "vlock")
            /\ UNCHANGED vnlock
       ELSE /\ iflag' = (iflag \ {"INACTREDO"}) \cup {"INACTNOW"}
            /\ Exit(t)
            /\ IF vnlock = None
               THEN vnlock' = t /\ Goto(t, "inact")
               ELSE UNCHANGED vnlock /\ Goto(t, "defer")
            /\ UNCHANGED asleep
    /\ UNCHANGED <<then, nowait, ref, countvars, onfree, vrele_list,
                   filevars, gone>>

\* vn_lock(LK_EXCLUSIVE | LK_RETRY) of vrele_thread() waits for VI_XLOCK and
\* then takes the lock, unless the vnode is dead.
VreleLock(t) ==
    /\ pc[t] = "vlock"
    /\ "XLOCK" \notin iflag
    /\ Goto(t, IF Dead THEN "vlocked" ELSE "vtake")
    /\ UNCHANGED <<then, nowait, ref, asleep, countvars, iflag, interlock,
                   vnlock, onfree, vrele_list, filevars, gone>>

VreleLocked(t) ==
    /\ pc[t] = "vlocked" /\ interlock = None
    /\ IF usecount > 1
       THEN /\ usecount' = usecount - 1
            /\ ref' = ref \ {t}
            /\ vnlock' = Unlocked
            /\ Goto(t, "idle")
            /\ UNCHANGED iflag
       ELSE /\ iflag' = iflag \cup {"INACTNOW"}
            /\ Goto(t, "inact")
            /\ UNCHANGED <<usecount, ref, vnlock>>
    /\ UNCHANGED <<then, nowait, asleep, xlocked, interlock, onfree,
                   vrele_list, filevars, gone>>

\* The lock is taken: the reference goes to vrele_thread().
Defer(t) ==
    /\ pc[t] = "defer" /\ interlock = None
    /\ iflag' = (iflag \ {"INACTNOW"}) \cup {"INACTPEND"}
    /\ vrele_list' = TRUE
    /\ ref' = ref \ {t}
    /\ Broadcast
    /\ Goto(t, "idle")
    /\ UNCHANGED <<then, nowait, countvars, interlock, vnlock, onfree,
                   filevars, gone>>

\* VOP_INACTIVE() of UFS, with the vnode's lock, which it drops at its end;
\* for a dead vnode it does nothing.
Inactive ==
    /\ interlock = None
    /\ IF allocated /\ ~linked /\ ~Dead
       THEN allocated' = FALSE /\ iflag' = iflag \cup {"FREEING"}
       ELSE UNCHANGED <<allocated, iflag>>
    /\ vnlock' = Unlocked

Inact(t) ==
    /\ pc[t] = "inact"
    /\ Inactive
    /\ then' = [then EXCEPT ![t] = IF allocated' \/ Dead THEN "test"
                                   ELSE "dec"]
    /\ Goto(t, "inacted")
    /\ UNCHANGED <<nowait, ref, asleep, countvars, interlock, onfree,
                   vrele_list, hashed, cached, linked, gone>>

\* With "recycle" the vnode is cleaned out, whoever else has a reference.
Inacted(t) ==
    /\ pc[t] = "inacted"
    /\ Enter(t)
    /\ iflag' = iflag \ {"INACTNOW"}
    /\ Broadcast
    /\ Goto(t, IF then[t] = "test" THEN "test" ELSE "clean")
    /\ UNCHANGED <<then, nowait, ref, countvars, vnlock, onfree, vrele_list,
                   filevars, gone>>

\* if (!recycle): vtryrele(), and VI_INACTREDO
Test(t) ==
    /\ pc[t] = "test"
    /\ IF usecount > 1
       THEN /\ usecount' = usecount - 1
            /\ ref' = ref \ {t}
            /\ Exit(t)
            /\ Goto(t, "idle")
       ELSE /\ Goto(t, IF "INACTREDO" \in iflag THEN "last" ELSE "dec")
            /\ UNCHANGED <<usecount, ref, interlock>>
    /\ UNCHANGED <<then, nowait, asleep, xlocked, iflag, vnlock, onfree,
                   vrele_list, filevars, gone>>

DecSlip(t) ==
    /\ pc[t] = "dec" /\ Has(t)
    /\ usecount' = usecount - 1
    /\ ref' = ref \ {t}
    /\ IF "CLEAN" \in iflag THEN gone' = TRUE /\ UNCHANGED onfree
       ELSE onfree' = TRUE /\ UNCHANGED gone
    /\ Exit(t)
    /\ Goto(t, "idle")
    /\ UNCHANGED <<then, nowait, asleep, xlocked, iflag, vnlock, vrele_list,
                   filevars>>

\* The end of vrelel()
Dec(t) ==
    /\ pc[t] = "dec" /\ Has(t)
    /\ usecount' = usecount - 1
    /\ ref' = ref \ {t}
    /\ IF usecount = 1
       THEN IF "CLEAN" \in iflag THEN gone' = TRUE /\ UNCHANGED onfree
            ELSE onfree' = TRUE /\ UNCHANGED gone
       ELSE UNCHANGED <<gone, onfree>>
    /\ Exit(t)
    /\ Goto(t, "idle")
    /\ UNCHANGED <<then, nowait, asleep, xlocked, iflag, vnlock, vrele_list,
                   filevars>>

VreleThreadSlip ==
    /\ pc[Vrele] = "idle" /\ vrele_list /\ interlock = None
    /\ vrele_list' = FALSE
    /\ interlock' = Vrele
    /\ ref' = ref \cup {Vrele}
    /\ Goto(Vrele, "rel")
    /\ UNCHANGED <<then, nowait, asleep, countvars, vnlock, onfree, filevars,
                   iflag, gone>>

\* vrele_thread() takes the vnode off its list, and then the interlock.
VreleThread ==
    /\ pc[Vrele] = "idle" /\ vrele_list /\ interlock = None
    /\ vrele_list' = FALSE
    /\ iflag' = iflag \ {"INACTPEND"}
    /\ interlock' = Vrele
    /\ ref' = ref \cup {Vrele}
    /\ Goto(Vrele, "rel")
    /\ UNCHANGED <<then, nowait, asleep, countvars, vnlock, onfree, filevars,
                   gone>>

-----------------------------------------------------------------------------
(* vclean(), with the interlock *)

Clean(t) ==
    /\ pc[t] = "clean" /\ Has(t)
    /\ IF "XLOCK" \in iflag
       THEN Goto(t, "cwait") /\ UNCHANGED <<iflag, interlock>>
       ELSE IF "CLEAN" \in iflag
       THEN Goto(t, then[t]) /\ UNCHANGED <<iflag, interlock>>
       ELSE /\ iflag' = iflag \cup {"XLOCK"}
            /\ Exit(t)
            /\ Goto(t, IF usecount > 1 \/ xlocked THEN "cactive" ELSE "cpassive")
    /\ UNCHANGED <<then, nowait, ref, asleep, countvars, vnlock, onfree,
                   vrele_list, filevars, gone>>

\* VOP_LOCK() and vinvalbuf()
CleanLock(t) ==
    /\ pc[t] \in {"cactive", "cpassive"} /\ vnlock = None
    /\ vnlock' = t
    /\ Goto(t, IF pc[t] = "cactive" THEN "cinact" ELSE "cunlock")
    /\ UNCHANGED <<then, nowait, ref, asleep, countvars, iflag, interlock,
                   onfree, vrele_list, filevars, gone>>

CleanInactSlip(t) ==
    /\ \/ pc[t] = "cinact" /\ Inactive
       \/ pc[t] = "cunlock" /\ UNCHANGED <<iflag, allocated, vnlock>>
    /\ Goto(t, "reclaim")
    /\ UNCHANGED <<then, nowait, ref, asleep, countvars, interlock, onfree,
                   vrele_list, hashed, cached, linked, gone>>

CleanInact(t) ==
    /\ \/ pc[t] = "cinact" /\ Inactive
       \/ pc[t] = "cunlock" /\ vnlock' = None /\ UNCHANGED <<iflag, allocated>>
    /\ Goto(t, "reclaim")
    /\ UNCHANGED <<then, nowait, ref, asleep, countvars, interlock, onfree,
                   vrele_list, hashed, cached, linked, gone>>

\* VOP_RECLAIM() takes the inode out of the hash.
Reclaim(t) ==
    /\ pc[t] = "reclaim"
    /\ hashed' = FALSE
    /\ Goto(t, "purge")
    /\ UNCHANGED <<then, nowait, ref, asleep, countvars, iflag, interlock,
                   vnlock, onfree, vrele_list, cached, linked, allocated,
                   gone>>

\* cache_purge() waits for the nc_lock of those in vtryget().
Purge(t) ==
    /\ pc[t] = "purge" /\ \A u \in LWP : pc[u] # "try"
    /\ cached' = FALSE
    /\ Goto(t, "cdone")
    /\ UNCHANGED <<then, nowait, ref, asleep, countvars, iflag, interlock,
                   vnlock, onfree, vrele_list, hashed, linked, allocated,
                   gone>>

CleanDoneSlip(t) ==
    /\ pc[t] = "cdone"
    /\ Enter(t)
    /\ iflag' = (iflag \ {"XLOCK", "FREEING"}) \cup {"CLEAN"}
    /\ Goto(t, then[t])
    /\ UNCHANGED <<then, nowait, ref, asleep, countvars, vnlock, onfree,
                   vrele_list, filevars, gone>>

CleanDone(t) ==
    /\ pc[t] = "cdone"
    /\ Enter(t)
    /\ iflag' = (iflag \ {"XLOCK", "FREEING"}) \cup {"CLEAN"}
    /\ Broadcast
    /\ Goto(t, then[t])
    /\ UNCHANGED <<then, nowait, ref, countvars, vnlock, onfree, vrele_list,
                   filevars, gone>>

\* vgone() and vrevoke(): a holder has the vnode cleaned out; vrevoke() takes
\* a reference of its own, here it gives up the holder's as vgone() does.
Vgone(t) ==
    /\ Revoke
    /\ Holds(t) /\ (vnlock # t \/ Dead)
    /\ Enter(t)
    /\ Goto(t, "clean")
    /\ then' = [then EXCEPT ![t] = "rel"]
    /\ UNCHANGED <<nowait, ref, asleep, countvars, iflag, vnlock, onfree,
                   vrele_list, filevars, gone>>

\* vflush() or vrecycle() of an unused vnode
Vrecycle(t) ==
    /\ pc[t] = "idle" /\ t \notin ref /\ t # Vrele
    /\ onfree
    /\ Enter(t)
    /\ onfree' = FALSE
    /\ usecount' = 1
    /\ ref' = ref \cup {t}
    /\ Goto(t, "clean")
    /\ then' = [then EXCEPT ![t] = "rel"]
    /\ UNCHANGED <<nowait, asleep, xlocked, iflag, vnlock, vrele_list,
                   filevars, gone>>

\* getcleanvnode(): mutex_tryenter() of a vnode on the free list
GetClean(t) ==
    /\ pc[t] = "idle" /\ t \notin ref /\ t # Vrele
    /\ onfree /\ "XLOCK" \notin iflag
    /\ Enter(t)
    /\ onfree' = FALSE
    /\ usecount' = usecount + 1 /\ xlocked' = TRUE
    /\ ref' = ref \cup {t}
    /\ Goto(t, "clean")
    /\ then' = [then EXCEPT ![t] = "take"]
    /\ UNCHANGED <<nowait, asleep, iflag, vnlock, vrele_list, filevars, gone>>

TakeSlip(t) ==
    /\ pc[t] = "take" /\ Has(t)
    /\ xlocked' = FALSE
    /\ gone' = TRUE
    /\ iflag' = iflag \ {"CLEAN"}
    /\ Exit(t)
    /\ Goto(t, "idle")
    /\ ref' = ref \ {t} /\ usecount' = 0
    /\ UNCHANGED <<then, nowait, asleep, vnlock, onfree, vrele_list, filevars>>

\* It is used for another file, unless somebody waits for it.
Take(t) ==
    /\ pc[t] = "take" /\ Has(t)
    /\ xlocked' = FALSE
    /\ IF usecount = 1
       THEN /\ gone' = TRUE
            /\ iflag' = iflag \ {"CLEAN"}
            /\ Exit(t)
            /\ Goto(t, "idle")
            /\ ref' = ref \ {t} /\ usecount' = 0
       ELSE /\ Goto(t, "rel")
            /\ UNCHANGED <<gone, iflag, interlock, ref, usecount>>
    /\ UNCHANGED <<then, nowait, asleep, vnlock, onfree, vrele_list, filevars>>

-----------------------------------------------------------------------------

\* A file that was just opened by name
Init ==
    /\ pc = [t \in LWP |-> "idle"]
    /\ then = [t \in LWP |-> "none"]
    /\ nowait = [t \in LWP |-> TRUE]
    /\ \E t \in LWP \ {Vrele} : ref = {t}
    /\ asleep = {}
    /\ usecount = 1 /\ xlocked = FALSE
    /\ iflag = {}
    /\ interlock = None /\ vnlock = None
    /\ onfree = FALSE /\ vrele_list = FALSE
    /\ hashed = TRUE /\ cached = TRUE
    /\ linked = TRUE /\ allocated = TRUE
    /\ gone = FALSE
    /\ unseen = FALSE /\ late = {} /\ revoked = FALSE /\ past = {}

Step(t) ==
    \/ Get(t) \/ Wait(t) \/ Woken(t) \/ Waited(t) \/ Got(t) \/ TryCount(t)
    \/ LockTake(t) \/ ReleFast(t) \/ ReleSlow(t) \/ Rel(t) \/ Last(t) \/ VreleLock(t)
    \/ VreleLocked(t) \/ Defer(t) \/ Inact(t) \/ Inacted(t) \/ Test(t)
    \/ Dec(t) \/ Clean(t) \/ CleanLock(t) \/ CleanInact(t) \/ Reclaim(t)
    \/ Purge(t) \/ CleanDone(t) \/ Take(t)

Call(t) ==
    \/ Lookup(t) \/ TryFlags(t) \/ (\E u \in LWP : Vref(t, u))
    \/ LockFlag(t) \/ Unlink(t) \/ Vgone(t) \/ Vrecycle(t)
    \/ GetClean(t)

\* vclean() has begun, or the LWP that calls it has found nothing against it.
Cleaning == "XLOCK" \in iflag \/ \E t \in LWP : pc[t] = "clean"

\* What a step of t adds to the history.  vrele() without the interlock goes
\* unnoticed when another LWP has ended the deactivation and has yet to drop its
\* own reference, until the vnode is deactivated again; the count is taken
\* when vclean() has begun by vtryget(), which looked at the flags before, by
\* vget(), which waited for VI_INACTNOW and then looks at VI_CLEAN only, and by
\* whoever such an LWP passes a reference on to.
Remember(t) ==
    /\ unseen' = IF pc[t] = "fast" /\ ref' # ref
                    /\ \E u \in LWP : pc[u] \in {"test", "dec"}
                 THEN TRUE
                 ELSE unseen /\ pc'[t] \notin {"inact", "defer", "vlock"}
    /\ late' = ref' \cap
           (IF pc[t] \in {"geti", "try"} /\ Cleaning THEN late \cup {t}
            ELSE IF t \in late /\ pc[t] = "idle" THEN late \cup (ref' \ ref)
            ELSE late)
    /\ revoked' = (revoked \/ (pc[t] = "idle" /\ t \in ref /\ pc'[t] = "clean"))
    /\ past' = IF pc[t] = "clean" /\ "XLOCK" \in iflag' \ iflag
               THEN {u \in LWP : pc[u] \in {"lock", "vtake"}}
               ELSE past

Next ==
    \/ \E t \in LWP : /\ Step(t) \/ Call(t) \/ Unlock(t) \/ ReleFlag(t)
                      /\ Remember(t)
    \/ VreleThread /\ UNCHANGED history

Spec == Init /\ [][Next]_vars

-----------------------------------------------------------------------------

\* v_usecount counts the references that LWPs have and the one of
\* vrele_thread()'s list; with none the vnode is on a free list and is not
\* clean (the panics of getcleanvnode()), unless it is gone.
CountExact ==
    /\ usecount = Cardinality(ref) + (IF vrele_list THEN 1 ELSE 0)
    /\ onfree => usecount = 0 /\ "CLEAN" \notin iflag
    /\ usecount = 0 /\ interlock = None /\ ~gone => onfree
    /\ xlocked => usecount > 0

\* Nobody is in a call on a vnode that was destroyed or given to another file,
\* and it can no longer be found.
GoneUnused ==
    gone => /\ \A t \in LWP : pc[t] = "idle"
            /\ ref = {} /\ ~vrele_list /\ ~onfree
            /\ ~hashed /\ ~cached

\* The assertions of vrelel(): nobody cleans the vnode when the last reference
\* is dropped, and a deactivation is not pending twice.
LastIsAlone ==
    \A t \in LWP :
        /\ pc[t] = "rel" /\ usecount = 1 => "XLOCK" \notin iflag
        /\ pc[t] = "defer" => "INACTPEND" \notin iflag

\* A vnode whose file has no name left is not kept on the free list: it was
\* deactivated after the last LWP that could unlink the file let go of it,
\* unless that LWP's vrele() went unnoticed.
UnlinkedNotKept == onfree /\ interlock = None => linked \/ unseen

\* A vnode is not cleaned out under a holder, unless it is revoked or its file
\* was deleted, when vrelel() has it cleaned "irrespective of additional
\* references": whoever recycles an unused one keeps others from getting a
\* reference to it.  The LWPs that got one nevertheless are those of "late".
HeldIsLive ==
    \A t \in LWP :
        Holds(t) /\ iflag \cap {"XLOCK", "CLEAN"} # {}
        => revoked \/ ~allocated \/ t \in late

\* Nobody has the lock of a vnode that was cleaned out, since others "must first
\* wait for VI_XLOCK to clear, then call the new lock operation", but an LWP
\* that had looked at VI_XLOCK before vclean() set it and took the lock after
\* vclean() did: its VOP_UNLOCK() is the one of the dead vnode, which leaves the
\* lock taken.
CleanUnlocked == Dead => vnlock \in {None} \cup past
=============================================================================
