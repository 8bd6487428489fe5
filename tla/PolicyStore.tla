---------------------------- MODULE PolicyStore ----------------------------
(* The policy store of the policy engine: the requests that set a policy   *)
(* (pe_dispatch_policy), the files they leave on disk and the loading of   *)
(* the policy database (pe_user_load_dir) at start and on SIGHUP.          *)
(*                                                                         *)
(* A policy arrives in chunks, a signature of siglen units first.  The     *)
(* chunks go to two temporary files that are renamed when the last one     *)
(* came.  The machine may go down between any two renames.                 *)
EXTENDS Integers, FiniteSets

CONSTANTS
    Slots,        \* policies: records [uid, prio], prio "admin" or "user"
    Keyed,        \* the slots for which root has installed a certificate
    Rekeyed,      \* the slots whose certificate root may install or remove
    Contents,     \* what an upload holds, records [scoped, good]: rules with a
                  \* scope; a signature that verifies
    Auths,        \* authenticated users of the sessions
    Tokens,       \* tokens of requests
    SigLens,      \* lengths of signatures, 0 for none
    Lens,         \* lengths of chunks
    MaxSize,      \* the configured policysize
    MaxUploads,   \* bound: uploads that are ever started
    MaxCrashes    \* bound: restarts

ASSUME StoreAssumption ==
    /\ Keyed \subseteq Slots /\ Rekeyed \subseteq Slots
    /\ Contents \subseteq [scoped : BOOLEAN, good : BOOLEAN]
    /\ SigLens \subseteq Nat /\ Lens \subseteq Nat \ {0}
    /\ MaxSize \in Nat /\ MaxUploads \in Nat /\ MaxCrashes \in Nat

NoUpload == 0     \* uploads are numbered from 1 on
NoFile == [id |-> NoUpload, by |-> {}, intact |-> TRUE, split |-> FALSE,
           scoped |-> FALSE, checked |-> TRUE]
NoRules == [id |-> NoUpload, scopes |-> FALSE]

VARIABLES
    keyed,        \* certs: the slots with a certificate
    reqs,         \* preqs: [token -> request] for the requests under way
    files,        \* disk: [slot -> [pol, sig]]: the upload the policy comes
                  \* from with what became of it, and the upload the
                  \* signature verifies, if any
    tmps,         \* disk: temporary files, pairs <<slot, token>>
    db,           \* policy database: [slot -> rules], the upload they come
                  \* from and whether its scoped rules are among them
    acked,        \* history: [slot -> last upload that was acknowledged]; a
                  \* new certificate asks for a new one
    torn,         \* history: slots where one of the two renames failed
    uploads, crashes

vars == <<keyed, reqs, files, tmps, db, acked, torn, uploads, crashes>>

Busy(t) == t \in DOMAIN reqs

-----------------------------------------------------------------------------
(* Loading                                                                  *)

\* pe_user_load_dir for one file: where there is a certificate, a policy whose
\* signature does not verify is skipped.  pe_user_load_policy removes every
\* rule that has a scope.
Load(disk, certs, s) ==
    [id |-> IF s \in certs /\ disk[s].pol.id # disk[s].sig THEN NoUpload
            ELSE disk[s].pol.id,
     scopes |-> FALSE]

\* cert_reconfigure: the certificates are read again; cert_init at start.
LoadCerts ==
    /\ keyed' \in {k \in SUBSET Slots : k \ Rekeyed = keyed \ Rekeyed}
    /\ acked' = [s \in Slots |-> IF s \in keyed' \ keyed THEN NoUpload ELSE acked[s]]

\* pe_user_reconfigure; pe_user_init does the same at start.
LoadAll(disk) == LoadCerts /\ db' = [s \in Slots |-> Load(disk, keyed', s)]

\* SIGHUP
Reconfigure ==
    /\ LoadAll(files)
    /\ UNCHANGED <<reqs, files, tmps, torn, uploads, crashes>>

-----------------------------------------------------------------------------
(* Setting a policy                                                         *)

\* pe_policy_request_put and the reply: the request is over.
Forget(t) ==
    /\ reqs' = [u \in DOMAIN reqs \ {t} |-> reqs[u]]
    /\ tmps' = IF Busy(t) THEN tmps \ {<<reqs[t].slot, t>>} ELSE tmps

\* What the checks of POLICY_FLAG_START let through.
Allowed(auth, s) == auth \in {s.uid, 0} /\ (s.prio = "admin" => auth = 0)

\* Mutant: a chunk is signature or policy, never both.
SigWhole(r, len) == IF r.written < r.siglen THEN len ELSE 0

\* Units of a chunk that go to the signature.  The rest of a signature that
\* began in an earlier chunk is taken to be siglen units long.
SigPart(r, len) ==
    IF r.written >= r.siglen THEN 0
    ELSE IF len > r.siglen - r.written THEN r.siglen ELSE len

\* The request after one more chunk.  A chunk that is shorter than SigPart
\* makes the next write fail.
Written(r, auth, len) ==
    [r EXCEPT !.written = @ + len, !.sig = @ + SigPart(r, len),
              !.pol = @ + len - SigPart(r, len), !.by = @ \cup {auth},
              !.split = @ \/ (r.written \in 1 .. r.siglen - 1)]

\* Mutant: further chunks come from anybody.
AcceptsAny(r, auth, len) == r.written + len <= MaxSize /\ SigPart(r, len) <= len

Accepts(r, auth, len) ==
    /\ auth = r.auth
    /\ r.written + len <= MaxSize
    /\ SigPart(r, len) <= len

\* anoubis_sig_verify_policy_file: a signature of the wrong length is none.
\* Without one, or without a certificate, there is nothing to verify.  The
\* outcome of apn_parse is free.
Verified(r) == r.slot \in keyed /\ r.siglen > 0 => r.sig = r.siglen /\ r.good
Intact(r) == r.pol = IF r.written > r.siglen THEN r.written - r.siglen ELSE 0

\* The policy as it will be on disk, and whether it was signed if it had to be.
Content(r) ==
    [id |-> r.id, by |-> r.by, intact |-> Intact(r), split |-> r.split,
     scoped |-> r.scoped, checked |-> r.slot \in keyed => r.siglen > 0]

\* Mutant: the old policy is removed first.
UnlinkPolicy(r) == files' = [files EXCEPT ![r.slot].pol = NoFile]
RenamePolicy(r) == files' = [files EXCEPT ![r.slot].pol = Content(r)]

\* Mutant: the signature is never moved.
RenameOne(r) == files' = [files EXCEPT ![r.slot].pol = Content(r)]
RenameBoth(r) ==
    files' = [files EXCEPT ![r.slot] =
                [pol |-> Content(r),
                 sig |-> IF r.siglen = 0 THEN @.sig
                         ELSE IF r.good THEN r.id ELSE NoUpload]]

\* POLICY_FLAG_END: the policy is verified, parsed, moved and used, with the
\* rules that have a scope.
Commit(t, r) ==
    /\ Verified(r)
    /\ RenameBoth(r)
    /\ db' = [db EXCEPT ![r.slot] = [id |-> r.id, scopes |-> r.scoped]]
    /\ acked' = [acked EXCEPT ![r.slot] = r.id]
    /\ torn' = torn \ {r.slot}
    /\ Forget(t)
    /\ UNCHANGED keyed

\* The first rename works, the second one does not: the client gets an error
\* and the database keeps the old rules.
CommitHalf(t, r) ==
    /\ Verified(r) /\ r.siglen > 0
    /\ RenamePolicy(r)
    /\ torn' = torn \cup {r.slot}
    /\ Forget(t)
    /\ UNCHANGED <<keyed, db, acked>>

\* Verification, parser, fsync or the first rename failed.
Refuse(t) == Forget(t) /\ UNCHANGED <<keyed, files, db, acked, torn>>

Finish(t, r) == Commit(t, r) \/ CommitHalf(t, r) \/ Refuse(t)

\* One chunk of a request that has passed the checks.
Chunk(t, r, auth, len, end) ==
    IF ~Accepts(r, auth, len) THEN Refuse(t)
    ELSE IF end THEN Finish(t, Written(r, auth, len))
    ELSE /\ reqs' = [u \in DOMAIN reqs \cup {t} |->
                        IF u = t THEN Written(r, auth, len) ELSE reqs[u]]
         /\ tmps' = tmps \cup {<<r.slot, t>>}
         /\ UNCHANGED <<keyed, files, db, acked, torn>>

\* The first message of a request.  The temporary files are created with
\* O_EXCL: one that a crash left behind fails the request, and is removed.
Start(t, auth, s, siglen, c, len, end) ==
    /\ ~Busy(t) /\ uploads < MaxUploads
    /\ uploads' = uploads + 1
    /\ LET r == [id |-> uploads + 1, slot |-> s, auth |-> auth, siglen |-> siglen,
                 written |-> 0, sig |-> 0, pol |-> 0,
                 by |-> {}, split |-> FALSE, scoped |-> c.scoped, good |-> c.good]
       IN IF ~Allowed(auth, s) \/ (s \in keyed /\ siglen = 0) THEN Refuse(t)
          ELSE IF <<s, t>> \in tmps
            THEN /\ tmps' = tmps \ {<<s, t>>}
                 /\ UNCHANGED <<keyed, reqs, files, db, acked, torn>>
            ELSE Chunk(t, r, auth, len, end)
    /\ UNCHANGED crashes

\* A further message of a request under way.
Continue(t, auth, len, end) ==
    /\ Busy(t)
    /\ Chunk(t, reqs[t], auth, len, end)
    /\ UNCHANGED <<uploads, crashes>>

\* POLREQUEST_ABORT, or a second POLICY_FLAG_START for the same token.
Abort(t) ==
    /\ Busy(t)
    /\ Refuse(t)
    /\ UNCHANGED <<uploads, crashes>>

-----------------------------------------------------------------------------
(* Crashes                                                                  *)

\* The policy engine starts again with what is on disk.
Restart ==
    /\ crashes < MaxCrashes /\ crashes' = crashes + 1
    /\ reqs' = <<>>
    /\ UNCHANGED <<tmps, uploads>>

Crash == Restart /\ LoadAll(files) /\ UNCHANGED <<files, torn>>

\* The machine goes down in the middle of the last message of a request: the
\* policy is in place, its signature may be too.
CrashInEnd(t, len) ==
    /\ Busy(t)
    /\ LET r == Written(reqs[t], reqs[t].auth, len) IN
       /\ Accepts(reqs[t], reqs[t].auth, len)
       /\ Verified(r)
       /\ \/ RenameBoth(r) /\ torn' = torn \ {r.slot}
          \/ r.siglen > 0 /\ RenamePolicy(r) /\ torn' = torn \cup {r.slot}
       /\ LoadAll(files')
    /\ Restart

-----------------------------------------------------------------------------
Init ==
    /\ keyed = Keyed
    /\ reqs = <<>> /\ tmps = {}
    /\ files = [s \in Slots |-> [pol |-> NoFile, sig |-> NoUpload]]
    /\ db = [s \in Slots |-> NoRules]
    /\ acked = [s \in Slots |-> NoUpload]
    /\ torn = {}
    /\ uploads = 0 /\ crashes = 0

Next ==
    \/ \E t \in Tokens, a \in Auths, len \in Lens, end \in BOOLEAN :
          \/ \E s \in Slots, n \in SigLens, c \in Contents :
                Start(t, a, s, n, c, len, end)
          \/ Continue(t, a, len, end)
    \/ \E t \in Tokens : Abort(t) \/ \E len \in Lens : CrashInEnd(t, len)
    \/ Reconfigure
    \/ Crash

Spec == Init /\ [][Next]_vars

-----------------------------------------------------------------------------
(* Properties                                                               *)

\* The rules in force are those of the policy that the daemon would load now,
\* and scoped rules among them are in its file: a restart or a SIGHUP with the
\* same certificates takes from a user his scoped rules, which end there, and
\* nothing else.  The exceptions are a rename that failed half way and a
\* certificate that came between the first and the last chunk.
DbIsDisk ==
    \A s \in Slots \ torn :
        files[s].pol.checked =>
            /\ db[s].id = Load(files, keyed, s).id
            /\ db[s].scopes => files[s].pol.scoped /\ files[s].pol.id = db[s].id

\* A user whose policy was acknowledged once is never without one, whatever
\* crashes and failures hit later uploads, until root asks for a signature by
\* installing a certificate.  A signed policy whose signature did not make it
\* to disk, and an unsigned one that a new certificate overtook, are the
\* exceptions.
NeverUnprotected ==
    \A s \in Slots :
        /\ acked[s] # NoUpload
        /\ s \in keyed => s \notin torn /\ files[s].pol.checked
        => db[s].id # NoUpload /\ Load(files, keyed, s).id # NoUpload

\* Every policy on disk was sent, to its last chunk, by its owner or by root,
\* and an admin policy by root.
AuthorsAllowed ==
    \A s \in Slots : \A a \in files[s].pol.by : Allowed(a, s)

\* What is stored is what was sent after the signature.  The exception is a
\* signature that began in one chunk and ended in another.
StoredIntact ==
    \A s \in Slots : files[s].pol.intact \/ files[s].pol.split

\* Temporary files belong to a request under way, except those of a crash.
TmpFilesOwned ==
    crashes = 0 => tmps = {<<reqs[t].slot, t>> : t \in DOMAIN reqs}
=============================================================================
