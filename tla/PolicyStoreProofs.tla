------------------------- MODULE PolicyStoreProofs -------------------------
(* The policy store, for any number of users, requests, chunks, failures   *)
(* and crashes: what is in force is what is on disk, nobody loses a policy *)
(* that was acknowledged, and nobody writes one that is not his.           *)
EXTENDS PolicyStore, TLAPS

\* A request that has passed the checks of its first message.
ReqRecs ==
    [id : Nat \ {0}, slot : Slots, auth : Auths, siglen : Nat, written : Nat,
     sig : Int, pol : Int, by : SUBSET Auths, split : BOOLEAN,
     scoped : BOOLEAN, good : BOOLEAN]
Checked(r) ==
    /\ r \in ReqRecs
    /\ Allowed(r.auth, r.slot)
    /\ \A a \in r.by : Allowed(a, r.slot)
    /\ Intact(r) \/ r.split

FileRecs == [id : Nat, by : SUBSET Auths, intact : BOOLEAN, split : BOOLEAN,
             scoped : BOOLEAN, checked : BOOLEAN]
RuleRecs == [id : Nat, scopes : BOOLEAN]

\* Where both renames worked, the signature is the one of the policy.
SigCurrent ==
    \A s \in Slots \ torn :
        s \in keyed /\ acked[s] # NoUpload /\ files[s].pol.checked =>
            files[s].pol.id = files[s].sig

\* A policy that was acknowledged is followed by others, never by none.
Kept ==
    \A s \in Slots :
        acked[s] # NoUpload =>
            files[s].pol.id # NoUpload /\ (s \notin keyed => db[s].id # NoUpload)

StoreOK ==
    /\ files \in [Slots -> [pol : FileRecs, sig : Nat]]
    /\ db \in [Slots -> RuleRecs] /\ acked \in [Slots -> Nat]
    /\ DbIsDisk /\ SigCurrent /\ Kept /\ AuthorsAllowed /\ StoredIntact
RequestsOK == \A t \in DOMAIN reqs : Checked(reqs[t])
CountersOK == uploads \in Nat /\ crashes \in Nat

\* The inductive invariant.
IInv == StoreOK /\ RequestsOK /\ CountersOK /\ TmpFilesOwned

-----------------------------------------------------------------------------
(* The operators of a request                                              *)

\* Signature and policy are told apart correctly as long as the signature does
\* not go on in a second chunk.
LEMMA WrittenWhole ==
    ASSUME NEW r, Checked(r), NEW auth, NEW len \in Nat
    PROVE  Intact(Written(r, auth, len)) \/ Written(r, auth, len).split
<1> DEFINE n == SigPart(r, len)
           b == r.split \/ (r.written \in 1 .. r.siglen - 1)
           q == Written(r, auth, len)
<1> SUFFICES Intact(q) \/ q.split
  OBVIOUS
<1>1. /\ r \in ReqRecs /\ (Intact(r) \/ r.split)
      /\ r.written \in Nat /\ r.siglen \in Nat /\ r.pol \in Int
  BY DEF Checked, ReqRecs
<1>2. q = [r EXCEPT !.written = r.written + len, !.sig = r.sig + n,
                    !.pol = r.pol + len - n, !.by = r.by \cup {auth}, !.split = b]
  BY DEF Written
<1>3. b \/ n = IF r.written >= r.siglen THEN 0 ELSE IF len > r.siglen THEN r.siglen ELSE len
  BY <1>1 DEF SigPart
<1>4. b \/ (r.split = FALSE /\ (r.written = 0 \/ r.written >= r.siglen))
  BY <1>1 DEF ReqRecs
<1> HIDE DEF n, b, q
<1>5. /\ q.written = r.written + len /\ q.pol = r.pol + len - n
      /\ q.siglen = r.siglen /\ q.split = b
  BY <1>1, <1>2 DEF ReqRecs
<1>6. CASE b
  BY <1>5, <1>6, Zenon
<1>7. CASE ~b
  <2>1. Intact(r)
    BY <1>1, <1>4, <1>7, Zenon
  <2>2. /\ n = IF r.written >= r.siglen THEN 0 ELSE IF len > r.siglen THEN r.siglen ELSE len
        /\ r.written = 0 \/ r.written >= r.siglen
    BY <1>3, <1>4, <1>7, Zenon
  <2>3. r.pol = IF r.written > r.siglen THEN r.written - r.siglen ELSE 0
    BY <2>1 DEF Intact
  <2>4. q.pol = IF q.written > q.siglen THEN q.written - q.siglen ELSE 0
    BY <1>1, <1>5, <2>2, <2>3
  <2>5. QED
    BY <2>4 DEF Intact
<1>8. QED
  BY <1>6, <1>7

\* A chunk that is accepted leaves a request that has passed the checks.
LEMMA WrittenChecked ==
    ASSUME NEW r, Checked(r), NEW auth \in Auths, NEW len \in Lens,
           Accepts(r, auth, len)
    PROVE  Checked(Written(r, auth, len))
<1>1. len \in Nat
  BY StoreAssumption
<1>2. SigPart(r, len) \in Int
  BY <1>1 DEF SigPart, Checked, ReqRecs
<1>3. Written(r, auth, len) \in ReqRecs
  <2> DEFINE n == SigPart(r, len)
             b == r.split \/ (r.written \in 1 .. r.siglen - 1)
  <2>1. r \in ReqRecs
    BY DEF Checked
  <2>2. r.written + len \in Nat /\ r.sig + n \in Int /\ r.pol + len - n \in Int
    BY <1>1, <1>2, <2>1 DEF ReqRecs
  <2>3. b \in BOOLEAN /\ r.by \cup {auth} \in SUBSET Auths
    BY <2>1 DEF ReqRecs
  <2>4. Written(r, auth, len)
          = [r EXCEPT !.written = r.written + len, !.sig = r.sig + n,
                      !.pol = r.pol + len - n, !.by = r.by \cup {auth}, !.split = b]
    BY DEF Written
  <2> HIDE DEF n, b
  <2>5. QED
    BY <2>1, <2>2, <2>3, <2>4 DEF ReqRecs
<1>4. /\ Written(r, auth, len).slot = r.slot
      /\ Written(r, auth, len).siglen = r.siglen
      /\ Written(r, auth, len).auth = r.auth
      /\ Written(r, auth, len).by = r.by \cup {auth}
  BY DEF Written, Checked, ReqRecs
<1>5. auth = r.auth
  BY DEF Accepts
<1>6. Intact(Written(r, auth, len)) \/ Written(r, auth, len).split
  BY <1>1, WrittenWhole
<1>7. QED
  BY <1>3, <1>4, <1>5, <1>6 DEF Checked

\* What a request writes to disk is a policy of its user or of root.
LEMMA ContentTyped ==
    ASSUME NEW r, Checked(r)
    PROVE  /\ Content(r) \in FileRecs
           /\ Content(r).id = r.id /\ Content(r).by = r.by
           /\ Content(r).intact \/ Content(r).split
           /\ Content(r).scoped = r.scoped
           /\ Content(r).checked = (r.slot \in keyed => r.siglen > 0)
BY DEF Content, FileRecs, Checked, ReqRecs, Intact

\* The end of a request leaves the others and their temporary files alone.
LEMMA ForgetKeeps ==
    ASSUME RequestsOK, TmpFilesOwned, NEW t, Forget(t), UNCHANGED crashes
    PROVE  RequestsOK' /\ TmpFilesOwned'
<1>1. DOMAIN reqs' = DOMAIN reqs \ {t} /\ \A u \in DOMAIN reqs' : reqs'[u] = reqs[u]
  BY DEF Forget
<1>2. RequestsOK'
  BY <1>1 DEF RequestsOK, Checked, Allowed, Intact
<1>3. ASSUME crashes = 0
      PROVE  tmps' = {<<reqs'[u].slot, u>> : u \in DOMAIN reqs'}
  <2>1. tmps = {<<reqs[u].slot, u>> : u \in DOMAIN reqs}
    BY <1>3 DEF TmpFilesOwned
  <2>2. tmps' = {<<reqs[u].slot, u>> : u \in DOMAIN reqs \ {t}}
    BY <2>1 DEF Forget, Busy
  <2>3. QED
    BY <1>1, <2>2
<1>4. QED
  BY <1>2, <1>3 DEF TmpFilesOwned

-----------------------------------------------------------------------------
(* The disk                                                                *)

\* Both renames: the slot holds the new policy and, with a certificate and a
\* signature that was verified, that signature.
LEMMA RenameBothSlot ==
    ASSUME StoreOK, NEW r, Checked(r), Verified(r), RenameBoth(r)
    PROVE  /\ files' \in [Slots -> [pol : FileRecs, sig : Nat]]
           /\ \A s \in Slots \ {r.slot} : files'[s] = files[s]
           /\ files'[r.slot].pol = Content(r)
           /\ r.slot \in keyed /\ r.siglen > 0 => files'[r.slot].sig = r.id
<1>1. Content(r) \in FileRecs
  BY ContentTyped
<1>2. /\ r.slot \in Slots /\ r.id \in Nat /\ r.siglen \in Nat
      /\ r.slot \in keyed /\ r.siglen > 0 => r.good
  BY DEF Checked, ReqRecs, Verified
<1>3. QED
  BY <1>1, <1>2 DEF RenameBoth, StoreOK, NoUpload

\* The first rename alone: the signature is the old one.
LEMMA RenamePolicySlot ==
    ASSUME StoreOK, NEW r, Checked(r), RenamePolicy(r)
    PROVE  /\ files' \in [Slots -> [pol : FileRecs, sig : Nat]]
           /\ \A s \in Slots \ {r.slot} : files'[s] = files[s]
           /\ files'[r.slot].pol = Content(r)
<1>1. Content(r) \in FileRecs
  BY ContentTyped
<1>2. r.slot \in Slots
  BY DEF Checked, ReqRecs
<1>3. QED
  BY <1>1, <1>2 DEF RenamePolicy, StoreOK

\* POLICY_FLAG_END, everything works.
LEMMA CommitKeepsStore ==
    ASSUME StoreOK, NEW r, Checked(r), NEW t, Commit(t, r)
    PROVE  StoreOK'
<1>1. /\ r.slot \in Slots /\ r.id \in Nat \ {0} /\ r.scoped \in BOOLEAN
      /\ \A a \in r.by : Allowed(a, r.slot)
  BY DEF Checked, ReqRecs
<1>2. /\ files' \in [Slots -> [pol : FileRecs, sig : Nat]]
      /\ \A s \in Slots \ {r.slot} : files'[s] = files[s]
      /\ files'[r.slot].pol.id = r.id /\ files'[r.slot].pol.by = r.by
      /\ files'[r.slot].pol.intact \/ files'[r.slot].pol.split
      /\ files'[r.slot].pol.scoped = r.scoped
      /\ files'[r.slot].pol.checked = (r.slot \in keyed => r.siglen > 0)
      /\ r.slot \in keyed /\ r.siglen > 0 => files'[r.slot].sig = r.id
  BY RenameBothSlot, ContentTyped DEF Commit
<1>3. /\ db' = [db EXCEPT ![r.slot] = [id |-> r.id, scopes |-> r.scoped]]
      /\ acked' = [acked EXCEPT ![r.slot] = r.id]
      /\ torn' = torn \ {r.slot} /\ keyed' = keyed
  BY DEF Commit
<1>4. db' \in [Slots -> RuleRecs] /\ acked' \in [Slots -> Nat]
  BY <1>1, <1>3 DEF StoreOK, RuleRecs
<1>5. DbIsDisk'
  <2> SUFFICES ASSUME NEW s \in Slots \ torn', files'[s].pol.checked
               PROVE  /\ db'[s].id = Load(files', keyed', s).id
                      /\ db'[s].scopes => files'[s].pol.scoped /\ files'[s].pol.id = db'[s].id
    BY DEF DbIsDisk
  <2>1. CASE s = r.slot
    <3>1. db'[s].id = r.id /\ db'[s].scopes = r.scoped
      BY <1>1, <1>3, <2>1 DEF StoreOK
    <3>2. Load(files', keyed', s).id = r.id
      BY <1>2, <1>3, <2>1 DEF Load
    <3>3. QED
      BY <1>2, <2>1, <3>1, <3>2
  <2>2. CASE s # r.slot
    <3>1. s \in Slots \ torn /\ files'[s] = files[s] /\ db'[s] = db[s]
      BY <1>1, <1>2, <1>3, <2>2 DEF StoreOK
    <3>2. Load(files', keyed', s) = Load(files, keyed, s)
      BY <1>3, <3>1 DEF Load
    <3>3. QED
      BY <3>1, <3>2 DEF StoreOK, DbIsDisk
  <2>3. QED
    BY <2>1, <2>2
<1>6. SigCurrent'
  BY <1>1, <1>2, <1>3 DEF StoreOK, SigCurrent
<1>7. Kept'
  BY <1>1, <1>2, <1>3 DEF StoreOK, Kept, NoUpload
<1>8. AuthorsAllowed' /\ StoredIntact'
  BY <1>1, <1>2 DEF StoreOK, AuthorsAllowed, StoredIntact, Allowed
<1>9. QED
  BY <1>2, <1>4, <1>5, <1>6, <1>7, <1>8 DEF StoreOK

\* POLICY_FLAG_END, the second rename fails.
LEMMA CommitHalfKeepsStore ==
    ASSUME StoreOK, NEW r, Checked(r), NEW t, CommitHalf(t, r)
    PROVE  StoreOK'
<1>1. /\ r.slot \in Slots /\ r.id \in Nat \ {0}
      /\ \A a \in r.by : Allowed(a, r.slot)
  BY DEF Checked, ReqRecs
<1>2. /\ files' \in [Slots -> [pol : FileRecs, sig : Nat]]
      /\ \A s \in Slots \ {r.slot} : files'[s] = files[s]
      /\ files'[r.slot].pol.id = r.id /\ files'[r.slot].pol.by = r.by
      /\ files'[r.slot].pol.intact \/ files'[r.slot].pol.split
  BY RenamePolicySlot, ContentTyped DEF CommitHalf
<1>3. db' = db /\ acked' = acked /\ keyed' = keyed /\ torn' = torn \cup {r.slot}
  BY DEF CommitHalf
<1>4. DbIsDisk' /\ SigCurrent'
  BY <1>2, <1>3 DEF StoreOK, DbIsDisk, SigCurrent, Load
<1>5. Kept'
  BY <1>1, <1>2, <1>3 DEF StoreOK, Kept, NoUpload
<1>6. AuthorsAllowed' /\ StoredIntact'
  BY <1>1, <1>2 DEF StoreOK, AuthorsAllowed, StoredIntact, Allowed
<1>7. QED
  BY <1>2, <1>3, <1>4, <1>5, <1>6 DEF StoreOK

\* Nothing of the store changes.
LEMMA StoreFrame ==
    ASSUME StoreOK, UNCHANGED <<keyed, files, db, acked, torn>>
    PROVE  StoreOK'
BY DEF StoreOK, DbIsDisk, SigCurrent, Kept, AuthorsAllowed, StoredIntact, Load, Allowed

\* Loading what is on disk makes the two agree, whatever failed before.
LEMMA LoadingAgrees ==
    ASSUME files' \in [Slots -> [pol : FileRecs, sig : Nat]],
           acked \in [Slots -> Nat], LoadAll(files'),
           AuthorsAllowed', StoredIntact',
           \A s \in Slots : acked[s] # NoUpload => files'[s].pol.id # NoUpload,
           \A s \in Slots \ torn' :
               s \in keyed /\ acked[s] # NoUpload /\ files'[s].pol.checked =>
                   files'[s].pol.id = files'[s].sig
    PROVE  StoreOK'
<1>1. /\ db' = [s \in Slots |-> Load(files', keyed', s)]
      /\ acked' = [s \in Slots |-> IF s \in keyed' \ keyed THEN NoUpload ELSE acked[s]]
  BY DEF LoadAll, LoadCerts
<1>2. /\ \A s \in Slots : Load(files', keyed', s) \in RuleRecs
      /\ acked' \in [Slots -> Nat]
  BY <1>1 DEF Load, FileRecs, RuleRecs, NoUpload
<1>3. DbIsDisk'
  BY <1>1 DEF DbIsDisk, Load
<1>4. \A s \in Slots : acked'[s] # NoUpload => acked[s] = acked'[s] /\ s \notin keyed' \ keyed
  BY <1>1
<1>5. Kept'
  BY <1>1, <1>4 DEF Kept, Load, NoUpload
<1>6. SigCurrent'
  BY <1>4 DEF SigCurrent
<1>7. QED
  BY <1>1, <1>2, <1>3, <1>5, <1>6 DEF StoreOK

-----------------------------------------------------------------------------
(* The actions                                                             *)

\* One message of a request that has passed the checks.
LEMMA ChunkKeeps ==
    ASSUME StoreOK, RequestsOK, TmpFilesOwned,
           NEW t, NEW r, Checked(r), Busy(t) => r = reqs[t],
           NEW auth \in Auths, NEW len \in Lens, NEW end \in BOOLEAN,
           Chunk(t, r, auth, len, end), UNCHANGED crashes
    PROVE  StoreOK' /\ RequestsOK' /\ TmpFilesOwned'
<1> DEFINE w == Written(r, auth, len)
<1>1. CASE ~Accepts(r, auth, len)
  <2>1. Refuse(t)
    BY <1>1 DEF Chunk
  <2>2. QED
    BY <2>1, StoreFrame, ForgetKeeps DEF Refuse
<1>2. CASE Accepts(r, auth, len) /\ end
  <2>1. Checked(w)
    BY <1>2, WrittenChecked
  <2>2. Finish(t, w)
    BY <1>2 DEF Chunk
  <2>3. Forget(t)
    BY <2>2 DEF Finish, Commit, CommitHalf, Refuse
  <2>4. StoreOK'
    BY <2>1, <2>2, CommitKeepsStore, CommitHalfKeepsStore, StoreFrame
       DEF Finish, Refuse
  <2>5. QED
    BY <2>3, <2>4, ForgetKeeps
<1>3. CASE Accepts(r, auth, len) /\ ~end
  <2>1. Checked(w) /\ w.slot = r.slot
    BY <1>3, WrittenChecked DEF Written, Checked, ReqRecs
  <2>2. /\ reqs' = [u \in DOMAIN reqs \cup {t} |-> IF u = t THEN w ELSE reqs[u]]
        /\ tmps' = tmps \cup {<<r.slot, t>>}
        /\ UNCHANGED <<keyed, files, db, acked, torn>>
    BY <1>3 DEF Chunk
  <2>3. StoreOK'
    BY <2>2, StoreFrame
  <2>4. \A u \in DOMAIN reqs' : reqs'[u] = w \/ (u \in DOMAIN reqs /\ reqs'[u] = reqs[u])
    BY <2>2
  <2>5. RequestsOK'
    BY <2>1, <2>4 DEF RequestsOK, Checked, Allowed, Intact
  <2>6. ASSUME crashes = 0
        PROVE  tmps' = {<<reqs'[u].slot, u>> : u \in DOMAIN reqs'}
    <3>1. tmps = {<<reqs[u].slot, u>> : u \in DOMAIN reqs}
      BY <2>6 DEF TmpFilesOwned
    <3>2. /\ DOMAIN reqs' = DOMAIN reqs \cup {t}
          /\ reqs'[t].slot = r.slot
          /\ \A u \in DOMAIN reqs : reqs'[u].slot = reqs[u].slot
      BY <2>1, <2>2 DEF Busy
    <3>3. QED
      BY <2>2, <3>1, <3>2
  <2>7. QED
    BY <2>3, <2>5, <2>6 DEF TmpFilesOwned
<1>4. QED
  BY <1>1, <1>2, <1>3

\* The first message.
LEMMA StartKeeps ==
    ASSUME IInv, NEW t \in Tokens, NEW auth \in Auths, NEW s \in Slots,
           NEW siglen \in SigLens, NEW c \in Contents, NEW len \in Lens, NEW end \in BOOLEAN,
           Start(t, auth, s, siglen, c, len, end)
    PROVE  IInv'
<1> DEFINE r == [id |-> uploads + 1, slot |-> s, auth |-> auth, siglen |-> siglen,
                 written |-> 0, sig |-> 0, pol |-> 0, by |-> {}, split |-> FALSE,
                 scoped |-> c.scoped, good |-> c.good]
<1>1. CountersOK' /\ UNCHANGED crashes /\ ~Busy(t)
  BY DEF Start, IInv, CountersOK
<1>2. CASE ~Allowed(auth, s) \/ (s \in keyed /\ siglen = 0)
  <2>1. Refuse(t)
    BY <1>2 DEF Start
  <2>2. QED
    BY <1>1, <2>1, StoreFrame, ForgetKeeps DEF Refuse, IInv
<1>3. CASE /\ ~(~Allowed(auth, s) \/ (s \in keyed /\ siglen = 0))
           /\ <<s, t>> \in tmps
  <2>1. tmps' = tmps \ {<<s, t>>} /\ UNCHANGED <<keyed, reqs, files, db, acked, torn>>
    BY <1>3 DEF Start
  <2>2. StoreOK' /\ RequestsOK'
    BY <2>1, StoreFrame DEF IInv, RequestsOK, Checked, Allowed, Intact
  <2>3. crashes # 0
    BY <1>1, <1>3 DEF IInv, TmpFilesOwned, Busy
  <2>4. QED
    BY <1>1, <2>2, <2>3 DEF IInv, TmpFilesOwned
<1>4. CASE /\ ~(~Allowed(auth, s) \/ (s \in keyed /\ siglen = 0))
           /\ <<s, t>> \notin tmps
  <2>1. Chunk(t, r, auth, len, end)
    BY <1>4 DEF Start
  <2>2. siglen \in Nat /\ c.scoped \in BOOLEAN /\ c.good \in BOOLEAN
    BY StoreAssumption
  <2>3. r \in ReqRecs
    BY <2>2 DEF IInv, CountersOK, ReqRecs
  <2>4. Checked(r)
    BY <1>4, <2>2, <2>3 DEF Checked, Intact
  <2>5. QED
    BY <1>1, <2>1, <2>4, ChunkKeeps DEF IInv
<1>5. QED
  BY <1>2, <1>3, <1>4

\* A crash between the renames of the last message, or after them.
LEMMA CrashInEndKeeps ==
    ASSUME IInv, NEW t \in Tokens, NEW len \in Lens, CrashInEnd(t, len)
    PROVE  IInv'
<1> DEFINE w == Written(reqs[t], reqs[t].auth, len)
<1>1. Checked(reqs[t]) /\ reqs[t].auth \in Auths
  BY DEF IInv, CrashInEnd, RequestsOK, Busy, Checked, ReqRecs
<1>2. Checked(w)
  BY <1>1, WrittenChecked DEF CrashInEnd
<1>3. /\ w.slot \in Slots /\ w.id \in Nat \ {0}
      /\ \A a \in w.by : Allowed(a, w.slot)
  BY <1>2 DEF Checked, ReqRecs
<1>4. /\ files' \in [Slots -> [pol : FileRecs, sig : Nat]]
      /\ \A s \in Slots \ {w.slot} : files'[s] = files[s]
      /\ files'[w.slot].pol.id = w.id /\ files'[w.slot].pol.by = w.by
      /\ files'[w.slot].pol.intact \/ files'[w.slot].pol.split
      /\ \/ /\ torn' = torn \ {w.slot}
            /\ w.slot \in keyed /\ files'[w.slot].pol.checked =>
                  files'[w.slot].sig = w.id
         \/ torn' = torn \cup {w.slot}
  <2>1. /\ Content(w).id = w.id /\ Content(w).by = w.by
        /\ Content(w).intact \/ Content(w).split
        /\ Content(w).checked = (w.slot \in keyed => w.siglen > 0)
    BY <1>2, ContentTyped
  <2>2. StoreOK /\ Verified(w)
    BY DEF CrashInEnd, IInv
  <2>3. CASE RenameBoth(w) /\ torn' = torn \ {w.slot}
    <3> HIDE DEF w
    <3> QED
      BY <1>2, <2>1, <2>2, <2>3, RenameBothSlot
  <2>4. CASE RenamePolicy(w) /\ torn' = torn \cup {w.slot}
    <3> HIDE DEF w
    <3> QED
      BY <1>2, <2>1, <2>2, <2>4, RenamePolicySlot
  <2>5. QED
    BY <2>3, <2>4 DEF CrashInEnd
<1>5. \A s \in Slots \ torn' :
        s \in keyed /\ acked[s] # NoUpload /\ files'[s].pol.checked =>
            files'[s].pol.id = files'[s].sig
  BY <1>3, <1>4 DEF IInv, StoreOK, SigCurrent
<1>6. AuthorsAllowed' /\ StoredIntact'
  BY <1>3, <1>4 DEF IInv, StoreOK, AuthorsAllowed, StoredIntact, Allowed
<1>7. \A s \in Slots : acked[s] # NoUpload => files'[s].pol.id # NoUpload
  BY <1>3, <1>4 DEF IInv, StoreOK, Kept, NoUpload
<1>8. /\ LoadAll(files') /\ UNCHANGED uploads
      /\ reqs' = <<>> /\ crashes' = crashes + 1
  BY DEF CrashInEnd, Restart
<1>9. acked \in [Slots -> Nat]
  BY DEF IInv, StoreOK
<1>10. StoreOK'
  BY <1>4, <1>5, <1>6, <1>7, <1>8, <1>9, LoadingAgrees
<1>11. RequestsOK' /\ CountersOK' /\ TmpFilesOwned'
  BY <1>8 DEF IInv, RequestsOK, CountersOK, TmpFilesOwned
<1>12. QED
  BY <1>10, <1>11 DEF IInv

\* SIGHUP and a crash between two messages: the disk stays and is loaded.
LEMMA ReloadKeepsStore ==
    ASSUME StoreOK, LoadAll(files), UNCHANGED <<files, torn>>
    PROVE  StoreOK'
<1>1. /\ files' \in [Slots -> [pol : FileRecs, sig : Nat]]
      /\ acked \in [Slots -> Nat] /\ LoadAll(files')
  BY DEF StoreOK, LoadAll
<1>2. AuthorsAllowed' /\ StoredIntact'
  BY DEF StoreOK, AuthorsAllowed, StoredIntact, Allowed
<1>3. /\ \A s \in Slots : acked[s] # NoUpload => files'[s].pol.id # NoUpload
      /\ \A s \in Slots \ torn' :
            s \in keyed /\ acked[s] # NoUpload /\ files'[s].pol.checked =>
                files'[s].pol.id = files'[s].sig
  BY DEF StoreOK, Kept, SigCurrent
<1>4. QED
  BY <1>1, <1>2, <1>3, LoadingAgrees

\* The invariant holds at all times.
THEOREM StoreInvariance == Spec => []IInv
<1>1. Init => IInv
  <2> SUFFICES ASSUME Init PROVE IInv
    OBVIOUS
  <2>1. files \in [Slots -> [pol : FileRecs, sig : Nat]]
    BY DEF Init, FileRecs, NoFile, NoUpload
  <2>2. db \in [Slots -> RuleRecs] /\ acked \in [Slots -> Nat]
    BY DEF Init, NoUpload, NoRules, RuleRecs
  <2>3. DbIsDisk /\ SigCurrent /\ Kept /\ AuthorsAllowed /\ StoredIntact
    BY DEF Init, DbIsDisk, SigCurrent, Kept, AuthorsAllowed, StoredIntact, Load, NoFile,
           NoRules, NoUpload
  <2>4. RequestsOK /\ CountersOK /\ TmpFilesOwned
    BY DEF Init, RequestsOK, CountersOK, TmpFilesOwned
  <2>5. QED
    BY <2>1, <2>2, <2>3, <2>4 DEF IInv, StoreOK
<1>2. IInv /\ [Next]_vars => IInv'
  <2> SUFFICES ASSUME IInv, [Next]_vars PROVE IInv'
    OBVIOUS
  <2>1. ASSUME NEW t \in Tokens, NEW a \in Auths, NEW len \in Lens, NEW end \in BOOLEAN,
               NEW s \in Slots, NEW n \in SigLens, NEW c \in Contents,
               Start(t, a, s, n, c, len, end)
        PROVE  IInv'
    BY <2>1, StartKeeps
  <2>2. ASSUME NEW t \in Tokens, NEW a \in Auths, NEW len \in Lens, NEW end \in BOOLEAN,
               Continue(t, a, len, end)
        PROVE  IInv'
    <3>1. /\ Busy(t) /\ Chunk(t, reqs[t], a, len, end)
          /\ UNCHANGED uploads /\ UNCHANGED crashes
      BY <2>2 DEF Continue
    <3>2. Checked(reqs[t])
      BY <3>1 DEF IInv, RequestsOK, Busy
    <3>3. QED
      BY <3>1, <3>2, ChunkKeeps DEF IInv, CountersOK
  <2>3. ASSUME NEW t \in Tokens, Abort(t) PROVE IInv'
    <3>1. Refuse(t) /\ UNCHANGED uploads /\ UNCHANGED crashes
      BY <2>3 DEF Abort
    <3>2. QED
      BY <3>1, StoreFrame, ForgetKeeps DEF Refuse, IInv, CountersOK
  <2>4. ASSUME NEW t \in Tokens, NEW len \in Lens, CrashInEnd(t, len) PROVE IInv'
    BY <2>4, CrashInEndKeeps
  <2>5. CASE Reconfigure
    <3>1. StoreOK'
      BY <2>5, ReloadKeepsStore DEF Reconfigure, IInv
    <3>2. RequestsOK' /\ CountersOK' /\ TmpFilesOwned'
      BY <2>5 DEF Reconfigure, IInv, RequestsOK, CountersOK, TmpFilesOwned, Checked, Allowed, Intact
    <3>3. QED
      BY <3>1, <3>2 DEF IInv
  <2>6. CASE Crash
    <3>1. StoreOK'
      BY <2>6, ReloadKeepsStore DEF Crash, Restart, IInv
    <3>2. RequestsOK' /\ CountersOK' /\ TmpFilesOwned'
      BY <2>6 DEF Crash, Restart, IInv, RequestsOK, CountersOK, TmpFilesOwned
    <3>3. QED
      BY <3>1, <3>2 DEF IInv
  <2>7. CASE UNCHANGED vars
    <3>1. StoreOK'
      BY <2>7, StoreFrame DEF vars, IInv
    <3>2. RequestsOK' /\ CountersOK' /\ TmpFilesOwned'
      BY <2>7 DEF vars, IInv, RequestsOK, CountersOK, TmpFilesOwned, Checked, Allowed, Intact
    <3>3. QED
      BY <3>1, <3>2 DEF IInv
  <2>8. QED
    BY <2>1, <2>2, <2>3, <2>4, <2>5, <2>6, <2>7 DEF Next
<1>3. QED
  BY <1>1, <1>2, PTL DEF Spec

-----------------------------------------------------------------------------
(* The properties                                                          *)

\* The rules in force are those of the policy on disk, with or without the ones
\* that have a scope: unless a rename failed or a certificate came in the middle
\* of an upload, a restart or a SIGHUP takes the scoped rules and no other.
THEOREM DatabaseIsDisk == Spec => []DbIsDisk
<1>1. IInv => DbIsDisk
  BY DEF IInv, StoreOK
<1>2. QED
  BY <1>1, StoreInvariance, PTL

\* A policy that was acknowledged is never lost to a crash, a failed upload or
\* a reload, unless its new signature did not make it to disk or a certificate
\* that came in the meantime asks for one it does not have.
THEOREM PolicyNeverLost == Spec => []NeverUnprotected
<1>1. IInv => NeverUnprotected
  <2> SUFFICES ASSUME IInv, NEW s \in Slots, acked[s] # NoUpload,
                      s \in keyed => s \notin torn /\ files[s].pol.checked
               PROVE  db[s].id # NoUpload /\ Load(files, keyed, s).id # NoUpload
    BY DEF NeverUnprotected
  <2>1. files[s].pol.id # NoUpload
    BY DEF IInv, StoreOK, Kept
  <2>2. CASE s \in keyed
    <3>1. files[s].pol.id = files[s].sig /\ db[s].id = Load(files, keyed, s).id
      BY <2>2 DEF IInv, StoreOK, SigCurrent, DbIsDisk
    <3>2. QED
      BY <2>1, <3>1 DEF Load
  <2>3. CASE s \notin keyed
    BY <2>1, <2>3 DEF IInv, StoreOK, Kept, Load
  <2>4. QED
    BY <2>2, <2>3
<1>2. QED
  BY <1>1, StoreInvariance, PTL

\* Every policy on disk was sent by its owner or by root.
THEOREM OnlyAuthors == Spec => []AuthorsAllowed
<1>1. IInv => AuthorsAllowed
  BY DEF IInv, StoreOK
<1>2. QED
  BY <1>1, StoreInvariance, PTL

\* pe_dispatch_policy: what is stored is what was sent after the signature,
\* however the policy was cut into chunks, unless the signature itself was cut.
THEOREM AlwaysStoredIntact == Spec => []StoredIntact
<1>1. IInv => StoredIntact
  BY DEF IInv, StoreOK
<1>2. QED
  BY <1>1, StoreInvariance, PTL

\* Without a crash, no request leaves a temporary file behind.
THEOREM NoStrayFiles == Spec => []TmpFilesOwned
<1>1. IInv => TmpFilesOwned
  BY DEF IInv
<1>2. QED
  BY <1>1, StoreInvariance, PTL
=============================================================================
