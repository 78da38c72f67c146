----------------------------- MODULE DataProofs -----------------------------
(***************************************************************************)
(* Proofs about TrainingData, for any folders, files and number of steps:  *)
(* FilesAgree.                                                             *)
(*                                                                         *)
(* The rows are right at rest because as long as nothing collided one call *)
(* at most is on its way, and each kind of call knows something of the     *)
(* rows it will leave (Fits): a list, that it is of the folder shown; a    *)
(* refused change, that the rows it puts back are right.  A flag is on     *)
(* because of a call that turns it off, whatever else is on its way        *)
(* (Covered, Flagged).                                                     *)
(***************************************************************************)
EXTENDS TrainingData, PositionTheorems

StoreFields == {"route", "item", "loading", "items", "total", "rows", "count", "filter",
                "filesLoading"}
PaneFields == {"no", "chosen", "renaming", "edits", "form", "file", "upload", "busy"}
CallFields == {"kind", "folder", "files", "failed", "back", "filter", "value", "then", "pane"}
FileFields == {"home", "name", "on"}

\* What the store, the view, the calls and the service are.
StoreShape(s) == DOMAIN s = StoreFields /\ IsSeq(s.rows)
PaneShape(p) == DOMAIN p = PaneFields /\ p.busy \subseteq {"add", "edit"}
CallShape(c) == DOMAIN c = CallFields /\ IsSeq(c.back)
CallsShape(q) == IsSeq(q) /\ \A k \in 1..Len(q) : CallShape(q[k])
DiskShape(d) == DOMAIN d = FileNumbers /\ \A i \in FileNumbers : DOMAIN d[i] = FileFields

DataShape ==
  /\ StoreShape(store) /\ PaneShape(pane) /\ CallsShape(pending) /\ DiskShape(disk)

\* Rows of a folder as the service has them.
Agrees(rows, folder, d) ==
  \A k \in 1..Len(rows) :
    /\ rows[k].id \in FileNumbers /\ d[rows[k].id].home = folder
    /\ rows[k] = [id |-> rows[k].id, name |-> d[rows[k].id].name, on |-> d[rows[k].id].on]

Right(s, d) == s.route = NoFolder \/ Agrees(s.rows, s.item, d)

\* The rows of a change that was shown at once, and what its refusal puts back.
PatchFits(c, s, d) ==
  /\ Agrees(c.back, s.item, d)
  /\ s.rows = changed(c.back, c.value)
  /\ \E k \in 1..Len(c.back) :
       \/ c.then = "name" /\ \E name : c.value = [c.back[k] EXCEPT !.name = name]
       \/ c.then = "on" /\ \E on : c.value = [c.back[k] EXCEPT !.on = on]

\* A call that is on its way alone.
Fits(c, s, d) ==
  /\ c.kind \in {"detail", "users", "list", "add", "update", "delete", "sync", "item",
                 "folder", "patch", "items", "create"}
  /\ c.kind = "detail" => Len(s.rows) = 0
  /\ c.kind \in {"items", "create"} => s.route = NoFolder
  /\ c.kind \in {"users", "list", "add", "update", "delete", "sync", "item", "folder"} =>
       c.folder = s.item
  /\ c.kind \in {"add", "update", "sync", "item", "folder"} => Right(s, d)
  /\ c.kind = "delete" => ~c.failed
  /\ c.kind = "patch" => s.route = NoFolder \/ PatchFits(c, s, d)

Calm(q, s, d) ==
  \/ Len(q) = 0 /\ Right(s, d)
  \/ Len(q) = 1 /\ Fits(q[1], s, d)

\* The call that will turn a flag of the view off.
Tracks(c, flag, no) ==
  c.kind \in {"add", "update", "list"} /\ c.then = flag /\ c.pane = no

Covered(s, q) ==
  /\ s.loading => \E k \in 1..Len(q) : ClearsPage(q[k])
  /\ s.filesLoading => \E k \in 1..Len(q) : ClearsFiles(q[k])
Flagged(p, q) == \A flag \in p.busy : \E k \in 1..Len(q) : Tracks(q[k], flag, p.no)

EditsFit(p) == DOMAIN p.edits = IF p.renaming THEN IdsOf(p.chosen) ELSE {}

DataInv ==
  /\ DataShape
  /\ collided \/ Calm(pending, store, disk)
  /\ Covered(store, pending) /\ Flagged(pane, pending)
  /\ EditsFit(pane)

----------------------------------------------------------------------------
(* Calls that are taken off and put on.                                    *)

With(q, new) == q \o new
But(q, k, new) == SubSeq(q, 1, k - 1) \o SubSeq(q, k + 1, Len(q)) \o new

\* The calls on their way, with some more.
Extends(r, q, new) ==
  /\ CallsShape(r) /\ Len(r) = Len(q) + Len(new) /\ Len(q) \in Nat /\ Len(new) \in Nat
  /\ \A k \in 1..Len(q) : k \in 1..Len(r) /\ r[k] = q[k]
  /\ \A k \in 1..Len(new) : Len(q) + k \in 1..Len(r) /\ r[Len(q) + k] = new[k]

LEMMA CallsBegun ==
  ASSUME NEW q, CallsShape(q), NEW new, CallsShape(new), NEW r, r = With(q, new)
  PROVE  Extends(r, q, new)
<1>1. Len(q) \in Nat /\ Len(new) \in Nat
  BY Elements DEF CallsShape
<1>2. PICK m, n \in Nat : m = Len(q) /\ n = Len(new)
  BY <1>1
<1>3. PICK R : R = ToSet(q) \cup ToSet(new)
  OBVIOUS
<1>4. q \in Seq(R) /\ new \in Seq(R)
  <2>1. q \in Seq(ToSet(q)) /\ new \in Seq(ToSet(new))
    BY DEF CallsShape, IsSeq
  <2>2. DOMAIN q = 1..m /\ DOMAIN new = 1..n
    BY <1>2, Elements DEF CallsShape
  <2>3. (\A k \in 1..m : q[k] \in R) /\ \A k \in 1..n : new[k] \in R
    BY <1>2, <1>3, Elements DEF CallsShape
  <2> QED
    BY <2>1, <2>2, <2>3, <1>2
<1>5. r \in Seq(R) /\ Len(r) = m + n
  BY <1>2, <1>4 DEF With
<1>6. /\ \A k \in 1..m : r[k] = q[k]
      /\ \A k \in 1..n : r[m + k] = new[k]
  BY <1>2, <1>4 DEF With
<1>7. r = [k \in 1..(m + n) |-> r[k]]
  BY <1>5
<1>8. IsSeq(r)
  BY <1>2, <1>7, Listed
<1>9. \A k \in 1..(m + n) : CallShape(r[k])
  <2> TAKE k \in 1..(m + n)
  <2>1. CASE k \in 1..m
    BY <2>1, <1>2, <1>6 DEF CallsShape
  <2>2. CASE k \notin 1..m
    <3>1. k - m \in 1..n /\ k = m + (k - m)
      BY <2>2
    <3>2. r[k] = new[k - m]
      BY <3>1, <1>6
    <3> QED
      BY <3>1, <3>2, <1>2 DEF CallsShape
  <2> QED
    BY <2>1, <2>2
<1> QED
  BY <1>2, <1>5, <1>6, <1>8, <1>9 DEF CallsShape, Extends

\* The calls but one, with some more.
Replaces(r, q, k, new) ==
  /\ CallsShape(r) /\ Len(r) = Len(q) - 1 + Len(new) /\ Len(q) \in Nat /\ Len(new) \in Nat
  /\ \A i \in 1..Len(q) : i # k => \E j \in 1..Len(r) : r[j] = q[i]
  /\ \A i \in 1..Len(new) : \E j \in 1..Len(r) : r[j] = new[i]
  /\ Len(q) = 1 /\ Len(new) = 1 => r[1] = new[1]

LEMMA CallsEnded ==
  ASSUME NEW q, CallsShape(q), NEW k \in 1..Len(q), NEW new, CallsShape(new),
         NEW r, r = But(q, k, new)
  PROVE  Replaces(r, q, k, new)
<1>1. Len(q) \in Nat /\ q \in Seq(ToSet(q)) /\ \A i \in 1..Len(q) : q[i] \in ToSet(q)
  BY Elements DEF CallsShape, IsSeq
<1>2. PICK m \in Nat : m = Len(q)
  BY <1>1
<1>3. PICK a : a = SubSeq(q, 1, k - 1)
  OBVIOUS
<1>4. PICK b : b = SubSeq(q, k + 1, Len(q))
  OBVIOUS
<1>5. a \in Seq(ToSet(q)) /\ Len(a) = k - 1 /\ \A i \in 1..(k - 1) : a[i] = q[i]
  BY <1>1, <1>2, <1>3
<1>6. b \in Seq(ToSet(q)) /\ Len(b) = m - k /\ \A i \in 1..(m - k) : b[i] = q[k + i]
  BY <1>1, <1>2, <1>4
<1>7. PICK rest : rest = a \o b
  OBVIOUS
<1>8. /\ rest \in Seq(ToSet(q)) /\ Len(rest) = m - 1
      /\ \A i \in 1..(k - 1) : rest[i] = q[i]
      /\ \A i \in 1..(m - k) : rest[k - 1 + i] = q[k + i]
  BY <1>2, <1>5, <1>6, <1>7
<1>9. \A i \in 1..(m - 1) : \E j \in 1..m : rest[i] = q[j]
  <2> TAKE i \in 1..(m - 1)
  <2>1. CASE i \in 1..(k - 1)
    <3>1. i \in 1..m /\ rest[i] = q[i]
      BY <2>1, <1>2, <1>8
    <3> QED
      BY <3>1
  <2>2. CASE i \notin 1..(k - 1)
    <3>1. PICK l \in 1..(m - k) : i = k - 1 + l
      <4>1. i - (k - 1) \in 1..(m - k) /\ i = k - 1 + (i - (k - 1))
        BY <2>2, <1>2
      <4> QED
        BY <4>1
    <3>2. rest[i] = q[k + l]
      BY <3>1, <1>8
    <3>3. k + l \in 1..m
      BY <1>2
    <3> QED
      BY <3>2, <3>3
  <2> QED
    BY <2>1, <2>2
<1>10. \A i \in 1..m : i # k => \E j \in 1..(m - 1) : rest[j] = q[i]
  <2> SUFFICES ASSUME NEW i \in 1..m, i # k PROVE \E j \in 1..(m - 1) : rest[j] = q[i]
    OBVIOUS
  <2>1. CASE i < k
    <3>1. i \in 1..(k - 1) /\ i \in 1..(m - 1)
      BY <2>1, <1>2
    <3> QED
      BY <3>1, <1>8
  <2>2. CASE i > k
    <3>1. i - k \in 1..(m - k) /\ k - 1 + (i - k) \in 1..(m - 1) /\ k + (i - k) = i
      BY <2>2, <1>2
    <3> QED
      BY <3>1, <1>8
  <2> QED
    BY <2>1, <2>2, <1>2
<1>11. CallsShape(rest)
  <2>1. rest = [i \in 1..(m - 1) |-> rest[i]] /\ m - 1 \in Nat
    BY <1>2, <1>8
  <2>2. IsSeq(rest)
    BY <2>1, Listed
  <2>3. \A i \in 1..(m - 1) : CallShape(rest[i])
    BY <1>2, <1>9 DEF CallsShape
  <2> QED
    BY <2>2, <2>3, <1>8 DEF CallsShape
<1>12. r = With(rest, new)
  BY <1>3, <1>4, <1>7 DEF But, With
<1>13. PICK l \in Nat : l = m - 1 /\ l = Len(rest)
  BY <1>2, <1>8
<1>14. Extends(r, rest, new)
  BY <1>11, <1>12, CallsBegun
<1>15. \A i \in 1..m : i # k => \E j \in 1..Len(r) : r[j] = q[i]
  BY <1>10, <1>13, <1>14 DEF Extends
<1>16. m = 1 /\ Len(new) = 1 => r[1] = new[1]
  <2> SUFFICES ASSUME m = 1, Len(new) = 1 PROVE r[1] = new[1]
    OBVIOUS
  <2>1. l + 1 = 1 /\ 1 \in 1..Len(new)
    BY <1>13
  <2> QED
    BY <2>1, <1>13, <1>14 DEF Extends
<1>17. \A i \in 1..Len(new) : \E j \in 1..Len(r) : r[j] = new[i]
  BY <1>13, <1>14 DEF Extends
<1>18. CallsShape(r) /\ Len(r) = l + Len(new) /\ Len(new) \in Nat
  BY <1>13, <1>14 DEF Extends
<1> QED
  BY <1>2, <1>13, <1>15, <1>16, <1>17, <1>18 DEF Replaces

LEMMA OneCall ==
  ASSUME NEW c, CallShape(c), NEW new, new = <<c>>
  PROVE  CallsShape(new) /\ Len(new) = 1 /\ new[1] = c
<1>1. Len(new) = 1 /\ new[1] = c /\ new = [i \in 1..1 |-> new[i]]
  OBVIOUS
<1>2. IsSeq(new)
  BY <1>1, Listed
<1> QED
  BY <1>1, <1>2 DEF CallsShape

LEMMA NoCall ==
  ASSUME NEW new, new = <<>>
  PROVE  CallsShape(new) /\ Len(new) = 0
  BY EmptyListed DEF CallsShape

----------------------------------------------------------------------------
(* What a step leaves of the invariant.                                    *)

\* A step of the user: what it makes of the store and the view, and the calls it
\* begins.
Begins(s, p, new) ==
  /\ StoreShape(s) /\ PaneShape(p) /\ CallsShape(new) /\ EditsFit(p)
  /\ Len(new) = 0 => s.route = store.route /\ s.item = store.item /\ s.rows = store.rows
  /\ pending = <<>> /\ Len(new) = 1 /\ Right(store, disk) => Fits(new[1], s, disk)
  /\ s.loading => store.loading \/ \E k \in 1..Len(new) : ClearsPage(new[k])
  /\ s.filesLoading => store.filesLoading \/ \E k \in 1..Len(new) : ClearsFiles(new[k])
  /\ \A flag \in p.busy : \/ flag \in pane.busy /\ p.no = pane.no
                          \/ \E k \in 1..Len(new) : Tracks(new[k], flag, p.no)

LEMMA UserStep ==
  ASSUME DataInv, NEW s, NEW p, NEW new, Does(s, p, new), Begins(s, p, new)
  PROVE  DataInv'
<1>1. /\ store' = s /\ pane' = p /\ pending' = With(pending, new) /\ disk' = disk
      /\ collided' = (collided \/ (new # <<>> /\ pending # <<>>) \/ Len(new) > 1)
  BY DEF Does, With
<1>2. PICK q, r : q = pending /\ r = pending'
  OBVIOUS
<1>3. CallsShape(q) /\ CallsShape(new) /\ r = With(q, new)
  BY <1>1, <1>2 DEF DataInv, DataShape, Begins
<1>4. Extends(r, q, new)
  BY <1>3, CallsBegun
<1>5. PICK m, n \in Nat : m = Len(q) /\ n = Len(new) /\ Len(r) = m + n
  BY <1>4 DEF Extends
<1>6. CallsShape(r) /\ \A k \in 1..m : k \in 1..(m + n) /\ r[k] = q[k]
  BY <1>4, <1>5 DEF Extends
<1>7. \A k \in 1..n : m + k \in 1..(m + n) /\ r[m + k] = new[k]
  BY <1>4, <1>5 DEF Extends
<1>8. DataShape'
  BY <1>1, <1>2, <1>6 DEF DataInv, DataShape, Begins
<1>9. collided' \/ Calm(r, s, disk)
  <2> SUFFICES ASSUME ~collided' PROVE Calm(r, s, disk)
    OBVIOUS
  <2>1. ~collided /\ Calm(q, store, disk)
    BY <1>1, <1>2 DEF DataInv
  <2>2. CASE n = 0
    <3>1. s.route = store.route /\ s.item = store.item /\ s.rows = store.rows /\ Len(r) = m
      BY <2>2, <1>5 DEF Begins
    <3>2. m = 1 => r[1] = q[1]
      BY <1>6
    <3>3. /\ Right(store, disk) => Right(s, disk)
          /\ \A c : Fits(c, store, disk) => Fits(c, s, disk)
      BY <3>1 DEF Right, Fits, PatchFits
    <3> QED
      BY <2>1, <3>1, <3>2, <3>3, <1>5 DEF Calm
  <2>3. CASE n # 0
    <3>1. new # <<>> /\ n = 1
      <4>1. new # <<>>
        BY <2>3, <1>5, EmptyListed
      <4>2. ~(n > 1)
        BY <1>1, <1>5
      <4> QED
        BY <4>1, <4>2, <2>3
    <3>2. pending = <<>>
      BY <3>1, <1>1
    <3>3. m = 0
      BY <3>2, <1>2, <1>5, EmptyListed
    <3>4. Right(store, disk)
      BY <2>1, <3>3, <1>5 DEF Calm
    <3>5. Fits(new[1], s, disk)
      BY <3>1, <3>2, <3>4, <1>5 DEF Begins
    <3>6. r[1] = new[1] /\ Len(r) = 1
      <4>1. 1 \in 1..n /\ m + 1 = 1
        BY <3>1, <3>3
      <4> QED
        BY <4>1, <3>1, <3>3, <1>5, <1>7
    <3> QED
      BY <3>5, <3>6 DEF Calm
  <2> QED
    BY <2>2, <2>3
<1>10. \A k \in 1..m : \E l \in 1..Len(r) : r[l] = q[k]
  BY <1>5, <1>6
<1>11. \A k \in 1..n : \E l \in 1..Len(r) : r[l] = new[k]
  BY <1>5, <1>7
<1>12. Covered(s, r)
  <2>1. Covered(store, q)
    BY <1>2 DEF DataInv
  <2>2. s.loading => \E k \in 1..Len(r) : ClearsPage(r[k])
    BY <2>1, <1>5, <1>10, <1>11 DEF Covered, Begins
  <2>3. s.filesLoading => \E k \in 1..Len(r) : ClearsFiles(r[k])
    BY <2>1, <1>5, <1>10, <1>11 DEF Covered, Begins
  <2> QED
    BY <2>2, <2>3 DEF Covered
<1>13. Flagged(p, r)
  <2>1. Flagged(pane, q)
    BY <1>2 DEF DataInv
  <2> QED
    BY <2>1, <1>5, <1>10, <1>11 DEF Flagged, Begins
<1> QED
  BY <1>1, <1>2, <1>8, <1>9, <1>12, <1>13 DEF DataInv, Begins

\* An answer to a call, and the calls that follow.
Settles(c, s, p, new) ==
  /\ StoreShape(s) /\ PaneShape(p) /\ CallsShape(new) /\ EditsFit(p)
  /\ Len(new) \in {0, 1}
  /\ ~collided' /\ Fits(c, store, disk) =>
       IF Len(new) = 0 THEN Right(s, disk') ELSE Fits(new[1], s, disk')
  /\ s.loading => \/ store.loading /\ ~ClearsPage(c)
                  \/ \E k \in 1..Len(new) : ClearsPage(new[k])
  /\ s.filesLoading => \/ store.filesLoading /\ ~ClearsFiles(c)
                       \/ \E k \in 1..Len(new) : ClearsFiles(new[k])
  /\ \A flag \in p.busy : \/ flag \in pane.busy /\ p.no = pane.no /\ ~Tracks(c, flag, p.no)
                          \/ \E k \in 1..Len(new) : Tracks(new[k], flag, p.no)

LEMMA AnswerStep ==
  ASSUME DataInv, NEW k \in 1..Len(pending), NEW c, c = pending[k],
         NEW s, NEW p, NEW new, NEW bad, CallEnds(k, s, p, new, bad),
         Settles(c, s, p, new), DiskShape(disk')
  PROVE  DataInv'
<1>1. /\ store' = s /\ pane' = p /\ pending' = But(pending, k, new)
      /\ collided \/ bad => collided'
  BY DEF CallEnds, Rest, But
<1>2. PICK q, r : q = pending /\ r = pending'
  OBVIOUS
<1>3. CallsShape(q) /\ CallsShape(new) /\ r = But(q, k, new) /\ k \in 1..Len(q) /\ c = q[k]
  BY <1>1, <1>2 DEF DataInv, DataShape, Settles
<1>4. Replaces(r, q, k, new)
  BY <1>3, CallsEnded
<1>5. PICK m, n \in Nat : /\ m = Len(q) /\ n = Len(new) /\ Len(r) = m - 1 + n
                          /\ m = 1 => Len(r) = n
  <2>1. PICK m, n \in Nat : m = Len(q) /\ n = Len(new) /\ Len(r) = m - 1 + n
    BY <1>4 DEF Replaces
  <2>2. m = 1 => m - 1 + n = n
    OBVIOUS
  <2> QED
    BY <2>1, <2>2
<1>6. CallsShape(r) /\ \A i \in 1..m : i # k => \E j \in 1..Len(r) : r[j] = q[i]
  BY <1>4, <1>5 DEF Replaces
<1>7. \A i \in 1..n : \E j \in 1..Len(r) : r[j] = new[i]
  BY <1>4, <1>5 DEF Replaces
<1>8. DataShape'
  BY <1>1, <1>2, <1>6 DEF DataInv, DataShape, Settles
<1>9. collided' \/ Calm(r, s, disk')
  <2> SUFFICES ASSUME ~collided' PROVE Calm(r, s, disk')
    OBVIOUS
  <2>1. ~collided /\ Calm(q, store, disk)
    BY <1>1, <1>2 DEF DataInv
  <2>2. m = 1 /\ Fits(q[1], store, disk)
    BY <2>1, <1>3, <1>5 DEF Calm
  <2>3. k = 1 /\ Fits(c, store, disk)
    <3>1. k = 1
      <4>1. k \in 1..m
        BY <1>3, <1>5
      <4> QED
        BY <4>1, <2>2
    <3> QED
      BY <3>1, <2>2, <1>3
  <2>4. IF n = 0 THEN Right(s, disk') ELSE Fits(new[1], s, disk')
    BY <2>3, <1>5 DEF Settles
  <2>5. n \in {0, 1} /\ Len(r) = n
    <3>1. n \in {0, 1}
      BY <1>5 DEF Settles
    <3>2. m = 1
      BY <2>2
    <3>3. Len(r) = n
      BY <3>2, <1>5
    <3> QED
      BY <3>1, <3>3
  <2>6. n = 1 => r[1] = new[1]
    BY <2>2, <1>4, <1>5 DEF Replaces
  <2> QED
    BY <2>4, <2>5, <2>6 DEF Calm
<1>10. Covered(s, r)
  <2>1. Covered(store, q)
    BY <1>2 DEF DataInv
  <2>2. s.loading => \E i \in 1..Len(r) : ClearsPage(r[i])
    <3>1. CASE store.loading /\ ~ClearsPage(c)
      <4>1. PICK i \in 1..m : ClearsPage(q[i])
        BY <2>1, <3>1, <1>5 DEF Covered
      <4> QED
        BY <3>1, <4>1, <1>3, <1>6
    <3>2. CASE \E i \in 1..n : ClearsPage(new[i])
      BY <3>2, <1>7
    <3> QED
      BY <3>1, <3>2, <1>5 DEF Settles
  <2>3. s.filesLoading => \E i \in 1..Len(r) : ClearsFiles(r[i])
    <3>1. CASE store.filesLoading /\ ~ClearsFiles(c)
      <4>1. PICK i \in 1..m : ClearsFiles(q[i])
        BY <2>1, <3>1, <1>5 DEF Covered
      <4> QED
        BY <3>1, <4>1, <1>3, <1>6
    <3>2. CASE \E i \in 1..n : ClearsFiles(new[i])
      BY <3>2, <1>7
    <3> QED
      BY <3>1, <3>2, <1>5 DEF Settles
  <2> QED
    BY <2>2, <2>3 DEF Covered
<1>11. Flagged(p, r)
  <2> SUFFICES ASSUME NEW flag \in p.busy PROVE \E i \in 1..Len(r) : Tracks(r[i], flag, p.no)
    BY DEF Flagged
  <2>1. CASE flag \in pane.busy /\ p.no = pane.no /\ ~Tracks(c, flag, p.no)
    <3>1. PICK i \in 1..m : Tracks(q[i], flag, p.no)
      BY <2>1, <1>2, <1>5 DEF DataInv, Flagged
    <3> QED
      BY <2>1, <3>1, <1>3, <1>6
  <2>2. CASE \E i \in 1..n : Tracks(new[i], flag, p.no)
    BY <2>2, <1>7
  <2> QED
    BY <2>1, <2>2, <1>5 DEF Settles
<1> QED
  BY <1>1, <1>2, <1>8, <1>9, <1>10, <1>11 DEF DataInv, Settles

----------------------------------------------------------------------------
(* What the user does.                                                     *)

LEMMA ViewStep ==
  ASSUME DataInv, NEW p, Does(store, p, <<>>), PaneShape(p), EditsFit(p),
         p.busy = pane.busy, p.no = pane.no
  PROVE  DataInv'
<1>1. PICK new : new = <<>>
  OBVIOUS
<1>2. CallsShape(new) /\ Len(new) = 0
  BY <1>1, NoCall
<1>3. Does(store, p, new)
  BY <1>1
<1>4. Begins(store, p, new)
  BY <1>2 DEF Begins, DataInv, DataShape
<1> QED
  BY <1>3, <1>4, UserStep

\* A step that begins a call; the view is the same, or a new one.
LEMMA CallStep ==
  ASSUME DataInv, NEW s, NEW p, NEW c, Does(s, p, <<c>>),
         StoreShape(s), PaneShape(p), CallShape(c), EditsFit(p),
         Right(store, disk) => Fits(c, s, disk),
         s.loading => store.loading \/ ClearsPage(c),
         s.filesLoading => store.filesLoading \/ ClearsFiles(c),
         \A flag \in p.busy : \/ flag \in pane.busy /\ p.no = pane.no
                              \/ Tracks(c, flag, p.no)
  PROVE  DataInv'
<1>1. PICK new : new = <<c>>
  OBVIOUS
<1>2. CallsShape(new) /\ Len(new) = 1 /\ new[1] = c
  BY <1>1, OneCall
<1>3. Does(s, p, new)
  BY <1>1
<1>4. 1 \in 1..Len(new)
  BY <1>2
<1>5. Begins(s, p, new)
  BY <1>2, <1>4 DEF Begins
<1> QED
  BY <1>3, <1>5, UserStep

LEMMA PlainCall ==
  ASSUME NEW kind, NEW folder, NEW c, c = Call(kind, folder)
  PROVE  /\ CallShape(c) /\ c.kind = kind /\ c.folder = folder /\ ~c.failed
         /\ c.then = "none" /\ c.pane = 0
<1>1. DOMAIN c = CallFields /\ c.back = <<>>
  BY DEF Call, CallFields
<1> QED
  BY <1>1, EmptyListed DEF Call, CallShape

LEMMA NewView ==
  ASSUME NEW no, NEW p, p = pristine(no)
  PROVE  PaneShape(p) /\ EditsFit(p) /\ p.busy = {}
<1>1. DOMAIN p = PaneFields /\ p.edits = <<>> /\ ~p.renaming /\ p.busy = {}
  BY DEF pristine, PaneFields
<1>2. DOMAIN p.edits = {}
  BY <1>1, EmptyListed
<1> QED
  BY <1>1, <1>2 DEF PaneShape, EditsFit

LEMMA BusyView ==
  ASSUME DataInv, NEW s, NEW p, p = paneAfter(s)
  PROVE  PaneShape(p) /\ EditsFit(p) /\ (p.busy = {} \/ p = pane)
<1>1. CASE p = pane
  BY <1>1 DEF DataInv, DataShape
<1>2. CASE p = pristine(pane.no + 1)
  BY <1>2, NewView
<1> QED
  BY <1>1, <1>2 DEF paneAfter

LEMMA DetailLoads ==
  ASSUME DataInv, NEW f, loadDetail(f)
  PROVE  DataInv'
<1>1. PICK s : s = [busyPage(store) EXCEPT !.route = f, !.filter = AllFiles, !.rows = <<>>,
                                           !.count = 0]
  OBVIOUS
<1>2. PICK p : p = pristine(pane.no + 1)
  OBVIOUS
<1>3. PICK c : c = Call("detail", f)
  OBVIOUS
<1>4. Does(s, p, <<c>>)
  BY <1>1, <1>2, <1>3 DEF loadDetail
<1>5. StoreShape(s) /\ Len(s.rows) = 0 /\ s.filesLoading = store.filesLoading
  <2>1. DOMAIN s = StoreFields /\ s.rows = <<>> /\ s.filesLoading = store.filesLoading
    BY <1>1 DEF busyPage, DataInv, DataShape, StoreShape, StoreFields
  <2> QED
    BY <2>1, EmptyListed DEF StoreShape
<1>6. PaneShape(p) /\ EditsFit(p) /\ p.busy = {}
  BY <1>2, NewView
<1>7. CallShape(c) /\ c.kind = "detail"
  BY <1>3, PlainCall
<1>8. Fits(c, s, disk) /\ ClearsPage(c)
  BY <1>5, <1>7 DEF Fits, ClearsPage
<1> QED
  BY <1>4, <1>5, <1>6, <1>7, <1>8, CallStep

LEMMA FoldersLoad ==
  ASSUME DataInv, load
  PROVE  DataInv'
<1>1. PICK s : s = [busyPage(store) EXCEPT !.route = NoFolder]
  OBVIOUS
<1>2. PICK p : p = pristine(pane.no + 1)
  OBVIOUS
<1>3. PICK c : c = Call("items", NoFolder)
  OBVIOUS
<1>4. Does(s, p, <<c>>)
  BY <1>1, <1>2, <1>3 DEF load
<1>5. StoreShape(s) /\ s.route = NoFolder /\ s.filesLoading = store.filesLoading
  BY <1>1 DEF busyPage, DataInv, DataShape, StoreShape, StoreFields
<1>6. PaneShape(p) /\ EditsFit(p) /\ p.busy = {}
  BY <1>2, NewView
<1>7. CallShape(c) /\ c.kind = "items"
  BY <1>3, PlainCall
<1>8. Fits(c, s, disk) /\ ClearsPage(c)
  BY <1>5, <1>7 DEF Fits, ClearsPage
<1> QED
  BY <1>4, <1>5, <1>6, <1>7, <1>8, CallStep

LEMMA FilesTurned ==
  ASSUME DataInv, updateFilesFilter
  PROVE  DataInv'
<1>1. PICK f : LET s == [store EXCEPT !.filter = f, !.filesLoading = TRUE]
               IN  Does(s, pane, <<loadFilesInternal(store.item, s, "none", 0)>>)
  BY DEF updateFilesFilter
<1>2. PICK s : s = [store EXCEPT !.filter = f, !.filesLoading = TRUE]
  OBVIOUS
<1>3. PICK c : c = loadFilesInternal(store.item, s, "none", 0)
  OBVIOUS
<1>4. Does(s, pane, <<c>>)
  BY <1>1, <1>2, <1>3
<1>5. /\ StoreShape(s) /\ s.item = store.item /\ s.loading = store.loading
  BY <1>2 DEF DataInv, DataShape, StoreShape, StoreFields
<1>6. CallShape(c) /\ c.kind = "list" /\ c.folder = store.item
  <2>1. PICK b : b = Call("list", store.item)
    OBVIOUS
  <2>2. CallShape(b) /\ b.kind = "list" /\ b.folder = store.item
    BY <2>1, PlainCall
  <2>3. c = [b EXCEPT !.filter = s.filter, !.then = "none", !.pane = 0]
    BY <1>3, <2>1 DEF loadFilesInternal
  <2> QED
    BY <2>2, <2>3 DEF CallShape, CallFields
<1>7. Fits(c, s, disk) /\ ClearsFiles(c)
  BY <1>5, <1>6 DEF Fits, ClearsFiles
<1> QED
  BY <1>4, <1>5, <1>6, <1>7, CallStep DEF DataInv, DataShape

\* The view without its selection.
LEMMA Unselected ==
  ASSUME NEW p, PaneShape(p), NEW s, s = deselected(p)
  PROVE  PaneShape(s) /\ EditsFit(s) /\ s.busy = p.busy /\ s.no = p.no
<1>1. /\ DOMAIN s = PaneFields /\ s.edits = <<>> /\ ~s.renaming
      /\ s.busy = p.busy /\ s.no = p.no
  BY DEF deselected, PaneShape, PaneFields
<1>2. DOMAIN s.edits = {}
  BY <1>1, EmptyListed
<1> QED
  BY <1>1, <1>2 DEF PaneShape, EditsFit

LEMMA Selected ==
  ASSUME NEW p, PaneShape(p), EditsFit(p), NEW rows, NEW s, s = withChosen(p, rows)
  PROVE  PaneShape(s) /\ EditsFit(s) /\ s.busy = p.busy /\ s.no = p.no
<1>1. /\ DOMAIN s = PaneFields /\ s.busy = p.busy /\ s.no = p.no
      /\ s.chosen = rows /\ s.renaming = p.renaming
      /\ s.edits = IF p.renaming THEN namesOf(rows) ELSE p.edits
  BY DEF withChosen, PaneShape, PaneFields
<1>2. DOMAIN s.edits = IF p.renaming THEN IdsOf(rows) ELSE {}
  BY <1>1 DEF namesOf, EditsFit
<1> QED
  BY <1>1, <1>2 DEF PaneShape, EditsFit

LEMMA Renamed ==
  ASSUME NEW p, PaneShape(p), NEW rows, NEW s, s = renaming(p, rows)
  PROVE  PaneShape(s) /\ EditsFit(s) /\ s.busy = p.busy /\ s.no = p.no
<1>1. /\ DOMAIN s = PaneFields /\ s.busy = p.busy /\ s.no = p.no
      /\ s.chosen = rows /\ s.renaming /\ s.edits = namesOf(rows)
  BY DEF renaming, PaneShape, PaneFields
<1>2. DOMAIN s.edits = IdsOf(rows)
  BY <1>1 DEF namesOf
<1> QED
  BY <1>1, <1>2 DEF PaneShape, EditsFit

LEMMA Typed ==
  ASSUME NEW p, PaneShape(p), EditsFit(p), NEW i, NEW n, NEW s, s = typed(p, i, n)
  PROVE  PaneShape(s) /\ EditsFit(s) /\ s.busy = p.busy /\ s.no = p.no
<1>1. /\ DOMAIN s = PaneFields /\ s.busy = p.busy /\ s.no = p.no
      /\ s.chosen = p.chosen /\ s.renaming = p.renaming
      /\ s.edits = [p.edits EXCEPT ![i] = n]
  BY DEF typed, PaneShape, PaneFields
<1>2. DOMAIN s.edits = DOMAIN p.edits
  BY <1>1
<1> QED
  BY <1>1, <1>2 DEF PaneShape, EditsFit

LEMMA Toggled ==
  ASSUME NEW p, PaneShape(p), EditsFit(p), NEW r, NEW s, s = toggled(p, r)
  PROVE  PaneShape(s) /\ EditsFit(s) /\ s.busy = p.busy /\ s.no = p.no
<1>1. CASE r.id \notin IdsOf(p.chosen)
  <2>1. /\ DOMAIN s = PaneFields /\ s.busy = p.busy /\ s.no = p.no
        /\ s.chosen = p.chosen \cup {r} /\ s.renaming = p.renaming
        /\ s.edits = IF p.renaming
                     THEN [i \in {r.id} \cup DOMAIN p.edits |->
                             IF i = r.id THEN r.name ELSE p.edits[i]]
                     ELSE p.edits
    BY <1>1 DEF toggled, PaneShape, PaneFields
  <2>2. IdsOf(p.chosen \cup {r}) = {r.id} \cup IdsOf(p.chosen)
    BY DEF IdsOf
  <2> QED
    BY <2>1, <2>2 DEF PaneShape, EditsFit
<1>2. CASE r.id \in IdsOf(p.chosen)
  <2>1. PICK left : left = {c \in p.chosen : c.id # r.id}
    OBVIOUS
  <2>2. CASE left = {}
    <3>1. s = deselected(p)
      BY <1>2, <2>1, <2>2 DEF toggled
    <3> QED
      BY <3>1, Unselected
  <2>3. CASE left # {}
    <3>1. /\ DOMAIN s = PaneFields /\ s.busy = p.busy /\ s.no = p.no
          /\ s.chosen = left /\ s.renaming = p.renaming
          /\ s.edits = IF p.renaming THEN [i \in IdsOf(left) |-> p.edits[i]] ELSE p.edits
      BY <1>2, <2>1, <2>3 DEF toggled, PaneShape, PaneFields
    <3> QED
      BY <3>1 DEF PaneShape, EditsFit
  <2> QED
    BY <2>2, <2>3
<1> QED
  BY <1>1, <1>2

\* The view with the same selection.
LEMMA SameChoice ==
  ASSUME NEW p, PaneShape(p), EditsFit(p), NEW s, DOMAIN s = PaneFields, s.edits = p.edits,
         s.renaming = p.renaming, s.chosen = p.chosen, s.busy = p.busy, s.no = p.no
  PROVE  PaneShape(s) /\ EditsFit(s) /\ s.busy = p.busy /\ s.no = p.no
  BY DEF PaneShape, EditsFit

LEMMA ViewTurned ==
  ASSUME DataInv,
         \/ selectAllChange \/ toggleItemSelection \/ onEditName \/ updateEditingValue
         \/ onAddData \/ onAddDataSp \/ onEditLearningData \/ onEditFileChange \/ closeForm
  PROVE  DataInv'
<1>0. PaneShape(pane) /\ EditsFit(pane)
  BY DEF DataInv, DataShape
<1>1. \E p : /\ Does(store, p, <<>>) /\ PaneShape(p) /\ EditsFit(p) /\ p.busy = pane.busy
             /\ p.no = pane.no
  <2>1. CASE selectAllChange
    <3>1. \/ Does(store, withChosen(pane, Row), <<>>)
          \/ Does(store, deselected(pane), <<>>)
      BY <2>1 DEF selectAllChange
    <3> QED
      BY <3>1, <1>0, Selected, Unselected
  <2>2. CASE toggleItemSelection
    <3>1. PICK r \in Row : Does(store, toggled(pane, r), <<>>)
      BY <2>2 DEF toggleItemSelection
    <3> QED
      BY <3>1, <1>0, Toggled
  <2>3. CASE onEditName
    <3>1. PICK rows : Does(store, renaming(pane, rows), <<>>)
      BY <2>3 DEF onEditName
    <3> QED
      BY <3>1, <1>0, Renamed
  <2>4. CASE updateEditingValue
    <3>1. PICK i, n : Does(store, typed(pane, i, n), <<>>)
      BY <2>4 DEF updateEditingValue
    <3> QED
      BY <3>1, <1>0, Typed
  <2>5. CASE \/ onAddData \/ onAddDataSp \/ onEditLearningData \/ onEditFileChange \/ closeForm
    <3>1. \E p : /\ Does(store, p, <<>>) /\ DOMAIN p = PaneFields /\ p.edits = pane.edits
                 /\ p.renaming = pane.renaming /\ p.chosen = pane.chosen
                 /\ p.busy = pane.busy /\ p.no = pane.no
      <4>1. DOMAIN pane = PaneFields
        BY <1>0 DEF PaneShape
      <4>2. CASE onAddData
        BY <4>1, <4>2 DEF onAddData, PaneFields
      <4>3. CASE onAddDataSp
        <5>1. PICK p : p = pickCleared(pane)
          OBVIOUS
        <5>2. DOMAIN p = PaneFields /\ p.edits = pane.edits /\ p.renaming = pane.renaming
              /\ p.chosen = pane.chosen /\ p.busy = pane.busy /\ p.no = pane.no
          BY <4>1, <5>1 DEF pickCleared, PaneFields
        <5>3. Does(store, p, <<>>)
          BY <4>3, <5>1 DEF onAddDataSp
        <5> QED
          BY <5>2, <5>3
      <4>4. CASE onEditLearningData
        <5>1. PICK r : Does(store, prefilled(pane, r), <<>>)
          BY <4>4 DEF onEditLearningData
        <5>2. PICK p : p = prefilled(pane, r)
          OBVIOUS
        <5>3. DOMAIN p = PaneFields /\ p.edits = pane.edits /\ p.renaming = pane.renaming
              /\ p.chosen = pane.chosen /\ p.busy = pane.busy /\ p.no = pane.no
          BY <4>1, <5>2 DEF prefilled, PaneFields
        <5> QED
          BY <5>1, <5>2, <5>3
      <4>5. CASE onEditFileChange
        BY <4>1, <4>5 DEF onEditFileChange, filePicked, PaneFields
      <4>6. CASE closeForm
        BY <4>1, <4>6 DEF closeForm, PaneFields
      <4> QED
        BY <2>5, <4>2, <4>3, <4>4, <4>5, <4>6
    <3>2. PICK p : /\ Does(store, p, <<>>) /\ DOMAIN p = PaneFields /\ p.edits = pane.edits
                   /\ p.renaming = pane.renaming /\ p.chosen = pane.chosen
                   /\ p.busy = pane.busy /\ p.no = pane.no
      BY <3>1
    <3> QED
      BY <3>2, <1>0, SameChoice
  <2> QED
    BY <2>1, <2>2, <2>3, <2>4, <2>5
<1>2. PICK p : /\ Does(store, p, <<>>) /\ PaneShape(p) /\ EditsFit(p) /\ p.busy = pane.busy
               /\ p.no = pane.no
  BY <1>1
<1> QED
  BY <1>2, ViewStep

LEMMA ChangedListed ==
  ASSUME NEW rows, IsSeq(rows), NEW row, NEW s, s = changed(rows, row)
  PROVE  IsSeq(s)
<1>1. Len(rows) \in Nat /\ DOMAIN rows = 1..Len(rows)
  BY Elements
<1>2. PICK n \in Nat : n = Len(rows)
  BY <1>1
<1>3. s = [i \in 1..n |-> s[i]]
  BY <1>1, <1>2 DEF changed
<1> QED
  BY <1>3, Listed

\* The store with other rows, and with a page or the files of one covered.
LEMMA OtherRows ==
  ASSUME DataInv, NEW rows, IsSeq(rows), NEW s, s = [store EXCEPT !.rows = rows]
  PROVE  /\ StoreShape(s) /\ s.rows = rows /\ s.route = store.route /\ s.item = store.item
         /\ s.loading = store.loading /\ s.filesLoading = store.filesLoading
  BY DEF DataInv, DataShape, StoreShape, StoreFields

LEMMA FilesCovered ==
  ASSUME DataInv, NEW s, s = [store EXCEPT !.filesLoading = TRUE]
  PROVE  /\ StoreShape(s) /\ s.rows = store.rows /\ s.route = store.route
         /\ s.item = store.item /\ s.loading = store.loading /\ s.filesLoading
         /\ \A d : Right(s, d) <=> Right(store, d)
<1>1. /\ StoreShape(s) /\ s.rows = store.rows /\ s.route = store.route
      /\ s.item = store.item /\ s.loading = store.loading /\ s.filesLoading
  BY DEF DataInv, DataShape, StoreShape, StoreFields
<1> QED
  BY <1>1 DEF Right

LEMMA PageCovered ==
  ASSUME DataInv, NEW s, s = busyPage(store)
  PROVE  /\ StoreShape(s) /\ s.rows = store.rows /\ s.route = store.route
         /\ s.item = store.item /\ s.loading /\ s.filesLoading = store.filesLoading
         /\ \A d : Right(s, d) <=> Right(store, d)
<1>1. /\ StoreShape(s) /\ s.rows = store.rows /\ s.route = store.route
      /\ s.item = store.item /\ s.loading /\ s.filesLoading = store.filesLoading
  BY DEF busyPage, DataInv, DataShape, StoreShape, StoreFields
<1> QED
  BY <1>1 DEF Right

LEMMA LearningToggled ==
  ASSUME DataInv, onToggleLearning
  PROVE  DataInv'
<1>1. PICK r \in Row : /\ store.route # NoFolder
                       /\ Does([store EXCEPT !.rows = changed(@, [r EXCEPT !.on = ~@])], pane,
                               <<toggleFileLearning(store.item, r, store.rows)>>)
  BY DEF onToggleLearning, FolderShown
<1>2. PICK v : v = [r EXCEPT !.on = ~@]
  OBVIOUS
<1>3. PICK rows : rows = changed(store.rows, v)
  OBVIOUS
<1>4. PICK s : s = [store EXCEPT !.rows = rows]
  OBVIOUS
<1>5. PICK c : c = toggleFileLearning(store.item, r, store.rows)
  OBVIOUS
<1>6. s = [store EXCEPT !.rows = changed(@, [r EXCEPT !.on = ~@])]
  BY <1>2, <1>3, <1>4
<1>7. Does(s, pane, <<c>>)
  BY <1>1, <1>5, <1>6
<1>8. IsSeq(store.rows)
  BY DEF DataInv, DataShape, StoreShape
<1>9. IsSeq(rows)
  BY <1>3, <1>8, ChangedListed
<1>10. /\ StoreShape(s) /\ s.rows = rows /\ s.route = store.route /\ s.item = store.item
       /\ s.loading = store.loading /\ s.filesLoading = store.filesLoading
  BY <1>4, <1>9, OtherRows
<1>11. /\ CallShape(c) /\ c.kind = "patch" /\ c.value = v /\ c.back = store.rows
       /\ c.then = "on"
  <2>1. PICK b : b = Call("patch", store.item)
    OBVIOUS
  <2>2. CallShape(b) /\ b.kind = "patch"
    BY <2>1, PlainCall
  <2>3. c = [b EXCEPT !.value = v, !.back = store.rows, !.then = "on"]
    BY <1>2, <1>5, <2>1 DEF toggleFileLearning
  <2> QED
    BY <2>2, <2>3, <1>8 DEF CallShape, CallFields
<1>12. \E k \in 1..Len(store.rows) : r = store.rows[k]
  BY <1>1, <1>8, Elements DEF Row
<1>13. \E on : v = [r EXCEPT !.on = on]
  BY <1>2
<1>14. \E k \in 1..Len(store.rows) : \E on : v = [store.rows[k] EXCEPT !.on = on]
  BY <1>12, <1>13
<1>15. Right(store, disk) => Fits(c, s, disk)
  <2> SUFFICES ASSUME Right(store, disk) PROVE PatchFits(c, s, disk)
    BY <1>11 DEF Fits
  <2>1. Agrees(store.rows, s.item, disk)
    BY <1>1, <1>10 DEF Right
  <2>2. s.rows = changed(c.back, c.value) /\ Agrees(c.back, s.item, disk)
    BY <2>1, <1>3, <1>10, <1>11
  <2>3. \E k \in 1..Len(c.back) : c.then = "on" /\ \E on : c.value = [c.back[k] EXCEPT !.on = on]
    BY <1>11, <1>14
  <2> QED
    BY <2>2, <2>3 DEF PatchFits
<1> QED
  BY <1>7, <1>10, <1>11, <1>15, CallStep DEF DataInv, DataShape

LEMMA DeletionStarted ==
  ASSUME DataInv, NEW ids, NEW p, startDelete(ids, p), PaneShape(p), EditsFit(p),
         p.busy = pane.busy, p.no = pane.no
  PROVE  DataInv'
<1>1. PICK s : s = [store EXCEPT !.filesLoading = TRUE]
  OBVIOUS
<1>2. PICK c : c = [Call("delete", store.item) EXCEPT !.files = ids]
  OBVIOUS
<1>3. Does(s, p, <<c>>)
  BY <1>1, <1>2 DEF startDelete
<1>4. StoreShape(s) /\ s.item = store.item /\ s.loading = store.loading
  BY <1>1, FilesCovered
<1>5. CallShape(c) /\ c.kind = "delete" /\ c.folder = store.item /\ ~c.failed
  <2>1. PICK b : b = Call("delete", store.item)
    OBVIOUS
  <2>2. CallShape(b) /\ b.kind = "delete" /\ b.folder = store.item /\ ~b.failed
    BY <2>1, PlainCall
  <2>3. c = [b EXCEPT !.files = ids]
    BY <1>2, <2>1
  <2> QED
    BY <2>2, <2>3 DEF CallShape, CallFields
<1>6. Fits(c, s, disk) /\ ClearsFiles(c)
  BY <1>4, <1>5 DEF Fits, ClearsFiles
<1> QED
  BY <1>3, <1>4, <1>5, <1>6, CallStep

LEMMA FilesDeleted ==
  ASSUME DataInv, onDeleteFile \/ onDeleteSelectedFiles
  PROVE  DataInv'
<1>1. PaneShape(pane) /\ EditsFit(pane)
  BY DEF DataInv, DataShape
<1>2. CASE onDeleteFile
  <2>1. PICK r : startDelete({r.id}, pane)
    BY <1>2 DEF onDeleteFile
  <2> QED
    BY <2>1, <1>1, DeletionStarted
<1>3. CASE onDeleteSelectedFiles
  <2>1. PICK p : p = deselected(pane)
    OBVIOUS
  <2>2. startDelete(IdsOf(pane.chosen), p)
    BY <1>3, <2>1 DEF onDeleteSelectedFiles
  <2>3. PaneShape(p) /\ EditsFit(p) /\ p.busy = pane.busy /\ p.no = pane.no
    BY <1>1, <2>1, Unselected
  <2> QED
    BY <2>2, <2>3, DeletionStarted
<1> QED
  BY <1>2, <1>3

\* The calls that cover the page: a synchronisation and the folders' dialogs.
LEMMA PageCalls ==
  ASSUME DataInv, onSync \/ submitNewFolder \/ submitShownFolder
  PROVE  DataInv'
<1>1. PICK s : s = busyPage(store)
  OBVIOUS
<1>2. /\ StoreShape(s) /\ s.route = store.route /\ s.item = store.item /\ s.loading
      /\ s.filesLoading = store.filesLoading /\ (Right(s, disk) <=> Right(store, disk))
  BY <1>1, PageCovered
<1>3. \E p, kind, folder :
        /\ Does(s, p, <<Call(kind, folder)>>)
        /\ p = paneAfter(s) \/ p = pane
        /\ \/ kind \in {"sync", "folder"} /\ folder = store.item
           \/ kind = "create" /\ store.route = NoFolder
  BY <1>1 DEF onSync, submitNewFolder, submitShownFolder
<1>4. PICK p, kind, folder :
        /\ Does(s, p, <<Call(kind, folder)>>)
        /\ p = paneAfter(s) \/ p = pane
        /\ \/ kind \in {"sync", "folder"} /\ folder = store.item
           \/ kind = "create" /\ store.route = NoFolder
  BY <1>3
<1>5. PICK c : c = Call(kind, folder)
  OBVIOUS
<1>6. Does(s, p, <<c>>)
  BY <1>4, <1>5
<1>7. CallShape(c) /\ c.kind = kind /\ c.folder = folder
  BY <1>5, PlainCall
<1>8. PaneShape(p) /\ EditsFit(p) /\ (p.busy = {} \/ p = pane)
  <2>1. CASE p = paneAfter(s)
    BY <2>1, BusyView
  <2>2. CASE p = pane
    BY <2>2 DEF DataInv, DataShape
  <2> QED
    BY <2>1, <2>2, <1>4
<1>9. Right(store, disk) => Fits(c, s, disk)
  BY <1>2, <1>4, <1>7 DEF Fits
<1>10. ClearsPage(c)
  BY <1>4, <1>7 DEF ClearsPage
<1>11. \A flag \in p.busy : flag \in pane.busy /\ p.no = pane.no
  BY <1>8
<1> QED
  BY <1>2, <1>6, <1>7, <1>8, <1>9, <1>10, <1>11, CallStep

LEMMA FormsSent ==
  ASSUME DataInv, onSubmitAddData \/ onSubmitEditData
  PROVE  DataInv'
<1>1. PICK s : s = [store EXCEPT !.filesLoading = TRUE]
  OBVIOUS
<1>2. /\ StoreShape(s) /\ s.item = store.item /\ s.loading = store.loading
      /\ Right(s, disk) <=> Right(store, disk)
  BY <1>1, FilesCovered
<1>3. PaneShape(pane) /\ EditsFit(pane)
  BY DEF DataInv, DataShape
<1>4. \E flag, c :
        /\ flag \in {"add", "edit"}
        /\ Does(s, busied(pane, flag), <<c>>)
        /\ CallShape(c) /\ c.kind \in {"add", "update"} /\ c.folder = store.item
        /\ c.then = flag /\ c.pane = pane.no
  <2>1. CASE onSubmitAddData
    <3>1. PICK b : b = Call("add", store.item)
      OBVIOUS
    <3>2. CallShape(b) /\ b.kind = "add" /\ b.folder = store.item
      BY <3>1, PlainCall
    <3>3. PICK c : c = addCall(pane)
      OBVIOUS
    <3>4. c = [b EXCEPT !.pane = pane.no, !.then = "add"]
      BY <3>1, <3>3 DEF addCall
    <3>5. CallShape(c) /\ c.kind = "add" /\ c.folder = store.item /\ c.then = "add"
          /\ c.pane = pane.no
      BY <3>2, <3>4 DEF CallShape, CallFields
    <3>6. Does(s, busied(pane, "add"), <<c>>)
      BY <1>1, <2>1, <3>3 DEF onSubmitAddData
    <3> QED
      BY <3>5, <3>6
  <2>2. CASE onSubmitEditData
    <3>1. PICK n, on : Does(s, busied(pane, "edit"), <<editCall(pane, n, on)>>)
      BY <1>1, <2>2 DEF onSubmitEditData
    <3>2. PICK kind \in {"add", "update"} : kind = IF pane.form = "edit" THEN "update" ELSE "add"
      OBVIOUS
    <3>3. PICK b : b = Call(kind, store.item)
      OBVIOUS
    <3>4. CallShape(b) /\ b.kind = kind /\ b.folder = store.item
      BY <3>3, PlainCall
    <3>5. PICK c : c = editCall(pane, n, on)
      OBVIOUS
    <3>6. c = [b EXCEPT !.value = [id |-> pane.file, name |-> n, on |-> on],
                        !.pane = pane.no, !.then = "edit"]
      BY <3>2, <3>3, <3>5 DEF editCall
    <3>7. CallShape(c) /\ c.kind = kind /\ c.folder = store.item /\ c.then = "edit"
          /\ c.pane = pane.no
      BY <3>4, <3>6 DEF CallShape, CallFields
    <3> QED
      BY <3>1, <3>2, <3>5, <3>7
  <2> QED
    BY <2>1, <2>2
<1>5. PICK flag, c :
        /\ flag \in {"add", "edit"}
        /\ Does(s, busied(pane, flag), <<c>>)
        /\ CallShape(c) /\ c.kind \in {"add", "update"} /\ c.folder = store.item
        /\ c.then = flag /\ c.pane = pane.no
  BY <1>4
<1>6. PICK p : p = busied(pane, flag)
  OBVIOUS
<1>7. /\ DOMAIN p = PaneFields /\ p.busy = pane.busy \cup {flag} /\ p.no = pane.no
      /\ p.edits = pane.edits /\ p.renaming = pane.renaming /\ p.chosen = pane.chosen
  BY <1>3, <1>6 DEF busied, PaneShape, PaneFields
<1>8. PaneShape(p) /\ EditsFit(p)
  BY <1>3, <1>5, <1>7 DEF PaneShape, EditsFit
<1>9. Right(store, disk) => Fits(c, s, disk)
  BY <1>2, <1>5 DEF Fits
<1>10. ClearsFiles(c) /\ Tracks(c, flag, p.no)
  BY <1>5, <1>7 DEF ClearsFiles, Tracks
<1>11. \A f \in p.busy : (f \in pane.busy /\ p.no = pane.no) \/ Tracks(c, f, p.no)
  BY <1>7, <1>10
<1>12. Does(s, p, <<c>>)
  BY <1>5, <1>6
<1> QED
  BY <1>2, <1>5, <1>8, <1>9, <1>10, <1>11, <1>12, CallStep

LEMMA FolderDropped ==
  ASSUME DataInv, onDeleteFolder
  PROVE  DataInv'
<1>1. PICK s : s = [busyPage(store) EXCEPT !.route = NoFolder]
  OBVIOUS
<1>2. PICK p : p = pristine(pane.no + 1)
  OBVIOUS
<1>3. PICK a, b : a = Call("drop", store.item) /\ b = Call("items", NoFolder)
  OBVIOUS
<1>4. PICK new : new = <<a, b>>
  OBVIOUS
<1>5. Does(s, p, new)
  BY <1>1, <1>2, <1>3, <1>4 DEF onDeleteFolder
<1>6. StoreShape(s) /\ s.filesLoading = store.filesLoading
  BY <1>1 DEF busyPage, DataInv, DataShape, StoreShape, StoreFields
<1>7. PaneShape(p) /\ EditsFit(p) /\ p.busy = {}
  BY <1>2, NewView
<1>8. CallShape(a) /\ CallShape(b) /\ b.kind = "items"
  BY <1>3, PlainCall
<1>9. new = [i \in 1..2 |-> new[i]] /\ new[1] = a /\ new[2] = b /\ 2 \in 1..2
  BY <1>4
<1>10. IsSeq(new) /\ Len(new) = 2
  BY <1>9, Listed
<1>11. CallsShape(new)
  BY <1>8, <1>9, <1>10 DEF CallsShape
<1>12. ClearsPage(new[2])
  BY <1>8, <1>9 DEF ClearsPage
<1>13. \E k \in 1..Len(new) : ClearsPage(new[k])
  BY <1>9, <1>10, <1>12
<1>14. Begins(s, p, new)
  BY <1>6, <1>7, <1>10, <1>11, <1>13 DEF Begins
<1> QED
  BY <1>5, <1>14, UserStep

\* The rows once the first of those due have their new names.
After(rows, all, edits, n) ==
  [i \in DOMAIN rows |->
     LET r == rows[i]
     IN  IF \E k \in 1..n : all[k].id = r.id THEN [r EXCEPT !.name = edits[r.id]] ELSE r]

LEMMA RowsAfter ==
  ASSUME NEW rows, IsSeq(rows), NEW all, NEW edits, NEW n, NEW s, s = After(rows, all, edits, n)
  PROVE  IsSeq(s) /\ (n = 0 => s = rows)
<1>1. Len(rows) \in Nat /\ DOMAIN rows = 1..Len(rows) /\ rows \in Seq(ToSet(rows))
  BY Elements DEF IsSeq
<1>2. PICK m \in Nat : m = Len(rows)
  BY <1>1
<1>3. s = [i \in 1..m |-> s[i]]
  BY <1>1, <1>2 DEF After
<1>4. IsSeq(s)
  BY <1>3, Listed
<1>5. ASSUME n = 0 PROVE s = rows
  <2>1. \A i \in 1..m : s[i] = rows[i]
    BY <1>1, <1>2, <1>5 DEF After
  <2>2. rows = [i \in 1..m |-> rows[i]]
    BY <1>1, <1>2
  <2> QED
    BY <2>1, <2>2, <1>3
<1> QED
  BY <1>4, <1>5

LEMMA NamesSaved ==
  ASSUME DataInv, onSaveRename
  PROVE  DataInv'
<1>1. PICK rows : rows = store.rows
  OBVIOUS
<1>2. PICK all : all = renamesDue(pane)
  OBVIOUS
<1>3. PICK edits : edits = pane.edits
  OBVIOUS
<1>4. PICK p : p = [pane EXCEPT !.renaming = FALSE, !.edits = <<>>]
  OBVIOUS
<1>5. PICK s : s = [store EXCEPT !.rows = After(rows, all, edits, Len(all))]
  OBVIOUS
<1>6. PICK new : new = [k \in DOMAIN all |->
                          renameFile(store.item, all[k], edits[all[k].id],
                                     After(rows, all, edits, k - 1))]
  OBVIOUS
<1>7. Does(s, p, new) /\ store.route # NoFolder
  BY <1>1, <1>2, <1>3, <1>4, <1>5, <1>6 DEF onSaveRename, After, FolderShown
<1>8. IsSeq(rows)
  BY <1>1 DEF DataInv, DataShape, StoreShape
<1>9. IsSeq(all) /\ ToSet(all) \subseteq ToSet(rows)
  <2>1. PICK S : S = {k \in 1..Len(rows) : /\ rows[k].id \in DOMAIN pane.edits
                                           /\ pane.edits[rows[k].id] # rows[k].name}
    OBVIOUS
  <2>2. S \in SUBSET (1..Len(rows))
    BY <2>1
  <2>3. all = At(rows, S)
    BY <1>1, <1>2, <2>1 DEF renamesDue
  <2>4. IsSeq(At(rows, S)) /\ ToSet(At(rows, S)) \subseteq ToSet(rows)
    BY <1>8, <2>2, Chosen
  <2> QED
    BY <2>3, <2>4
<1>10. PICK n \in Nat : n = Len(all) /\ DOMAIN all = 1..n
  BY <1>9, Elements
<1>11. PICK final : final = After(rows, all, edits, n)
  OBVIOUS
<1>12. IsSeq(final) /\ (n = 0 => final = rows)
  BY <1>8, <1>11, RowsAfter
<1>13. /\ StoreShape(s) /\ s.rows = final /\ s.route = store.route /\ s.item = store.item
       /\ s.loading = store.loading /\ s.filesLoading = store.filesLoading
  <2>1. s = [store EXCEPT !.rows = final]
    BY <1>5, <1>10, <1>11
  <2> QED
    BY <2>1, <1>12, OtherRows
<1>14. PaneShape(p) /\ EditsFit(p) /\ p.busy = pane.busy /\ p.no = pane.no
  <2>1. DOMAIN p = PaneFields /\ p.edits = <<>> /\ ~p.renaming /\ p.busy = pane.busy
        /\ p.no = pane.no
    BY <1>4 DEF DataInv, DataShape, PaneShape, PaneFields
  <2>2. DOMAIN p.edits = {}
    BY <2>1, EmptyListed
  <2> QED
    BY <2>1, <2>2 DEF DataInv, DataShape, PaneShape, EditsFit
<1>15. \A k \in 1..n :
         /\ CallShape(new[k]) /\ new[k].kind = "patch" /\ new[k].then = "name"
         /\ new[k].value = [all[k] EXCEPT !.name = edits[all[k].id]]
         /\ new[k].back = After(rows, all, edits, k - 1)
  <2> TAKE k \in 1..n
  <2>1. PICK b : b = Call("patch", store.item)
    OBVIOUS
  <2>2. CallShape(b) /\ b.kind = "patch"
    BY <2>1, PlainCall
  <2>3. PICK back : back = After(rows, all, edits, k - 1)
    OBVIOUS
  <2>4. IsSeq(back)
    BY <2>3, <1>8, RowsAfter
  <2>5. PICK c : c = new[k]
    OBVIOUS
  <2>6. c = renameFile(store.item, all[k], edits[all[k].id], back)
    BY <1>6, <1>10, <2>3, <2>5
  <2>7. PICK v : v = [all[k] EXCEPT !.name = edits[all[k].id]]
    OBVIOUS
  <2>8. c = [b EXCEPT !.value = v, !.back = back, !.then = "name"]
    BY <2>1, <2>6, <2>7 DEF renameFile
  <2>9. CallShape(c) /\ c.kind = "patch" /\ c.then = "name" /\ c.value = v /\ c.back = back
    BY <2>2, <2>4, <2>8 DEF CallShape, CallFields
  <2> QED
    BY <2>3, <2>5, <2>7, <2>9
<1>16. IsSeq(new) /\ Len(new) = n
  <2>1. new = [k \in 1..n |-> new[k]]
    BY <1>6, <1>10
  <2> QED
    BY <2>1, Listed
<1>17. CallsShape(new)
  BY <1>15, <1>16 DEF CallsShape
<1>18. ASSUME Right(store, disk), n = 1 PROVE Fits(new[1], s, disk)
  <2>1. PICK c, v, r : /\ c = new[1] /\ r = all[1]
                       /\ v = [r EXCEPT !.name = edits[r.id]]
    OBVIOUS
  <2>2. 1 \in 1..n /\ 1 - 1 = 0
    BY <1>18
  <2>3. c.kind = "patch" /\ c.then = "name" /\ c.value = v
    BY <1>15, <2>1, <2>2
  <2>4. c.back = rows
    <3>1. PICK back : back = After(rows, all, edits, 0)
      OBVIOUS
    <3>2. back = rows
      BY <3>1, <1>8, RowsAfter
    <3>3. c.back = After(rows, all, edits, 1 - 1)
      BY <1>15, <2>1, <2>2
    <3> QED
      BY <3>1, <3>2, <3>3
  <2>5. Agrees(rows, s.item, disk)
    BY <1>1, <1>7, <1>13, <1>18 DEF Right
  <2>6. PICK j \in 1..Len(rows) : r = rows[j]
    <3>1. r \in ToSet(rows)
      BY <2>1, <2>2, <1>9, <1>10, Elements
    <3> QED
      BY <3>1, <1>8, Elements
  <2>7. r = [id |-> r.id, name |-> disk[r.id].name, on |-> disk[r.id].on]
    BY <2>5, <2>6 DEF Agrees
  <2>8. v.id = r.id
    BY <2>1, <2>7
  <2>9. \A i \in 1..Len(rows) : rows[i].id = r.id => rows[i] = r
    <3> TAKE i \in 1..Len(rows)
    <3>1. rows[i] = [id |-> rows[i].id, name |-> disk[rows[i].id].name, on |-> disk[rows[i].id].on]
      BY <2>5 DEF Agrees
    <3> QED
      BY <3>1, <2>7
  <2>10. final = changed(rows, v)
    <3>1. DOMAIN rows = 1..Len(rows)
      BY <1>8, Elements
    <3>2. \A i \in 1..Len(rows) : final[i] = IF rows[i].id = v.id THEN v ELSE rows[i]
      <4> TAKE i \in 1..Len(rows)
      <4>1. (\E k \in 1..n : all[k].id = rows[i].id) <=> rows[i].id = v.id
        BY <1>18, <2>1, <2>8
      <4>2. final[i] = IF rows[i].id = v.id THEN [rows[i] EXCEPT !.name = edits[rows[i].id]]
                       ELSE rows[i]
        BY <3>1, <4>1, <1>11 DEF After
      <4>3. rows[i].id = v.id => [rows[i] EXCEPT !.name = edits[rows[i].id]] = v
        BY <2>1, <2>8, <2>9
      <4> QED
        BY <4>2, <4>3
    <3>3. final = [i \in 1..Len(rows) |-> final[i]]
      BY <3>1, <1>11 DEF After
    <3> QED
      BY <3>1, <3>2, <3>3 DEF changed
  <2>11. \E k \in 1..Len(c.back) : c.then = "name"
                                  /\ \E name : c.value = [c.back[k] EXCEPT !.name = name]
    <3>1. \E name : v = [r EXCEPT !.name = name]
      BY <2>1
    <3>2. \E name : v = [rows[j] EXCEPT !.name = name]
      BY <3>1, <2>6
    <3> QED
      BY <3>2, <2>3, <2>4
  <2>12. s.rows = changed(c.back, c.value) /\ Agrees(c.back, s.item, disk)
    BY <2>3, <2>4, <2>5, <2>10, <1>13
  <2>13. PatchFits(c, s, disk)
    BY <2>11, <2>12 DEF PatchFits
  <2> QED
    BY <2>1, <2>3, <2>13 DEF Fits
<1>19. n = 0 => s.route = store.route /\ s.item = store.item /\ s.rows = store.rows
  BY <1>1, <1>12, <1>13
<1>20. Begins(s, p, new)
  BY <1>13, <1>14, <1>16, <1>17, <1>18, <1>19 DEF Begins
<1> QED
  BY <1>7, <1>20, UserStep

----------------------------------------------------------------------------
(* Answers.                                                                *)

\* An answer that no call follows.
LEMMA EndStep ==
  ASSUME DataInv, NEW k \in 1..Len(pending), NEW c, c = pending[k],
         NEW s, NEW p, NEW bad, CallEnds(k, s, p, <<>>, bad),
         StoreShape(s), PaneShape(p), EditsFit(p), DiskShape(disk'),
         ~collided' /\ Fits(c, store, disk) => Right(s, disk'),
         s.loading => store.loading /\ ~ClearsPage(c),
         s.filesLoading => store.filesLoading /\ ~ClearsFiles(c),
         \A flag \in p.busy : flag \in pane.busy /\ p.no = pane.no /\ ~Tracks(c, flag, p.no)
  PROVE  DataInv'
<1>1. PICK new : new = <<>>
  OBVIOUS
<1>2. CallsShape(new) /\ Len(new) = 0
  BY <1>1, NoCall
<1>3. CallEnds(k, s, p, new, bad)
  BY <1>1
<1>4. Settles(c, s, p, new)
  BY <1>2 DEF Settles
<1> QED
  BY <1>3, <1>4, AnswerStep

\* An answer that one call follows.
LEMMA FollowStep ==
  ASSUME DataInv, NEW k \in 1..Len(pending), NEW c, c = pending[k],
         NEW s, NEW p, NEW d, NEW bad, CallEnds(k, s, p, <<d>>, bad), CallShape(d),
         StoreShape(s), PaneShape(p), EditsFit(p), DiskShape(disk'),
         ~collided' /\ Fits(c, store, disk) => Fits(d, s, disk'),
         s.loading => (store.loading /\ ~ClearsPage(c)) \/ ClearsPage(d),
         s.filesLoading => (store.filesLoading /\ ~ClearsFiles(c)) \/ ClearsFiles(d),
         \A flag \in p.busy :
           \/ flag \in pane.busy /\ p.no = pane.no /\ ~Tracks(c, flag, p.no)
           \/ Tracks(d, flag, p.no)
  PROVE  DataInv'
<1>1. PICK new : new = <<d>>
  OBVIOUS
<1>2. CallsShape(new) /\ Len(new) = 1 /\ new[1] = d
  BY <1>1, OneCall
<1>3. CallEnds(k, s, p, new, bad)
  BY <1>1
<1>4. 1 \in 1..Len(new)
  BY <1>2
<1>5. Settles(c, s, p, new)
  BY <1>2, <1>4 DEF Settles
<1> QED
  BY <1>3, <1>5, AnswerStep

LEMMA PageShown ==
  ASSUME DataInv, NEW s, s = idle(store)
  PROVE  /\ StoreShape(s) /\ DOMAIN s = StoreFields /\ s.rows = store.rows
         /\ s.route = store.route /\ s.item = store.item
         /\ ~s.loading /\ s.filesLoading = store.filesLoading
         /\ \A d : Right(s, d) <=> Right(store, d)
<1>1. /\ DOMAIN s = StoreFields /\ s.rows = store.rows
      /\ s.route = store.route /\ s.item = store.item
      /\ ~s.loading /\ s.filesLoading = store.filesLoading
  BY DEF idle, DataInv, DataShape, StoreShape, StoreFields
<1> QED
  BY <1>1 DEF Right, DataInv, DataShape, StoreShape

LEMMA FilesShown ==
  ASSUME DataInv, NEW s, s = still(store)
  PROVE  /\ StoreShape(s) /\ DOMAIN s = StoreFields /\ s.rows = store.rows
         /\ s.route = store.route /\ s.item = store.item
         /\ s.loading = store.loading /\ ~s.filesLoading
         /\ \A d : Right(s, d) <=> Right(store, d)
<1>1. /\ DOMAIN s = StoreFields /\ s.rows = store.rows
      /\ s.route = store.route /\ s.item = store.item
      /\ s.loading = store.loading /\ ~s.filesLoading
  BY DEF still, DataInv, DataShape, StoreShape, StoreFields
<1> QED
  BY <1>1 DEF Right, DataInv, DataShape, StoreShape

\* What every call finds of the view.
LEMMA ViewKept ==
  ASSUME DataInv
  PROVE  PaneShape(pane) /\ EditsFit(pane) /\ DiskShape(disk) /\ StoreShape(store)
  BY DEF DataInv, DataShape

LEMMA ListAsked ==
  ASSUME NEW folder, NEW s, NEW then, NEW no, NEW d, d = loadFilesInternal(folder, s, then, no)
  PROVE  /\ CallShape(d) /\ d.kind = "list" /\ d.folder = folder /\ d.then = then
         /\ d.pane = no
<1>1. PICK b : b = Call("list", folder)
  OBVIOUS
<1>2. CallShape(b) /\ b.kind = "list" /\ b.folder = folder
  BY <1>1, PlainCall
<1>3. d = [b EXCEPT !.filter = s.filter, !.then = then, !.pane = no]
  BY <1>1 DEF loadFilesInternal
<1> QED
  BY <1>2, <1>3 DEF CallShape, CallFields

LEMMA ItemAsked ==
  ASSUME NEW folder, NEW then, NEW d, d = loadItem(folder, then)
  PROVE  CallShape(d) /\ d.kind = "item" /\ d.folder = folder /\ d.then = then
<1>1. PICK b : b = Call("item", folder)
  OBVIOUS
<1>2. CallShape(b) /\ b.kind = "item" /\ b.folder = folder
  BY <1>1, PlainCall
<1>3. d = [b EXCEPT !.then = then]
  BY <1>1 DEF loadItem
<1> QED
  BY <1>2, <1>3 DEF CallShape, CallFields

\* The view once a dialog's submission ended.
LEMMA FormEnded ==
  ASSUME DataInv, NEW c, NEW closes, NEW p, p = ended(c, closes)
  PROVE  /\ PaneShape(p) /\ EditsFit(p) /\ p.no = pane.no
         /\ \A flag \in p.busy : flag \in pane.busy /\ ~Tracks(c, flag, p.no)
<1>1. PaneShape(pane) /\ EditsFit(pane)
  BY ViewKept
<1>2. CASE c.then \in {"add", "edit"} /\ c.pane = pane.no
  <2>1. /\ DOMAIN p = PaneFields /\ p.busy = pane.busy \ {c.then} /\ p.no = pane.no
        /\ p.edits = pane.edits /\ p.renaming = pane.renaming /\ p.chosen = pane.chosen
    BY <1>1, <1>2 DEF ended, PaneShape, PaneFields
  <2> QED
    BY <1>1, <2>1 DEF PaneShape, EditsFit, Tracks
<1>3. CASE ~(c.then \in {"add", "edit"} /\ c.pane = pane.no)
  <2>1. p = pane
    BY <1>3 DEF ended
  <2> QED
    BY <1>1, <1>3, <2>1 DEF PaneShape, Tracks
<1> QED
  BY <1>2, <1>3

LEMMA DetailAnswered ==
  ASSUME DataInv, NEW k \in 1..Len(pending), NEW c, c = pending[k], DetailAnswer(k, c)
  PROVE  DataInv'
<1>1. c.kind = "detail" /\ disk' = disk
  BY DEF DetailAnswer
<1>2. \A flag : ~Tracks(c, flag, pane.no)
  BY <1>1 DEF Tracks
<1>3. PICK t : t = idle(store)
  OBVIOUS
<1>4. /\ StoreShape(t) /\ DOMAIN t = StoreFields /\ t.rows = store.rows
      /\ t.route = store.route /\ t.item = store.item
      /\ ~t.loading /\ t.filesLoading = store.filesLoading
  BY <1>3, PageShown
<1>5. ~ClearsFiles(c)
  BY <1>1 DEF ClearsFiles
<1>6. CASE CallEnds(k, [idle(store) EXCEPT !.item = c.folder], pane,
                    <<Call("users", c.folder)>>, FALSE)
  <2>1. PICK s : s = [t EXCEPT !.item = c.folder]
    OBVIOUS
  <2>2. PICK d : d = Call("users", c.folder)
    OBVIOUS
  <2>3. CallEnds(k, s, pane, <<d>>, FALSE)
    BY <1>3, <1>6, <2>1, <2>2
  <2>4. StoreShape(s) /\ s.item = c.folder /\ ~s.loading /\ s.filesLoading = store.filesLoading
    BY <1>4, <2>1 DEF StoreShape, StoreFields
  <2>5. CallShape(d) /\ d.kind = "users" /\ d.folder = c.folder
    BY <2>2, PlainCall
  <2>6. Fits(d, s, disk')
    BY <2>4, <2>5 DEF Fits
  <2> QED
    BY <1>1, <1>2, <1>5, <2>3, <2>4, <2>5, <2>6, FollowStep, ViewKept
<1>7. CASE CallEnds(k, idle(store), pane, <<>>, FALSE)
  <2>1. CallEnds(k, t, pane, <<>>, FALSE)
    BY <1>3, <1>7
  <2>2. Fits(c, store, disk) => Right(t, disk')
    <3> SUFFICES ASSUME Fits(c, store, disk) PROVE Agrees(t.rows, t.item, disk')
      BY DEF Right
    <3>1. Len(t.rows) = 0
      BY <1>1, <1>4 DEF Fits
    <3> QED
      BY <3>1 DEF Agrees
  <2> QED
    BY <1>1, <1>2, <1>4, <1>5, <2>1, <2>2, EndStep, ViewKept
<1> QED
  BY <1>6, <1>7 DEF DetailAnswer

LEMMA UsersAnswered ==
  ASSUME DataInv, NEW k \in 1..Len(pending), NEW c, c = pending[k], UsersAnswer(k, c)
  PROVE  DataInv'
<1>1. c.kind = "users" /\ disk' = disk
  BY DEF UsersAnswer
<1>2. PICK s : s = [store EXCEPT !.filesLoading = TRUE]
  OBVIOUS
<1>3. PICK d : d = loadFilesInternal(c.folder, s, "none", 0)
  OBVIOUS
<1>4. CallEnds(k, s, pane, <<d>>, FALSE)
  BY <1>2, <1>3 DEF UsersAnswer
<1>5. StoreShape(s) /\ s.item = store.item /\ s.loading = store.loading
  BY <1>2, FilesCovered
<1>6. CallShape(d) /\ d.kind = "list" /\ d.folder = c.folder
  BY <1>3, ListAsked
<1>7. Fits(c, store, disk) => Fits(d, s, disk')
  BY <1>1, <1>5, <1>6 DEF Fits
<1>8. ~ClearsPage(c) /\ ClearsFiles(d) /\ \A flag : ~Tracks(c, flag, pane.no)
  BY <1>1, <1>6 DEF ClearsPage, ClearsFiles, Tracks
<1> QED
  BY <1>1, <1>4, <1>5, <1>6, <1>7, <1>8, FollowStep, ViewKept

\* A page of a folder's files is of its files, as the service has them.
LEMMA PageListed ==
  ASSUME NEW folder, NEW f, NEW rows, rows = listFiles(folder, f).rows
  PROVE  IsSeq(rows) /\ Agrees(rows, folder, disk)
<1>1. PICK all : all = {i \in FileNumbers :
                          disk[i].home = folder /\ (f.query = "all" \/ disk[i].on)}
  OBVIOUS
<1>2. PICK page : page = {i \in all : (Cardinality({j \in all : j <= i}) + 1) \div 2 = f.page}
  OBVIOUS
<1>3. rows = [k \in 1..Cardinality(page) |->
                LET i == Nth(page, k)
                IN  [id |-> i, name |-> disk[i].name, on |-> disk[i].on]]
  BY <1>1, <1>2 DEF listFiles
<1>4. \A i \in page : i \in FileNumbers /\ disk[i].home = folder
  BY <1>1, <1>2
<1>5. NewFile \in Nat /\ page \in SUBSET (1..NewFile)
  BY <1>4, DataAssumption DEF FileNumbers
<1>6. PICK n : n = Cardinality(page)
  OBVIOUS
<1>7. n \in Nat /\ \A k \in 1..n : Nth(page, k) \in page
  BY <1>5, <1>6, NthCounts
<1>8. rows = [k \in 1..n |-> rows[k]]
  BY <1>3, <1>6
<1>9. IsSeq(rows) /\ Len(rows) = n
  BY <1>7, <1>8, Listed
<1>10. \A k \in 1..n :
         /\ rows[k].id \in FileNumbers /\ disk[rows[k].id].home = folder
         /\ rows[k] = [id |-> rows[k].id, name |-> disk[rows[k].id].name,
                       on |-> disk[rows[k].id].on]
  <2> TAKE k \in 1..n
  <2>1. PICK i \in page : i = Nth(page, k)
    BY <1>7
  <2>2. rows[k] = [id |-> i, name |-> disk[i].name, on |-> disk[i].on]
    BY <1>3, <1>6, <2>1
  <2> QED
    BY <2>1, <2>2, <1>4
<1> QED
  BY <1>9, <1>10 DEF Agrees

LEMMA FilesAnswered ==
  ASSUME DataInv, NEW k \in 1..Len(pending), NEW c, c = pending[k], FilesAnswer(k, c)
  PROVE  DataInv'
<1>1. c.kind = "list" /\ disk' = disk
  BY DEF FilesAnswer
<1>2. PICK rows, count :
        rows = listFiles(c.folder, c.filter).rows /\ count = listFiles(c.folder, c.filter).count
  OBVIOUS
<1>3. PICK t : t = still(store)
  OBVIOUS
<1>4. PICK ok \in BOOLEAN :
        LET s == IF ok THEN [t EXCEPT !.rows = rows, !.count = count] ELSE t
        IN  CallEnds(k, IF c.then = "sync" THEN idle(s) ELSE s, ended(c, TRUE), <<>>, ~ok)
  BY <1>2, <1>3 DEF FilesAnswer
<1>5. PICK s : s = IF ok THEN [t EXCEPT !.rows = rows, !.count = count] ELSE t
  OBVIOUS
<1>6. PICK u : u = IF c.then = "sync" THEN idle(s) ELSE s
  OBVIOUS
<1>7. PICK p : p = ended(c, TRUE)
  OBVIOUS
<1>8. CallEnds(k, u, p, <<>>, ~ok)
  BY <1>4, <1>5, <1>6, <1>7
<1>9. IsSeq(rows) /\ Agrees(rows, c.folder, disk)
  BY <1>2, PageListed
<1>10. /\ StoreShape(t) /\ DOMAIN t = StoreFields /\ t.rows = store.rows
       /\ t.route = store.route /\ t.item = store.item
       /\ t.loading = store.loading /\ ~t.filesLoading
  BY <1>3, FilesShown
<1>11. /\ StoreShape(s) /\ s.route = store.route /\ s.item = store.item
       /\ s.loading = store.loading /\ ~s.filesLoading /\ (ok => s.rows = rows)
  BY <1>5, <1>9, <1>10 DEF StoreShape, StoreFields
<1>12. /\ StoreShape(u) /\ u.route = store.route /\ u.item = store.item
       /\ ~u.filesLoading /\ (ok => u.rows = rows)
       /\ u.loading => store.loading /\ c.then # "sync"
  BY <1>6, <1>11 DEF idle, StoreShape, StoreFields
<1>13. /\ PaneShape(p) /\ EditsFit(p) /\ p.no = pane.no
       /\ \A flag \in p.busy : flag \in pane.busy /\ ~Tracks(c, flag, p.no)
  BY <1>7, FormEnded
<1>14. ~collided' /\ Fits(c, store, disk) => Right(u, disk')
  <2> SUFFICES ASSUME ~collided', Fits(c, store, disk) PROVE Right(u, disk')
    OBVIOUS
  <2>1. ok
    BY <1>8 DEF CallEnds
  <2>2. c.folder = store.item
    BY <1>1 DEF Fits
  <2> QED
    BY <2>1, <2>2, <1>1, <1>9, <1>12 DEF Right
<1>15. u.loading => store.loading /\ ~ClearsPage(c)
  BY <1>1, <1>12 DEF ClearsPage
<1> QED
  BY <1>1, <1>8, <1>12, <1>13, <1>14, <1>15, EndStep, ViewKept

LEMMA ItemsAnswered ==
  ASSUME DataInv, NEW k \in 1..Len(pending), NEW c, c = pending[k], ItemsAnswer(k, c)
  PROVE  DataInv'
<1>1. c.kind = "items" /\ disk' = disk
  BY DEF ItemsAnswer
<1>2. PICK t : t = idle(store)
  OBVIOUS
<1>3. /\ StoreShape(t) /\ DOMAIN t = StoreFields /\ t.rows = store.rows
      /\ t.route = store.route /\ ~t.loading /\ t.filesLoading = store.filesLoading
  BY <1>2, PageShown
<1>4. \E s : /\ CallEnds(k, s, pane, <<>>, FALSE)
             /\ StoreShape(s) /\ s.route = store.route /\ ~s.loading
             /\ s.filesLoading = store.filesLoading
  <2>1. PICK u : u = [t EXCEPT !.items = SetToSeq(kept), !.total = Cardinality(kept)]
    OBVIOUS
  <2>2. /\ StoreShape(u) /\ u.route = store.route /\ ~u.loading
        /\ u.filesLoading = store.filesLoading
    BY <1>3, <2>1 DEF StoreShape, StoreFields
  <2>3. CallEnds(k, u, pane, <<>>, FALSE) \/ CallEnds(k, t, pane, <<>>, FALSE)
    BY <1>2, <2>1 DEF ItemsAnswer
  <2> QED
    BY <1>3, <2>2, <2>3
<1>5. PICK s : /\ CallEnds(k, s, pane, <<>>, FALSE)
               /\ StoreShape(s) /\ s.route = store.route /\ ~s.loading
               /\ s.filesLoading = store.filesLoading
  BY <1>4
<1>6. Fits(c, store, disk) => Right(s, disk')
  BY <1>1, <1>5 DEF Fits, Right
<1>7. ~ClearsFiles(c) /\ \A flag : ~Tracks(c, flag, pane.no)
  BY <1>1 DEF ClearsFiles, Tracks
<1> QED
  BY <1>1, <1>5, <1>6, <1>7, EndStep, ViewKept

LEMMA ItemAnswered ==
  ASSUME DataInv, NEW k \in 1..Len(pending), NEW c, c = pending[k], ItemAnswer(k, c)
  PROVE  DataInv'
<1>1. c.kind = "item" /\ disk' = disk
  BY DEF ItemAnswer
<1>2. PICK u : u = idle(store)
  OBVIOUS
<1>3. PICK ok \in BOOLEAN :
        LET s == IF ok THEN [u EXCEPT !.item = c.folder] ELSE u
            t == [s EXCEPT !.filesLoading = TRUE]
        IN  IF c.then = "sync"
            THEN CallEnds(k, t, pane, <<loadFilesInternal(c.folder, t, "sync", 0)>>, ~ok)
            ELSE CallEnds(k, s, pane, <<>>, ~ok)
  BY <1>2 DEF ItemAnswer
<1>4. PICK s : s = IF ok THEN [u EXCEPT !.item = c.folder] ELSE u
  OBVIOUS
<1>5. /\ StoreShape(u) /\ DOMAIN u = StoreFields /\ u.rows = store.rows
      /\ u.route = store.route /\ u.item = store.item
      /\ ~u.loading /\ u.filesLoading = store.filesLoading
  BY <1>2, PageShown
<1>6. /\ StoreShape(s) /\ DOMAIN s = StoreFields /\ s.rows = store.rows
      /\ s.route = store.route /\ s.item \in {store.item, c.folder}
      /\ ~s.loading /\ s.filesLoading = store.filesLoading
  BY <1>4, <1>5 DEF StoreShape, StoreFields
<1>7. \A flag : ~Tracks(c, flag, pane.no)
  BY <1>1 DEF Tracks
<1>8. Fits(c, store, disk) => c.folder = store.item /\ Right(store, disk)
  BY <1>1 DEF Fits
<1>9. CASE c.then = "sync"
  <2>1. PICK t : t = [s EXCEPT !.filesLoading = TRUE]
    OBVIOUS
  <2>2. PICK d : d = loadFilesInternal(c.folder, t, "sync", 0)
    OBVIOUS
  <2>3. CallEnds(k, t, pane, <<d>>, ~ok)
    BY <1>3, <1>4, <1>9, <2>1, <2>2
  <2>4. StoreShape(t) /\ t.item = s.item /\ ~t.loading
    BY <1>6, <2>1 DEF StoreShape, StoreFields
  <2>5. CallShape(d) /\ d.kind = "list" /\ d.folder = c.folder
    BY <2>2, ListAsked
  <2>6. Fits(c, store, disk) => Fits(d, t, disk')
    BY <1>1, <1>6, <1>8, <2>4, <2>5 DEF Fits
  <2>7. ClearsFiles(d)
    BY <2>5 DEF ClearsFiles
  <2> QED
    BY <1>1, <1>7, <2>3, <2>4, <2>5, <2>6, <2>7, FollowStep, ViewKept
<1>10. CASE c.then # "sync"
  <2>1. CallEnds(k, s, pane, <<>>, ~ok)
    BY <1>3, <1>4, <1>10
  <2>2. Fits(c, store, disk) => Right(s, disk')
    BY <1>1, <1>6, <1>8 DEF Right
  <2>3. ~ClearsFiles(c)
    BY <1>1 DEF ClearsFiles
  <2> QED
    BY <1>1, <1>6, <1>7, <2>1, <2>2, <2>3, EndStep, ViewKept
<1> QED
  BY <1>9, <1>10

LEMMA PatchAnswered ==
  ASSUME DataInv, NEW k \in 1..Len(pending), NEW c, c = pending[k], PatchAnswer(k, c)
  PROVE  DataInv'
<1>1. c.kind = "patch"
  BY DEF PatchAnswer
<1>2. ~ClearsPage(c) /\ ~ClearsFiles(c) /\ \A flag : ~Tracks(c, flag, pane.no)
  BY <1>1 DEF ClearsPage, ClearsFiles, Tracks
<1>3. CASE /\ disk' = IF c.then = "name" THEN [disk EXCEPT ![c.value.id].name = c.value.name]
                      ELSE [disk EXCEPT ![c.value.id].on = c.value.on]
           /\ CallEnds(k, store, pane, <<>>, FALSE)
  <2>1. DiskShape(disk')
    BY <1>3, ViewKept DEF DiskShape, FileFields
  <2>2. Fits(c, store, disk) => Right(store, disk')
    <3> SUFFICES ASSUME Fits(c, store, disk), store.route # NoFolder
                 PROVE  Agrees(store.rows, store.item, disk')
      BY DEF Right
    <3>1. PatchFits(c, store, disk)
      BY <1>1 DEF Fits
    <3>2. PICK back, v : back = c.back /\ v = c.value
      OBVIOUS
    <3>3. Agrees(back, store.item, disk) /\ store.rows = changed(back, v)
      BY <3>1, <3>2 DEF PatchFits
    <3>4. PICK j \in 1..Len(back) :
            \/ c.then = "name" /\ \E name : v = [back[j] EXCEPT !.name = name]
            \/ c.then = "on" /\ \E on : v = [back[j] EXCEPT !.on = on]
      BY <3>1, <3>2 DEF PatchFits
    <3>5. PICK i : i = back[j].id
      OBVIOUS
    <3>6. /\ i \in FileNumbers /\ disk[i].home = store.item
          /\ back[j] = [id |-> i, name |-> disk[i].name, on |-> disk[i].on]
      BY <3>3, <3>5 DEF Agrees
    <3>7. v.id = i
      BY <3>4, <3>6
    <3>8. /\ disk'[i].home = store.item
          /\ v = [id |-> i, name |-> disk'[i].name, on |-> disk'[i].on]
      <4>1. CASE c.then = "name"
        <5>1. PICK name : v = [back[j] EXCEPT !.name = name]
          BY <3>4, <4>1
        <5>2. v = [id |-> i, name |-> name, on |-> disk[i].on] /\ v.name = name
          BY <5>1, <3>6
        <5>3. disk' = [disk EXCEPT ![i].name = name]
          BY <1>3, <3>2, <3>7, <4>1, <5>2
        <5>4. DOMAIN disk = FileNumbers /\ DOMAIN disk[i] = FileFields
          BY <3>6, ViewKept DEF DiskShape
        <5>5. disk'[i] = [disk[i] EXCEPT !.name = name]
          BY <5>3, <5>4, <3>6
        <5>6. disk'[i].home = disk[i].home /\ disk'[i].name = name /\ disk'[i].on = disk[i].on
          BY <5>4, <5>5 DEF FileFields
        <5> QED
          BY <5>2, <5>6, <3>6
      <4>2. CASE c.then # "name"
        <5>1. PICK on : v = [back[j] EXCEPT !.on = on]
          BY <3>4, <4>2
        <5>2. v = [id |-> i, name |-> disk[i].name, on |-> on] /\ v.on = on
          BY <5>1, <3>6
        <5>3. disk' = [disk EXCEPT ![i].on = on]
          BY <1>3, <3>2, <3>7, <4>2, <5>2
        <5>4. DOMAIN disk = FileNumbers /\ DOMAIN disk[i] = FileFields
          BY <3>6, ViewKept DEF DiskShape
        <5>5. disk'[i] = [disk[i] EXCEPT !.on = on]
          BY <5>3, <5>4, <3>6
        <5>6. disk'[i].home = disk[i].home /\ disk'[i].name = disk[i].name /\ disk'[i].on = on
          BY <5>4, <5>5 DEF FileFields
        <5> QED
          BY <5>2, <5>6, <3>6
      <4> QED
        BY <4>1, <4>2
    <3>9. \A l \in FileNumbers : l # i => disk'[l] = disk[l]
      BY <1>3, <3>2, <3>7, ViewKept DEF DiskShape
    <3>10. Len(back) \in Nat /\ DOMAIN back = 1..Len(back)
      BY <3>2, Elements DEF DataInv, DataShape, CallsShape, CallShape
    <3>11. PICK n \in Nat : n = Len(back)
      BY <3>10
    <3>12. PICK rows : rows = changed(back, v)
      OBVIOUS
    <3>13. rows = [l \in 1..n |-> rows[l]]
           /\ \A l \in 1..n : rows[l] = IF back[l].id = i THEN v ELSE back[l]
      BY <3>7, <3>10, <3>11, <3>12 DEF changed
    <3>14. Len(rows) = n
      BY <3>13, Listed
    <3>15. \A l \in 1..n :
             /\ rows[l].id \in FileNumbers /\ disk'[rows[l].id].home = store.item
             /\ rows[l] = [id |-> rows[l].id, name |-> disk'[rows[l].id].name,
                           on |-> disk'[rows[l].id].on]
      <4> TAKE l \in 1..n
      <4>1. CASE back[l].id = i
        <5>1. rows[l] = v
          BY <3>13, <4>1
        <5> QED
          BY <5>1, <3>6, <3>7, <3>8
      <4>2. CASE back[l].id # i
        <5>1. rows[l] = back[l]
          BY <3>13, <4>2
        <5>2. /\ back[l].id \in FileNumbers /\ disk[back[l].id].home = store.item
              /\ back[l] = [id |-> back[l].id, name |-> disk[back[l].id].name,
                            on |-> disk[back[l].id].on]
          BY <3>3, <3>11 DEF Agrees
        <5> QED
          BY <5>1, <5>2, <3>9, <4>2
      <4> QED
        BY <4>1, <4>2
    <3> QED
      BY <3>3, <3>12, <3>14, <3>15 DEF Agrees
  <2> QED
    BY <1>2, <1>3, <2>1, <2>2, EndStep, ViewKept DEF DataInv, Flagged
<1>4. CASE CallEnds(k, [store EXCEPT !.rows = c.back], pane, <<>>, FALSE) /\ disk' = disk
  <2>1. PICK s : s = [store EXCEPT !.rows = c.back]
    OBVIOUS
  <2>2. IsSeq(c.back)
    BY DEF DataInv, DataShape, CallsShape, CallShape
  <2>3. /\ StoreShape(s) /\ s.rows = c.back /\ s.route = store.route /\ s.item = store.item
        /\ s.loading = store.loading /\ s.filesLoading = store.filesLoading
    BY <2>1, <2>2, OtherRows
  <2>4. CallEnds(k, s, pane, <<>>, FALSE)
    BY <1>4, <2>1
  <2>5. Fits(c, store, disk) => Right(s, disk')
    BY <1>1, <1>4, <2>3 DEF Fits, PatchFits, Right
  <2> QED
    BY <1>2, <1>4, <2>3, <2>4, <2>5, EndStep, ViewKept
<1> QED
  BY <1>3, <1>4 DEF PatchAnswer

\* A write that took: the list is asked for.
LEMMA ListFollows ==
  ASSUME DataInv, NEW k \in 1..Len(pending), NEW c, c = pending[k],
         c.kind \in {"add", "update", "delete"}, Written(k, c), DiskShape(disk')
  PROVE  DataInv'
<1>1. PICK s : s = [store EXCEPT !.filesLoading = TRUE]
  OBVIOUS
<1>2. PICK d : d = loadFilesInternal(c.folder, s, c.then, c.pane)
  OBVIOUS
<1>3. CallEnds(k, s, pane, <<d>>, FALSE)
  BY <1>1, <1>2 DEF Written
<1>4. StoreShape(s) /\ s.item = store.item /\ s.loading = store.loading
  BY <1>1, FilesCovered
<1>5. /\ CallShape(d) /\ d.kind = "list" /\ d.folder = c.folder /\ d.then = c.then
      /\ d.pane = c.pane
  BY <1>2, ListAsked
<1>6. Fits(c, store, disk) => Fits(d, s, disk')
  BY <1>4, <1>5 DEF Fits
<1>7. ~ClearsPage(c) /\ ClearsFiles(d)
  BY <1>5 DEF ClearsPage, ClearsFiles
<1>8. \A flag : Tracks(c, flag, pane.no) => Tracks(d, flag, pane.no)
  BY <1>5 DEF Tracks
<1> QED
  BY <1>3, <1>4, <1>5, <1>6, <1>7, <1>8, FollowStep, ViewKept

\* A write that did not: the form stays as it is.
LEMMA WriteRefused ==
  ASSUME DataInv, NEW k \in 1..Len(pending), NEW c, c = pending[k],
         c.kind \in {"add", "update"}, disk' = disk,
         CallEnds(k, still(store), ended(c, FALSE), <<>>, FALSE)
  PROVE  DataInv'
<1>1. PICK s : s = still(store)
  OBVIOUS
<1>2. PICK p : p = ended(c, FALSE)
  OBVIOUS
<1>3. CallEnds(k, s, p, <<>>, FALSE)
  BY <1>1, <1>2
<1>4. /\ StoreShape(s) /\ s.loading = store.loading /\ ~s.filesLoading
      /\ Right(s, disk) <=> Right(store, disk)
  BY <1>1, FilesShown
<1>5. /\ PaneShape(p) /\ EditsFit(p) /\ p.no = pane.no
      /\ \A flag \in p.busy : flag \in pane.busy /\ ~Tracks(c, flag, p.no)
  BY <1>2, FormEnded
<1>6. Fits(c, store, disk) => Right(s, disk')
  BY <1>4 DEF Fits
<1>7. ~ClearsPage(c)
  BY DEF ClearsPage
<1> QED
  BY <1>3, <1>4, <1>5, <1>6, <1>7, EndStep, ViewKept

LEMMA FileAnswered ==
  ASSUME DataInv, NEW k \in 1..Len(pending), NEW c, c = pending[k],
         addFiles(k, c) \/ updateFile(k, c)
  PROVE  DataInv'
<1>1. DiskShape(disk)
  BY ViewKept
<1>2. CASE addFiles(k, c)
  <2>1. c.kind = "add"
    BY <1>2 DEF addFiles
  <2>2. CASE /\ disk' = [disk EXCEPT ![NewFile] = [home |-> c.folder, name |-> c.value.name,
                                                   on |-> TRUE]]
             /\ Written(k, c)
    <3>1. PICK file : file = [home |-> c.folder, name |-> c.value.name, on |-> TRUE]
      OBVIOUS
    <3>2. DOMAIN file = FileFields /\ disk' = [disk EXCEPT ![NewFile] = file]
      BY <2>2, <3>1 DEF FileFields
    <3>3. DiskShape(disk')
      BY <1>1, <3>2 DEF DiskShape
    <3> QED
      BY <2>1, <2>2, <3>3, ListFollows
  <2>3. CASE CallEnds(k, still(store), ended(c, FALSE), <<>>, FALSE) /\ disk' = disk
    BY <2>1, <2>3, WriteRefused
  <2> QED
    BY <1>2, <2>2, <2>3 DEF addFiles
<1>3. CASE updateFile(k, c)
  <2>1. c.kind = "update"
    BY <1>3 DEF updateFile
  <2>2. CASE /\ disk' = [disk EXCEPT ![c.value.id].name = c.value.name,
                                     ![c.value.id].on = c.value.on]
             /\ Written(k, c)
    <3>1. PICK half : half = [disk EXCEPT ![c.value.id].name = c.value.name]
      OBVIOUS
    <3>2. DiskShape(half)
      BY <1>1, <3>1 DEF DiskShape, FileFields
    <3>3. disk' = [half EXCEPT ![c.value.id].on = c.value.on]
      BY <2>2, <3>1
    <3>4. DiskShape(disk')
      BY <3>2, <3>3 DEF DiskShape, FileFields
    <3> QED
      BY <2>1, <2>2, <3>4, ListFollows
  <2>3. CASE CallEnds(k, still(store), ended(c, FALSE), <<>>, FALSE) /\ disk' = disk
    BY <2>1, <2>3, WriteRefused
  <2> QED
    BY <1>3, <2>2, <2>3 DEF updateFile
<1> QED
  BY <1>2, <1>3

LEMMA FileDeleted ==
  ASSUME DataInv, NEW k \in 1..Len(pending), NEW c, c = pending[k], NEW i, NEW ok \in BOOLEAN,
         c.kind = "delete",
         disk' = IF ok THEN [disk EXCEPT ![i].home = NoFolder] ELSE disk,
         store' = IF ok THEN store ELSE still(store),
         pending' = [pending EXCEPT ![k].files = @ \ {i}, ![k].failed = @ \/ ~ok],
         collided' = (collided \/ ~ok), pane' = pane
  PROVE  DataInv'
<1>1. PICK q, r : q = pending /\ r = pending'
  OBVIOUS
<1>2. CallsShape(q) /\ k \in 1..Len(q) /\ c = q[k]
  BY <1>1 DEF DataInv, DataShape
<1>3. PICK m \in Nat : m = Len(q) /\ DOMAIN q = 1..m
  BY <1>2, Elements DEF CallsShape
<1>4. PICK half : half = [q EXCEPT ![k].files = @ \ {i}]
  OBVIOUS
<1>5. r = [half EXCEPT ![k].failed = @ \/ ~ok]
  BY <1>1, <1>4
<1>6. PICK b : b = r[k]
  OBVIOUS
<1>7. b = [[c EXCEPT !.files = @ \ {i}] EXCEPT !.failed = @ \/ ~ok]
  BY <1>2, <1>3, <1>4, <1>5, <1>6
<1>8. DOMAIN c = CallFields /\ IsSeq(c.back)
  BY <1>2 DEF CallsShape, CallShape
<1>9. /\ DOMAIN b = CallFields /\ b.kind = "delete" /\ b.folder = c.folder /\ b.back = c.back
      /\ b.failed = (c.failed \/ ~ok) /\ b.then = c.then
  BY <1>7, <1>8 DEF CallFields
<1>10. /\ r = [j \in 1..m |-> r[j]]
       /\ \A j \in 1..m : j # k => r[j] = q[j]
  BY <1>3, <1>4, <1>5
<1>11. IsSeq(r) /\ Len(r) = m
  BY <1>10, Listed
<1>12. CallsShape(r)
  BY <1>2, <1>3, <1>6, <1>8, <1>9, <1>10, <1>11 DEF CallsShape, CallShape
<1>13. DiskShape(disk')
  BY ViewKept DEF DiskShape, FileFields
<1>14. /\ StoreShape(store') /\ store'.loading = store.loading
       /\ store'.filesLoading => store.filesLoading /\ ok
       /\ store'.item = store.item
  <2>1. CASE ok
    BY <2>1, ViewKept
  <2>2. CASE ~ok
    <3>1. PICK s : s = still(store)
      OBVIOUS
    <3> QED
      BY <2>2, <3>1, FilesShown
  <2> QED
    BY <2>1, <2>2
<1>15. collided' \/ Calm(r, store', disk')
  <2> SUFFICES ASSUME ~collided' PROVE Calm(r, store', disk')
    OBVIOUS
  <2>1. ~collided /\ ok
    OBVIOUS
  <2>2. Calm(q, store, disk)
    BY <1>1, <2>1 DEF DataInv
  <2>3. m = 1 /\ k = 1 /\ Fits(c, store, disk)
    <3>1. m # 0
      BY <1>2, <1>3
    <3>2. m = 1 /\ Fits(q[1], store, disk)
      BY <2>2, <3>1, <1>3 DEF Calm
    <3>3. k \in 1..m
      BY <1>2, <1>3
    <3>4. k = 1
      BY <3>2, <3>3
    <3> QED
      BY <3>2, <3>4, <1>2
  <2>4. Fits(b, store', disk')
    BY <2>1, <2>3, <1>9, <1>14 DEF Fits
  <2> QED
    BY <2>3, <2>4, <1>6, <1>11 DEF Calm
<1>16. Covered(store', r)
  <2>1. Covered(store, q)
    BY <1>1 DEF DataInv
  <2>2. store'.loading => \E j \in 1..m : ClearsPage(r[j])
    <3> SUFFICES ASSUME store'.loading PROVE \E j \in 1..m : ClearsPage(r[j])
      OBVIOUS
    <3>1. PICK j \in 1..m : ClearsPage(q[j])
      BY <2>1, <1>3, <1>14 DEF Covered
    <3>2. j # k
      BY <3>1, <1>2 DEF ClearsPage
    <3> QED
      BY <3>1, <3>2, <1>10
  <2>3. store'.filesLoading => \E j \in 1..m : ClearsFiles(r[j])
    <3> SUFFICES ASSUME store'.filesLoading PROVE \E j \in 1..m : ClearsFiles(r[j])
      OBVIOUS
    <3>1. PICK j \in 1..m : ClearsFiles(q[j])
      BY <2>1, <1>3, <1>14 DEF Covered
    <3>2. CASE j # k
      BY <3>1, <3>2, <1>10
    <3>3. CASE j = k
      <4>1. ~c.failed /\ ok
        BY <3>1, <3>3, <1>2, <1>14 DEF ClearsFiles
      <4>2. ClearsFiles(b)
        BY <4>1, <1>9 DEF ClearsFiles
      <4> QED
        BY <3>3, <4>2, <1>6
    <3> QED
      BY <3>2, <3>3
  <2> QED
    BY <2>2, <2>3, <1>11 DEF Covered
<1>17. Flagged(pane, r)
  <2> SUFFICES ASSUME NEW flag \in pane.busy PROVE \E j \in 1..m : Tracks(r[j], flag, pane.no)
    BY <1>11 DEF Flagged
  <2>1. PICK j \in 1..m : Tracks(q[j], flag, pane.no)
    BY <1>1, <1>3 DEF DataInv, Flagged
  <2>2. j # k
    BY <2>1, <1>2 DEF Tracks
  <2> QED
    BY <2>1, <2>2, <1>10
<1> QED
  BY <1>1, <1>12, <1>13, <1>14, <1>15, <1>16, <1>17, ViewKept DEF DataInv, DataShape

LEMMA DeletionAnswered ==
  ASSUME DataInv, NEW k \in 1..Len(pending), NEW c, c = pending[k], deleteFiles(k, c)
  PROVE  DataInv'
<1>1. c.kind = "delete"
  BY DEF deleteFiles
<1>2. CASE \E i \in c.files :
             /\ \E ok \in BOOLEAN :
                  /\ disk' = IF ok THEN [disk EXCEPT ![i].home = NoFolder] ELSE disk
                  /\ store' = IF ok THEN store ELSE still(store)
                  /\ pending' = [pending EXCEPT ![k].files = @ \ {i}, ![k].failed = @ \/ ~ok]
                  /\ collided' = (collided \/ ~ok)
             /\ UNCHANGED <<pane, touches>>
  <2>1. PICK i \in c.files, ok \in BOOLEAN :
          /\ disk' = IF ok THEN [disk EXCEPT ![i].home = NoFolder] ELSE disk
          /\ store' = IF ok THEN store ELSE still(store)
          /\ pending' = [pending EXCEPT ![k].files = @ \ {i}, ![k].failed = @ \/ ~ok]
          /\ collided' = (collided \/ ~ok)
          /\ pane' = pane
    BY <1>2
  <2> QED
    BY <1>1, <2>1, FileDeleted
<1>3. CASE /\ IF c.failed THEN CallEnds(k, store, pane, <<>>, FALSE) ELSE Written(k, c)
           /\ disk' = disk
  <2>1. CASE c.failed
    <3>1. CallEnds(k, store, pane, <<>>, FALSE)
      BY <1>3, <2>1
    <3>2. ~Fits(c, store, disk) /\ ~ClearsPage(c) /\ ~ClearsFiles(c)
      BY <1>1, <2>1 DEF Fits, ClearsPage, ClearsFiles
    <3>3. \A flag : ~Tracks(c, flag, pane.no)
      BY <1>1 DEF Tracks
    <3> QED
      BY <1>3, <3>1, <3>2, <3>3, EndStep, ViewKept
  <2>2. CASE ~c.failed
    BY <1>1, <1>3, <2>2, ListFollows, ViewKept
  <2> QED
    BY <2>1, <2>2
<1> QED
  BY <1>2, <1>3 DEF deleteFiles

\* A synchronisation and a change of the folder, which its reload follows.
LEMMA PageCallAnswered ==
  ASSUME DataInv, NEW k \in 1..Len(pending), NEW c, c = pending[k],
         syncFolder(k, c) \/ updateFolder(k, c)
  PROVE  DataInv'
<1>1. c.kind \in {"sync", "folder"} /\ disk' = disk
  BY DEF syncFolder, updateFolder
<1>2. PICK s, t : s = busyPage(store) /\ t = idle(store)
  OBVIOUS
<1>3. \/ \E then : CallEnds(k, s, paneAfter(s), <<loadItem(c.folder, then)>>, FALSE)
      \/ CallEnds(k, t, pane, <<>>, FALSE)
  BY <1>2 DEF syncFolder, updateFolder
<1>4. \A flag, no : ~Tracks(c, flag, no)
  BY <1>1 DEF Tracks
<1>5. ~ClearsFiles(c)
  BY <1>1 DEF ClearsFiles
<1>6. CASE \E then : CallEnds(k, s, paneAfter(s), <<loadItem(c.folder, then)>>, FALSE)
  <2>1. PICK then : CallEnds(k, s, paneAfter(s), <<loadItem(c.folder, then)>>, FALSE)
    BY <1>6
  <2>2. PICK d : d = loadItem(c.folder, then)
    OBVIOUS
  <2>3. PICK p : p = paneAfter(s)
    OBVIOUS
  <2>4. CallEnds(k, s, p, <<d>>, FALSE)
    BY <2>1, <2>2, <2>3
  <2>5. CallShape(d) /\ d.kind = "item" /\ d.folder = c.folder
    BY <2>2, ItemAsked
  <2>6. PaneShape(p) /\ EditsFit(p) /\ (p.busy = {} \/ p = pane)
    BY <2>3, BusyView
  <2>7. /\ StoreShape(s) /\ s.item = store.item /\ s.filesLoading = store.filesLoading
        /\ Right(s, disk) <=> Right(store, disk)
    BY <1>2, PageCovered
  <2>8. Fits(c, store, disk) => Fits(d, s, disk')
    BY <1>1, <2>5, <2>7 DEF Fits
  <2>9. ClearsPage(d)
    BY <2>5 DEF ClearsPage
  <2>10. \A flag \in p.busy : flag \in pane.busy /\ p.no = pane.no
    BY <2>6
  <2> QED
    BY <1>1, <1>4, <1>5, <2>4, <2>5, <2>6, <2>7, <2>8, <2>9, <2>10, FollowStep, ViewKept
<1>7. CASE CallEnds(k, t, pane, <<>>, FALSE)
  <2>1. /\ StoreShape(t) /\ ~t.loading /\ t.filesLoading = store.filesLoading
        /\ Right(t, disk) <=> Right(store, disk)
    BY <1>2, PageShown
  <2>2. Fits(c, store, disk) => Right(t, disk')
    BY <1>1, <2>1 DEF Fits
  <2> QED
    BY <1>1, <1>4, <1>5, <1>7, <2>1, <2>2, EndStep, ViewKept
<1> QED
  BY <1>3, <1>6, <1>7

\* The folders' own calls.
LEMMA FolderAnswered ==
  ASSUME DataInv, NEW k \in 1..Len(pending), NEW c, c = pending[k],
         createFolder(k, c) \/ deleteFolder(k, c)
  PROVE  DataInv'
<1>1. c.kind \in {"create", "drop"}
  BY DEF createFolder, deleteFolder
<1>2. PICK t : t = idle(store)
  OBVIOUS
<1>3. /\ StoreShape(t) /\ DOMAIN t = StoreFields /\ t.route = store.route /\ ~t.loading
      /\ t.filesLoading = store.filesLoading
  BY <1>2, PageShown
<1>4. \E s : /\ CallEnds(k, s, pane, <<>>, FALSE)
             /\ StoreShape(s) /\ s.route = store.route /\ ~s.loading
             /\ s.filesLoading = store.filesLoading
  <2>1. CASE CallEnds(k, t, pane, <<>>, FALSE)
    BY <1>3, <2>1
  <2>2. CASE CallEnds(k, [t EXCEPT !.items = <<NewFolder>> \o @, !.total = @ + 1], pane, <<>>,
                      FALSE)
    <3>1. PICK s : s = [t EXCEPT !.items = <<NewFolder>> \o @, !.total = @ + 1]
      OBVIOUS
    <3>2. /\ StoreShape(s) /\ s.route = store.route /\ ~s.loading
          /\ s.filesLoading = store.filesLoading
      BY <1>3, <3>1 DEF StoreShape, StoreFields
    <3> QED
      BY <2>2, <3>1, <3>2
  <2>3. CASE CallEnds(k, [t EXCEPT !.items = SelectSeq(@, LAMBDA f : f # c.folder)], pane, <<>>,
                      FALSE)
    <3>1. PICK items : items = SelectSeq(t.items, LAMBDA f : f # c.folder)
      OBVIOUS
    <3>2. PICK s : s = [t EXCEPT !.items = items]
      OBVIOUS
    <3>3. /\ StoreShape(s) /\ s.route = store.route /\ ~s.loading
          /\ s.filesLoading = store.filesLoading
      BY <1>3, <3>2 DEF StoreShape, StoreFields
    <3>4. CallEnds(k, s, pane, <<>>, FALSE)
      BY <2>3, <3>1, <3>2
    <3> QED
      BY <3>3, <3>4
  <2>4. \/ CallEnds(k, t, pane, <<>>, FALSE)
        \/ CallEnds(k, [t EXCEPT !.items = <<NewFolder>> \o @, !.total = @ + 1], pane, <<>>,
                    FALSE)
        \/ CallEnds(k, [t EXCEPT !.items = SelectSeq(@, LAMBDA f : f # c.folder)], pane, <<>>,
                    FALSE)
    BY <1>2 DEF createFolder, deleteFolder
  <2> QED
    BY <2>1, <2>2, <2>3, <2>4
<1>5. PICK s : /\ CallEnds(k, s, pane, <<>>, FALSE)
               /\ StoreShape(s) /\ s.route = store.route /\ ~s.loading
               /\ s.filesLoading = store.filesLoading
  BY <1>4
<1>6. Fits(c, store, disk) => Right(s, disk')
  BY <1>1, <1>5 DEF Fits, Right
<1>7. ~ClearsFiles(c) /\ \A flag : ~Tracks(c, flag, pane.no)
  BY <1>1 DEF ClearsFiles, Tracks
<1>8. DiskShape(disk')
  <2>1. \/ disk' = disk
        \/ disk' = [i \in FileNumbers |->
                      IF disk[i].home = c.folder THEN [disk[i] EXCEPT !.home = NoFolder]
                      ELSE disk[i]]
    BY DEF createFolder, deleteFolder
  <2> QED
    BY <2>1, ViewKept DEF DiskShape, FileFields
<1> QED
  BY <1>5, <1>6, <1>7, <1>8, EndStep, ViewKept

----------------------------------------------------------------------------
(* The invariant and the theorem.                                          *)

LEMMA DataStarts == DataInit => DataInv
<1> SUFFICES ASSUME DataInit PROVE DataInv
  OBVIOUS
<1>1. PICK f : /\ store = [route |-> f, item |-> NoFolder, loading |-> TRUE, items |-> <<>>,
                           total |-> 0, rows |-> <<>>, count |-> 0, filter |-> AllFiles,
                           filesLoading |-> FALSE]
               /\ pending = <<Call("detail", f)>>
  BY DEF DataInit
<1>2. DOMAIN store = StoreFields /\ store.rows = <<>> /\ ~store.filesLoading
  BY <1>1 DEF StoreFields
<1>3. StoreShape(store) /\ Len(store.rows) = 0
  BY <1>2, EmptyListed DEF StoreShape
<1>4. PaneShape(pane) /\ EditsFit(pane) /\ pane.busy = {}
  BY NewView DEF DataInit
<1>5. PICK c : c = Call("detail", f)
  OBVIOUS
<1>6. CallShape(c) /\ c.kind = "detail"
  BY <1>5, PlainCall
<1>7. CallsShape(pending) /\ Len(pending) = 1 /\ pending[1] = c
  BY <1>1, <1>5, <1>6, OneCall
<1>8. DiskShape(disk)
  BY DEF DataInit, DiskShape, FileFields
<1>9. Fits(c, store, disk) /\ ClearsPage(c)
  BY <1>3, <1>6 DEF Fits, ClearsPage
<1>10. 1 \in 1..Len(pending)
  BY <1>7
<1>11. Covered(store, pending) /\ Flagged(pane, pending) /\ Calm(pending, store, disk)
  BY <1>2, <1>4, <1>7, <1>9, <1>10 DEF Covered, Flagged, Calm
<1> QED
  BY <1>3, <1>4, <1>7, <1>8, <1>11 DEF DataInv, DataShape

LEMMA DataStep == DataInv /\ [DataNext]_dataVars => DataInv'
<1> SUFFICES ASSUME DataInv, [DataNext]_dataVars PROVE DataInv'
  OBVIOUS
<1>1. CASE UNCHANGED dataVars
  BY <1>1 DEF dataVars, DataInv, DataShape
<1>2. CASE \E f \in kept : loadDetail(f)
  BY <1>2, DetailLoads
<1>3. CASE load
  BY <1>3, FoldersLoad
<1>4. CASE updateFilesFilter
  BY <1>4, FilesTurned
<1>5. CASE \/ selectAllChange \/ toggleItemSelection \/ onEditName \/ updateEditingValue
           \/ onAddData \/ onAddDataSp \/ onEditLearningData \/ onEditFileChange \/ closeForm
  BY <1>5, ViewTurned
<1>6. CASE onSaveRename
  BY <1>6, NamesSaved
<1>7. CASE onToggleLearning
  BY <1>7, LearningToggled
<1>8. CASE onDeleteFile \/ onDeleteSelectedFiles
  BY <1>8, FilesDeleted
<1>9. CASE onSync \/ submitNewFolder \/ submitShownFolder
  BY <1>9, PageCalls
<1>10. CASE onSubmitAddData \/ onSubmitEditData
  BY <1>10, FormsSent
<1>11. CASE onDeleteFolder
  BY <1>11, FolderDropped
<1>12. ASSUME NEW k \in DOMAIN pending, NEW c, c = pending[k],
              \/ DetailAnswer(k, c) \/ UsersAnswer(k, c) \/ FilesAnswer(k, c)
              \/ ItemsAnswer(k, c) \/ ItemAnswer(k, c) \/ PatchAnswer(k, c)
              \/ addFiles(k, c) \/ updateFile(k, c) \/ deleteFiles(k, c)
              \/ syncFolder(k, c) \/ createFolder(k, c) \/ updateFolder(k, c)
              \/ deleteFolder(k, c)
       PROVE  DataInv'
  <2>1. k \in 1..Len(pending)
    BY Elements DEF DataInv, DataShape, CallsShape
  <2>2. CASE DetailAnswer(k, c)
    BY <2>1, <2>2, <1>12, DetailAnswered
  <2>3. CASE UsersAnswer(k, c)
    BY <2>1, <2>3, <1>12, UsersAnswered
  <2>4. CASE FilesAnswer(k, c)
    BY <2>1, <2>4, <1>12, FilesAnswered
  <2>5. CASE ItemsAnswer(k, c)
    BY <2>1, <2>5, <1>12, ItemsAnswered
  <2>6. CASE ItemAnswer(k, c)
    BY <2>1, <2>6, <1>12, ItemAnswered
  <2>7. CASE PatchAnswer(k, c)
    BY <2>1, <2>7, <1>12, PatchAnswered
  <2>8. CASE addFiles(k, c) \/ updateFile(k, c)
    BY <2>1, <2>8, <1>12, FileAnswered
  <2>9. CASE deleteFiles(k, c)
    BY <2>1, <2>9, <1>12, DeletionAnswered
  <2>10. CASE syncFolder(k, c) \/ updateFolder(k, c)
    BY <2>1, <2>10, <1>12, PageCallAnswered
  <2>11. CASE createFolder(k, c) \/ deleteFolder(k, c)
    BY <2>1, <2>11, <1>12, FolderAnswered
  <2> QED
    BY <1>12, <2>2, <2>3, <2>4, <2>5, <2>6, <2>7, <2>8, <2>9, <2>10, <2>11
<1> QED
  BY <1>1, <1>2, <1>3, <1>4, <1>5, <1>6, <1>7, <1>8, <1>9, <1>10, <1>11, <1>12 DEF DataNext

LEMMA DataAgrees == DataInv => FilesAgree
<1> SUFFICES ASSUME DataInv PROVE FilesAgree
  OBVIOUS
<1>1. Len(pending) \in Nat /\ DOMAIN pending = 1..Len(pending)
  BY Elements DEF DataInv, DataShape, CallsShape
<1>2. DOMAIN store.rows = 1..Len(store.rows)
  BY Elements DEF DataInv, DataShape, StoreShape
<1>3. RowsAgree
  <2> SUFFICES ASSUME pending = <<>>, ~collided, FolderShown, NEW r \in Row
               PROVE  /\ disk[r.id].home = store.item
                      /\ disk[r.id].name = r.name
                      /\ disk[r.id].on = r.on
    BY DEF RowsAgree
  <2>1. Len(pending) = 0
    BY EmptyListed
  <2>2. Calm(pending, store, disk) /\ store.route # NoFolder
    BY DEF DataInv, FolderShown
  <2>3. Agrees(store.rows, store.item, disk)
    BY <2>1, <2>2 DEF Calm, Right
  <2>4. PICK k \in 1..Len(store.rows) : r = store.rows[k]
    BY <1>2 DEF Row
  <2>5. /\ disk[r.id].home = store.item
        /\ r = [id |-> r.id, name |-> disk[r.id].name, on |-> disk[r.id].on]
    BY <2>3, <2>4 DEF Agrees
  <2>6. PICK name, on : name = disk[r.id].name /\ on = disk[r.id].on
    OBVIOUS
  <2>7. r = [id |-> r.id, name |-> name, on |-> on]
    BY <2>5, <2>6
  <2>8. r.name = name /\ r.on = on
    BY <2>7
  <2> QED
    BY <2>5, <2>6, <2>8
<1>4. EditsAreChosen
  BY DEF DataInv, EditsFit, EditsAreChosen
<1>5. PagesRecover
  BY <1>1 DEF DataInv, Covered, Flagged, Tracks, PagesRecover
<1> QED
  BY <1>3, <1>4, <1>5 DEF FilesAgree

\* For any folders, files and number of steps: at rest, as long as nothing
\* collided, the rows of a folder's page are its files as the service has them;
\* the names being edited are of the chosen files; and what covers the page, or
\* disables a form of the view shown, has a call on its way that clears it
\* (TrainingDataStore, LocalView and CloudView).
THEOREM FilesAreTrue == DataSpec => []FilesAgree
<1>1. DataInit => DataInv
  BY DataStarts
<1>2. DataInv /\ [DataNext]_dataVars => DataInv'
  BY DataStep
<1>3. DataInv => FilesAgree
  BY DataAgrees
<1> QED
  BY <1>1, <1>2, <1>3, PTL DEF DataSpec
=============================================================================
