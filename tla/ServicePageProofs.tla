------------------------- MODULE ServicePageProofs -------------------------
(***************************************************************************)
(* The service page, for any names, ids, users and texts, any number of    *)
(* requests under way and any history of other operators and clients: what *)
(* it shows when all is quiet, what it offers, and what becomes of blocks. *)
(*                                                                         *)
(* The page works on copies, so each property needs to be told of what is  *)
(* under way: what every request was offered on and judged by, and which   *)
(* refreshes will bring the page up to date.                               *)
(***************************************************************************)
EXTENDS ServicePage, SequenceTheorems, TLAPS

Copy == [name : Name, rec : Service]

\* What listInstances may answer.
Listing == UNION {[S -> Instance] : S \in SUBSET Id}

Stage == {"sent", "judged", "served"} \union Refused

Shape(kinds, ids, args) ==
    [kind : kinds, name : Name, id : ids, arg : args, at : Name \union {""}, no : Nat,
     shown : Copy \union {None}, seen : Service \union {None}, st : Stage]

\* The requests with their arguments.
Request ==
    Shape({"putService"}, {0}, BOOLEAN)
    \union Shape({"rename"}, {0}, Name)
    \union Shape({"addGrant", "removeGrant"}, {0}, User)
    \union Shape({"deleteService"}, {0}, {None})
    \union Shape({"put"}, Id, Text)
    \union Shape({"delete", "check"}, Id, {None})
    \union Shape({"block"}, Id, BOOLEAN)

Reading == [kind : {"refresh"}, name : Name, at : Name, st : {"sent"},
            got : SUBSET {"service", "instances"}, svc : Service \union {None},
            insts : Listing, late : BOOLEAN]

DialogBox == [kind : {"meta", "delService", "inst", "delInst"}, id : Id \union {0},
              saving : BOOLEAN, no : Nat, shown : Copy,
              hit : User \union {""}, busy : User \union {""}, refused : BOOLEAN]

-----------------------------------------------------------------------------
(* The invariant.                                                          *)

\* The server: an instance's service is there, a block is as it was asked for
\* and a key without an instance has no block to remember.
ServerInv ==
    /\ svc \in [Name -> Service \union {None}]
    /\ inst \in [Key -> Instance \union {None}]
    /\ wanted \in [Key -> BOOLEAN]
    /\ \A k \in Key : inst[k] # None => svc[k[1]] # None /\ inst[k].blocked = wanted[k]
    /\ \A k \in Key : inst[k] = None => wanted[k] = FALSE

\* A request was offered on a copy that permits it, and is past the server's
\* judgement only if what the server read permits it.
Offered(j) ==
    /\ j.st \in {"sent", "denied"} => /\ j.shown # None
                                      /\ j.shown.name = j.name => Permitted(j, j.shown.rec)
    /\ j.st = "denied" => ~Permitted(j, j.seen)
    /\ j.st = "judged" => Permitted(j, j.seen)

JobOK(j) == j \in Reading \/ (j \in Request /\ Offered(j))

JobsInv == \A j \in jobs : JobOK(j)

DialogOK(d) == \/ d = None
               \/ /\ d \in DialogBox /\ CanEdit(d.shown.rec)
                  /\ d.kind = "delInst" => d.id \in Id

\* A page that was left has no copies, no dialog, no watch and no refreshes.
PageInv ==
    /\ name \in Name \union {""} /\ isAdmin \in BOOLEAN
    /\ service \in Copy \union {None} /\ insts \in Listing
    /\ DialogOK(dialog) /\ (dialog # None => service # None)
    /\ checking \subseteq Id
    /\ live \in BOOLEAN /\ notice \in BOOLEAN /\ missed \in BOOLEAN /\ steps \in Nat
    /\ notice => live
    /\ name = "" => /\ service = None /\ ~live
                    /\ \A j \in jobs : j \notin Reading /\ j.at = ""

\* What the refresh has read so far is still so.
Fresh(r) == /\ "service" \in r.got => r.svc = svc[r.name]
            /\ "instances" \in r.got => r.insts = Instances(r.name)

Current == service.rec = svc[name] /\ insts = Instances(name)

\* Unless something was lost, the page is up to date or will be: an event is
\* on its way, or a refresh that has read nothing old, or only such refreshes
\* are left as will be noticed to be late.
Following ==
    ~missed /\ name # "" =>
        \/ notice
        \/ svc[name] = None
        \/ \E r \in jobs : r \in Reading /\ r.name = name /\ Fresh(r)
        \/ /\ \A r \in jobs : r \in Reading /\ r.name = name => r.late
           /\ service # None /\ service.name = name => Current

Inv == ServerInv /\ JobsInv /\ PageInv /\ Following

-----------------------------------------------------------------------------
(* None is no record.                                                      *)
LEMMA NoneIsNothing ==
    /\ None \notin Service /\ None \notin Instance /\ None \notin Copy /\ None \notin DialogBox
  BY DEF None, Service, Instance, Copy, DialogBox

(* The server and the page change the stage of a request, what it was      *)
(* judged by and shown on, and the page it belongs to.                     *)
LEMMA ShapeKept ==
    ASSUME NEW kinds, NEW ids, NEW args, NEW j \in Shape(kinds, ids, args),
           NEW s \in Stage, NEW seen \in Service \union {None}, NEW shown \in Copy \union {None}
    PROVE  /\ [j EXCEPT !.st = s] \in Shape(kinds, ids, args)
           /\ [j EXCEPT !.st = s, !.seen = seen, !.shown = shown] \in Shape(kinds, ids, args)
           /\ [j EXCEPT !.seen = seen, !.st = s] \in Shape(kinds, ids, args)
           /\ [j EXCEPT !.at = ""] \in Shape(kinds, ids, args)
  BY DEF Shape

(* A request is no refresh; what a request carries depends on its kind.    *)
LEMMA Kinds ==
    /\ \A j \in Reading : j.kind = "refresh" /\ j.name \in Name /\ j.at \in Name
    /\ \A j \in Request :
          /\ j.kind # "refresh" /\ j.name \in Name /\ j.at \in Name \union {""}
          /\ j.seen \in Service \union {None} /\ j.shown \in Copy \union {None} /\ j.st \in Stage
          /\ j.kind \in {"putService", "block"} => j.arg \in BOOLEAN
          /\ j.kind = "rename" => j.arg \in Name
          /\ j.kind \in {"addGrant", "removeGrant"} => j.arg \in User
          /\ j.kind = "put" => j.arg \in Text
          /\ j.kind \in {"put", "delete", "check", "block"} => j.id \in Id
          /\ j.kind \in {"putService", "rename", "addGrant", "removeGrant", "deleteService",
                         "put", "delete", "check", "block"}
    /\ \A j \in Request, s \in Stage, seen \in Service \union {None},
          shown \in Copy \union {None} :
          /\ [j EXCEPT !.st = s] \in Request
          /\ [j EXCEPT !.st = s, !.seen = seen, !.shown = shown] \in Request
          /\ [j EXCEPT !.seen = seen, !.st = s] \in Request
          /\ [j EXCEPT !.at = ""] \in Request
<1>1. \A j \in Reading : j.kind = "refresh" /\ j.name \in Name /\ j.at \in Name
  BY DEF Reading
<1>2. \A j \in Request :
          /\ j.kind # "refresh" /\ j.name \in Name /\ j.at \in Name \union {""}
          /\ j.seen \in Service \union {None} /\ j.shown \in Copy \union {None} /\ j.st \in Stage
          /\ j.kind \in {"putService", "block"} => j.arg \in BOOLEAN
          /\ j.kind = "rename" => j.arg \in Name
          /\ j.kind \in {"addGrant", "removeGrant"} => j.arg \in User
          /\ j.kind = "put" => j.arg \in Text
          /\ j.kind \in {"put", "delete", "check", "block"} => j.id \in Id
          /\ j.kind \in {"putService", "rename", "addGrant", "removeGrant", "deleteService",
                         "put", "delete", "check", "block"}
  <2> SUFFICES ASSUME NEW j \in Request
               PROVE  /\ j.kind # "refresh" /\ j.name \in Name /\ j.at \in Name \union {""}
                      /\ j.seen \in Service \union {None} /\ j.shown \in Copy \union {None}
                      /\ j.st \in Stage
                      /\ j.kind \in {"putService", "block"} => j.arg \in BOOLEAN
                      /\ j.kind = "rename" => j.arg \in Name
                      /\ j.kind \in {"addGrant", "removeGrant"} => j.arg \in User
                      /\ j.kind = "put" => j.arg \in Text
                      /\ j.kind \in {"put", "delete", "check", "block"} => j.id \in Id
                      /\ j.kind \in {"putService", "rename", "addGrant", "removeGrant",
                                     "deleteService", "put", "delete", "check", "block"}
    OBVIOUS
  <2>1. ASSUME NEW kinds, NEW ids, NEW args, j \in Shape(kinds, ids, args)
        PROVE  /\ j.kind \in kinds /\ j.id \in ids /\ j.arg \in args
               /\ j.name \in Name /\ j.at \in Name \union {""} /\ j.st \in Stage
               /\ j.seen \in Service \union {None} /\ j.shown \in Copy \union {None}
    BY <2>1 DEF Shape
  <2>2. \/ j.kind = "putService" /\ j.arg \in BOOLEAN
        \/ j.kind = "rename" /\ j.arg \in Name
        \/ j.kind \in {"addGrant", "removeGrant"} /\ j.arg \in User
        \/ j.kind = "deleteService"
        \/ j.kind = "put" /\ j.id \in Id /\ j.arg \in Text
        \/ j.kind \in {"delete", "check"} /\ j.id \in Id
        \/ j.kind = "block" /\ j.id \in Id /\ j.arg \in BOOLEAN
    <3>1. CASE j \in Shape({"putService"}, {0}, BOOLEAN)
      BY <3>1 DEF Shape
    <3>2. CASE j \in Shape({"rename"}, {0}, Name)
      BY <3>2 DEF Shape
    <3>3. CASE j \in Shape({"addGrant", "removeGrant"}, {0}, User)
      BY <3>3 DEF Shape
    <3>4. CASE j \in Shape({"deleteService"}, {0}, {None})
      BY <3>4 DEF Shape
    <3>5. CASE j \in Shape({"put"}, Id, Text)
      BY <3>5 DEF Shape
    <3>6. CASE j \in Shape({"delete", "check"}, Id, {None})
      BY <3>6 DEF Shape
    <3>7. CASE j \in Shape({"block"}, Id, BOOLEAN)
      BY <3>7 DEF Shape
    <3> QED
      BY <3>1, <3>2, <3>3, <3>4, <3>5, <3>6, <3>7 DEF Request
  <2>3. /\ j.name \in Name /\ j.at \in Name \union {""} /\ j.st \in Stage
        /\ j.seen \in Service \union {None} /\ j.shown \in Copy \union {None}
    BY <2>1 DEF Request
  <2> QED
    BY <2>2, <2>3
<1>3. ASSUME NEW j \in Request, NEW s \in Stage, NEW seen \in Service \union {None},
             NEW shown \in Copy \union {None}
      PROVE  /\ [j EXCEPT !.st = s] \in Request
             /\ [j EXCEPT !.st = s, !.seen = seen, !.shown = shown] \in Request
             /\ [j EXCEPT !.seen = seen, !.st = s] \in Request
             /\ [j EXCEPT !.at = ""] \in Request
  <2>1. ASSUME NEW kinds, NEW ids, NEW args, j \in Shape(kinds, ids, args),
               Shape(kinds, ids, args) \subseteq Request
        PROVE  /\ [j EXCEPT !.st = s] \in Request
               /\ [j EXCEPT !.st = s, !.seen = seen, !.shown = shown] \in Request
               /\ [j EXCEPT !.seen = seen, !.st = s] \in Request
               /\ [j EXCEPT !.at = ""] \in Request
    BY <1>3, <2>1, ShapeKept
  <2>2. \E kinds, ids, args : /\ j \in Shape(kinds, ids, args)
                              /\ Shape(kinds, ids, args) \subseteq Request
    <3> HIDE DEF Shape
    <3> QED
      BY <1>3 DEF Request
  <2>3. PICK kinds, ids, args : /\ j \in Shape(kinds, ids, args)
                               /\ Shape(kinds, ids, args) \subseteq Request
    BY <2>2
  <2> QED
    BY <2>1, <2>3
<1> QED
  BY <1>1, <1>2, <1>3

(* An answer of listInstances is a listing; so is the empty one.           *)
LEMMA Listings ==
    /\ <<>> \in Listing
    /\ ServerInv => \A n \in Name : Instances(n) \in Listing
    /\ \A f \in Listing : \A i \in DOMAIN f : i \in Id /\ f[i] \in Instance
<1>1. <<>> \in Listing
  <2>1. <<>> \in [1..0 -> Instance]
    <3>1. <<>> \in Seq(Instance) /\ Len(<<>>) = 0
      BY EmptySeq
    <3> DEFINE q == <<>>
    <3> HIDE DEF q
    <3>2. q \in Seq(Instance) /\ Len(q) = 0
      BY <3>1 DEF q
    <3>3. q \in [1..0 -> Instance]
      BY <3>2, LenProperties
    <3> QED
      BY <3>3 DEF q
  <2>2. 1..0 = {} /\ {} \in SUBSET Id
    OBVIOUS
  <2> QED
    BY <2>1, <2>2 DEF Listing
<1>2. ASSUME ServerInv, NEW n \in Name PROVE Instances(n) \in Listing
  <2> DEFINE S == {i \in Id : inst[<<n, i>>] # None}
  <2>1. \A i \in S : inst[<<n, i>>] \in Instance
    BY <1>2 DEF ServerInv, Key
  <2>2. Instances(n) \in [S -> Instance] /\ S \in SUBSET Id
    BY <2>1 DEF Instances
  <2> HIDE DEF S
  <2> QED
    BY <2>2 DEF Listing
<1>3. \A f \in Listing : \A i \in DOMAIN f : i \in Id /\ f[i] \in Instance
  BY DEF Listing
<1> QED
  BY <1>1, <1>2, <1>3

-----------------------------------------------------------------------------
(* The server's writes keep its invariant and touch no service but those   *)
(* of the event that is emitted.                                           *)

OnlyTouches(ns) ==
    \A n \in Name \ ns : /\ svc'[n] = svc[n]
                         /\ \A i \in Id : inst'[<<n, i>>] = inst[<<n, i>>]

(* A key is the pair of its parts.                                         *)
LEMMA KeyParts == \A k \in Key : k[1] \in Name /\ k[2] \in Id /\ k = <<k[1], k[2]>>
  BY DEF Key

(* PutService and the grants' handlers write one service.                  *)
LEMMA WriteService ==
    ASSUME ServerInv, NEW n \in Name, NEW rec \in Service, svc' = [svc EXCEPT ![n] = rec],
           UNCHANGED <<inst, wanted>>
    PROVE  ServerInv' /\ OnlyTouches({n})
<1>1. /\ svc' \in [Name -> Service \union {None}] /\ svc'[n] # None
      /\ \A m \in Name \ {n} : svc'[m] = svc[m]
  BY NoneIsNothing DEF ServerInv
<1> QED
  BY <1>1, KeyParts DEF ServerInv, OnlyTouches

(* DeleteService takes the instances along.                                *)
LEMMA DropService ==
    ASSUME ServerInv, NEW n \in Name, Without(n)
    PROVE  ServerInv' /\ OnlyTouches({n})
<1>1. /\ svc' \in [Name -> Service \union {None}]
      /\ \A m \in Name \ {n} : svc'[m] = svc[m]
  BY DEF ServerInv, Without
<1>2. /\ inst' \in [Key -> Instance \union {None}]
      /\ \A k \in Key : inst'[k] = IF k[1] = n THEN None ELSE inst[k]
  BY DEF ServerInv, Without
<1>3. /\ wanted' \in [Key -> BOOLEAN]
      /\ \A k \in Key : wanted'[k] = IF k[1] = n THEN FALSE ELSE wanted[k]
  BY DEF ServerInv, Without
<1>4. \A m \in Name \ {n}, i \in Id : inst'[<<m, i>>] = inst[<<m, i>>]
  BY <1>2 DEF Key
<1> QED
  BY <1>1, <1>2, <1>3, <1>4, KeyParts DEF ServerInv, OnlyTouches

(* Writing one instance of a service that is there afterwards.             *)
LEMMA WriteInstance ==
    ASSUME ServerInv, NEW k \in Key, NEW rec \in Instance \union {None}, NEW b \in BOOLEAN,
           svc' \in [Name -> Service \union {None}],
           \A n \in Name \ {k[1]} : svc'[n] = svc[n],
           svc[k[1]] # None => svc'[k[1]] # None,
           inst' = [inst EXCEPT ![k] = rec], wanted' = [wanted EXCEPT ![k] = b],
           rec # None => svc'[k[1]] # None /\ rec.blocked = b,
           rec = None => b = FALSE
    PROVE  ServerInv' /\ OnlyTouches({k[1]})
<1>1. /\ inst' \in [Key -> Instance \union {None}] /\ inst'[k] = rec
      /\ \A x \in Key \ {k} : inst'[x] = inst[x]
  BY DEF ServerInv
<1>2. /\ wanted' \in [Key -> BOOLEAN] /\ wanted'[k] = b
      /\ \A x \in Key \ {k} : wanted'[x] = wanted[x]
  BY DEF ServerInv
<1>3. ASSUME NEW x \in Key, inst'[x] # None
      PROVE  svc'[x[1]] # None /\ inst'[x].blocked = wanted'[x]
  <2>1. CASE x = k
    BY <1>1, <1>2, <1>3, <2>1
  <2>2. CASE x # k
    BY <1>1, <1>2, <1>3, <2>2, KeyParts DEF ServerInv
  <2> QED
    BY <2>1, <2>2
<1>4. ASSUME NEW x \in Key, inst'[x] = None PROVE wanted'[x] = FALSE
  <2>1. CASE x = k
    BY <1>1, <1>2, <1>4, <2>1
  <2>2. CASE x # k
    BY <1>1, <1>2, <1>4, <2>2 DEF ServerInv
  <2> QED
    BY <2>1, <2>2
<1>5. \A n \in Name \ {k[1]}, i \in Id : inst'[<<n, i>>] = inst[<<n, i>>]
  BY <1>1 DEF Key
<1> QED
  BY <1>1, <1>2, <1>3, <1>4, <1>5 DEF ServerInv, OnlyTouches

(* The service that PutInstance makes up is one.                           *)
LEMMA StubIsService == [owner |-> "", grants |-> {}, private |-> FALSE] \in Service
  BY DEF Service

(* A registration, or the operator's save, keeps the block.                *)
LEMMA PutInstanceWrites ==
    ASSUME ServerInv, NEW k \in Key, NEW m \in BOOLEAN, NEW t \in Text,
           PutInstance(k, m, t), wanted' = wanted
    PROVE  ServerInv' /\ OnlyTouches({k[1]})
<1> DEFINE b == inst[k] # None /\ inst[k].blocked
           rec == [managed |-> m, blocked |-> b, text |-> t]
           stub == [owner |-> "", grants |-> {}, private |-> FALSE]
<1>1. k[1] \in Name
  BY KeyParts
<1>2. b \in BOOLEAN /\ b = wanted[k]
  BY DEF ServerInv, Instance
<1>3. inst' = [inst EXCEPT ![k] = rec]
  BY DEF PutInstance, ServerInv
<1> HIDE DEF b
<1>4. rec \in Instance /\ rec.blocked = b /\ rec # None
  BY <1>2, NoneIsNothing DEF Instance
<1>5. stub \in Service /\ stub # None
  BY StubIsService, NoneIsNothing
<1>6. svc' = svc \/ svc' = [svc EXCEPT ![k[1]] = stub]
  BY <1>1 DEF PutInstance, ServerInv
<1>7. svc[k[1]] = None => svc' = [svc EXCEPT ![k[1]] = stub]
  BY <1>1 DEF PutInstance, ServerInv
<1> HIDE DEF rec, stub
<1>8. /\ svc' \in [Name -> Service \union {None}] /\ svc'[k[1]] # None
      /\ \A n \in Name \ {k[1]} : svc'[n] = svc[n]
  <2>1. CASE svc' = svc
    BY <1>1, <1>5, <1>7, <2>1 DEF ServerInv
  <2>2. CASE svc' = [svc EXCEPT ![k[1]] = stub]
    BY <1>1, <1>5, <2>2 DEF ServerInv
  <2> QED
    BY <1>6, <2>1, <2>2
<1>9. wanted' = [wanted EXCEPT ![k] = b]
  BY <1>2 DEF ServerInv
<1> QED
  BY <1>2, <1>3, <1>4, <1>8, <1>9, WriteInstance

(* A deleted instance leaves no block behind.                              *)
LEMMA DeleteInstanceWrites ==
    ASSUME ServerInv, NEW k \in Key, inst' = [inst EXCEPT ![k] = None],
           wanted' = [wanted EXCEPT ![k] = FALSE], svc' = svc
    PROVE  ServerInv' /\ OnlyTouches({k[1]}) /\ (inst[k] = None => OnlyTouches({}))
<1>1. svc' \in [Name -> Service \union {None}]
  BY DEF ServerInv
<1>2. ServerInv' /\ OnlyTouches({k[1]})
  <2> DEFINE rec == None  b == FALSE
  <2>1. /\ rec \in Instance \union {None} /\ b \in BOOLEAN /\ rec = None /\ b = FALSE
        /\ inst' = [inst EXCEPT ![k] = rec] /\ wanted' = [wanted EXCEPT ![k] = b]
    OBVIOUS
  <2> HIDE DEF rec, b
  <2> QED
    BY <1>1, <2>1, WriteInstance
<1>3. inst[k] = None => OnlyTouches({})
  BY DEF OnlyTouches, ServerInv, Key
<1> QED
  BY <1>2, <1>3

(* A block request sets what is stored and what is wanted.                 *)
LEMMA SetBlockedWrites ==
    ASSUME ServerInv, NEW k \in Key, NEW b \in BOOLEAN, inst[k] # None, SetBlocked(k, b),
           svc' = svc
    PROVE  ServerInv' /\ OnlyTouches({k[1]})
<1> DEFINE rec == [inst[k] EXCEPT !.blocked = b]
<1>1. inst[k] \in Instance /\ svc[k[1]] # None /\ svc' \in [Name -> Service \union {None}]
  BY DEF ServerInv
<1>2. rec \in Instance /\ rec.blocked = b
  BY <1>1 DEF Instance
<1>3. inst' = [inst EXCEPT ![k] = rec] /\ wanted' = [wanted EXCEPT ![k] = b]
  BY DEF SetBlocked, ServerInv
<1> HIDE DEF rec
<1> QED
  BY <1>1, <1>2, <1>3, NoneIsNothing, WriteInstance

(* The probe's verdict leaves the block alone.                             *)
LEMMA CheckWrites ==
    ASSUME ServerInv, NEW k \in Key, NEW t \in Text, inst[k] # None,
           inst' = [inst EXCEPT ![k].text = t], UNCHANGED <<svc, wanted>>
    PROVE  /\ ServerInv' /\ OnlyTouches({k[1]})
           /\ inst[k].text = t => OnlyTouches({})
<1> DEFINE rec == [inst[k] EXCEPT !.text = t]
           b == inst[k].blocked
<1>1. inst[k] \in Instance /\ svc[k[1]] # None /\ svc' \in [Name -> Service \union {None}]
  BY DEF ServerInv
<1>2. rec \in Instance /\ rec.blocked = b /\ b \in BOOLEAN /\ b = wanted[k]
  BY <1>1 DEF Instance, ServerInv
<1>3. inst' = [inst EXCEPT ![k] = rec]
  BY DEF ServerInv
<1>4. inst[k].text = t => rec = inst[k]
  BY <1>1 DEF Instance
<1> HIDE DEF rec, b
<1>5. wanted' = [wanted EXCEPT ![k] = b]
  BY <1>2 DEF ServerInv
<1>6. ServerInv' /\ OnlyTouches({k[1]})
  BY <1>1, <1>2, <1>3, <1>5, NoneIsNothing, WriteInstance
<1>7. rec = inst[k] => OnlyTouches({})
  BY <1>3 DEF OnlyTouches, ServerInv
<1> QED
  BY <1>4, <1>6, <1>7

(* A rename moves the instances with their blocks.                         *)
LEMMA RenameWrites ==
    ASSUME ServerInv, NEW old \in Name, NEW nw \in Name, svc[old] # None, svc[nw] = None,
           svc' = [svc EXCEPT ![nw] = svc[old], ![old] = None],
           inst' = [k \in Key |-> IF k[1] = old THEN None
                                  ELSE inst[IF k[1] = nw THEN <<old, k[2]>> ELSE k]],
           wanted' = [k \in Key |-> IF k[1] = old THEN FALSE
                                    ELSE wanted[IF k[1] = nw THEN <<old, k[2]>> ELSE k]]
    PROVE  ServerInv' /\ OnlyTouches({old, nw})
<1> DEFINE from(k) == IF k[1] = nw THEN <<old, k[2]>> ELSE k
<1>1. \A k \in Key : from(k) \in Key
  BY DEF Key
<1>2. /\ svc' \in [Name -> Service \union {None}] /\ svc'[nw] # None
      /\ \A n \in Name \ {old, nw} : svc'[n] = svc[n]
  BY DEF ServerInv
<1>3. /\ inst' \in [Key -> Instance \union {None}]
      /\ \A k \in Key : inst'[k] = IF k[1] = old THEN None ELSE inst[from(k)]
  BY <1>1 DEF ServerInv
<1>4. /\ wanted' \in [Key -> BOOLEAN]
      /\ \A k \in Key : wanted'[k] = IF k[1] = old THEN FALSE ELSE wanted[from(k)]
  BY <1>1 DEF ServerInv
<1>5. \A n \in Name \ {old, nw}, i \in Id : inst'[<<n, i>>] = inst[<<n, i>>]
  BY <1>3 DEF Key
<1>6. ASSUME NEW k \in Key, inst'[k] # None
      PROVE  svc'[k[1]] # None /\ inst'[k].blocked = wanted'[k]
  <2>1. k[1] # old /\ inst'[k] = inst[from(k)] /\ wanted'[k] = wanted[from(k)] /\ k[1] \in Name
    BY <1>3, <1>4, <1>6, KeyParts
  <2>2. inst'[k].blocked = wanted'[k]
    BY <1>1, <1>6, <2>1 DEF ServerInv
  <2>3. svc'[k[1]] # None
    BY <1>1, <1>2, <1>6, <2>1 DEF ServerInv
  <2> QED
    BY <2>2, <2>3
<1>7. ASSUME NEW k \in Key, inst'[k] = None PROVE wanted'[k] = FALSE
  BY <1>1, <1>3, <1>4, <1>7 DEF ServerInv
<1> QED
  BY <1>2, <1>3, <1>4, <1>5, <1>6, <1>7 DEF ServerInv, OnlyTouches

-----------------------------------------------------------------------------
(* Steps that put no copy on the page.                                     *)

\* Refreshes go on as they are; new ones have read nothing yet.
SameReads == /\ \A r \in jobs : r \in Reading => r \in jobs'
             /\ \A r \in jobs' : r \in Reading => r \in jobs \/ r.got = {}

\* A change of what the page shows is announced, or known to be missed.
Announced == \/ notice' \/ missed'
             \/ name \in Name => OnlyTouches(Name \ {name})

(* Such a step leaves the page up to date, or on its way there.            *)
LEMMA StaysFollowing ==
    ASSUME Following, PageInv, name' = name, UNCHANGED copies, SameReads, Announced,
           notice => notice' \/ missed', missed => missed'
    PROVE  Following'
<1> SUFFICES ASSUME ~missed', ~notice', name # "", svc'[name] # None,
                    ~\E r \in jobs' : r \in Reading /\ r.name = name /\ Fresh(r)'
             PROVE  /\ \A r \in jobs' : r \in Reading /\ r.name = name => r.late
                    /\ service # None /\ service.name = name => Current'
  BY DEF Following, copies
<1>1. name \in Name /\ ~missed /\ ~notice
  BY DEF PageInv
<1>2. svc'[name] = svc[name] /\ Instances(name)' = Instances(name)
  <2>1. svc'[name] = svc[name] /\ \A i \in Id : inst'[<<name, i>>] = inst[<<name, i>>]
    BY <1>1 DEF Announced, OnlyTouches
  <2> QED
    BY <2>1 DEF Instances
<1>3. \A r : r.name = name => (Fresh(r)' <=> Fresh(r))
  BY <1>2 DEF Fresh
<1>4. \A r \in jobs' : r \in Reading /\ r.name = name => r \in jobs
  BY DEF SameReads, Fresh
<1>5. ~\E r \in jobs : r \in Reading /\ r.name = name /\ Fresh(r)
  BY <1>3 DEF SameReads
<1>6. /\ \A r \in jobs : r \in Reading /\ r.name = name => r.late
      /\ service # None /\ service.name = name => Current
  BY <1>1, <1>2, <1>5 DEF Following
<1> QED
  BY <1>2, <1>4, <1>6 DEF Current, copies

(* Requests that a step leaves alone stay in order.                        *)
LEMMA JobsKept ==
    ASSUME JobsInv, isAdmin' = isAdmin, \A j \in jobs' : j \in jobs \/ JobOK(j)
    PROVE  JobsInv'
<1>1. ASSUME NEW j, JobOK(j) PROVE JobOK(j)'
  BY <1>1 DEF JobOK, Offered, Permitted, CanEdit, CanManageGrants
<1> QED
  BY <1>1 DEF JobsInv

(* A step that changes the dialog only.                                    *)
LEMMA DialogStep ==
    ASSUME Inv, UNCHANGED <<server, isAdmin, name, copies, checking, channel, jobs, steps>>,
           DialogOK(dialog'), dialog' # None => service # None
    PROVE  Inv'
<1>1. UNCHANGED <<svc, inst, wanted, isAdmin, name, service, insts, checking, live, notice,
                  missed, jobs, steps>>
  BY DEF server, copies, channel
<1>2. ServerInv'
  BY <1>1 DEF Inv, ServerInv
<1>3. JobsInv'
  BY <1>1, JobsKept DEF Inv
<1>4. DialogOK(dialog)'
  BY <1>1 DEF DialogOK, CanEdit
<1>5. PageInv'
  BY <1>1, <1>4 DEF Inv, PageInv
<1>6. Following'
  <2>1. SameReads /\ Announced
    BY <1>1 DEF SameReads, Announced, OnlyTouches
  <2> QED
    BY <1>1, <2>1, StaysFollowing DEF Inv, copies
<1> QED
  BY <1>2, <1>3, <1>5, <1>6 DEF Inv

(* Opening a dialog: the buttons are there when the copy may be edited.    *)
LEMMA OpenStep ==
    ASSUME Inv, NEW kind \in {"meta", "delService", "inst", "delInst"},
           NEW i \in Id \union {0}, kind = "delInst" => i \in Id, Open(Dialog(kind, i))
    PROVE  Inv'
<1> DEFINE d == Dialog(kind, i)
<1>1. service # None /\ CanEdit(service.rec)
  BY DEF Open, canEdit, CanEdit
<1>2. service \in Copy /\ steps \in Nat
  BY <1>1 DEF Inv, PageInv
<1>3. d \in DialogBox /\ d.shown = service /\ d.kind = kind /\ d.id = i
  BY <1>2 DEF Dialog, DialogBox
<1>4. /\ dialog' = d
      /\ UNCHANGED <<server, isAdmin, name, copies, checking, channel, jobs, steps>>
  BY DEF Open
<1> HIDE DEF d
<1>5. DialogOK(dialog')
  BY <1>1, <1>3, <1>4 DEF DialogOK
<1> QED
  BY <1>1, <1>4, <1>5, DialogStep

(* The dialogs open and close, and the search for users goes on in one.    *)
LEMMA DialogSteps ==
    ASSUME Inv,
           \/ Settings \/ AskDeleteService \/ NewInstance \/ Cancel
           \/ \E i \in DOMAIN insts : EditInstance(i) \/ AskDeleteInstance(i) \/ copyInstance(i)
           \/ \E u \in User \ {Me} : searchCorp(u)
           \/ TypeGrant \/ \E st \in {"found", "none", "denied"} : AnswerSearch(st)
    PROVE  Inv'
<1>1. ASSUME \/ Settings \/ AskDeleteService \/ NewInstance
             \/ \E i \in DOMAIN insts : EditInstance(i) \/ AskDeleteInstance(i) \/ copyInstance(i)
      PROVE  Inv'
  <2>1. DOMAIN insts \subseteq Id
    BY Listings DEF Inv, PageInv
  <2> QED
    BY <1>1, <2>1, OpenStep DEF Settings, AskDeleteService, NewInstance, EditInstance,
                                AskDeleteInstance, copyInstance
<1>2. CASE Cancel
  BY <1>2, DialogStep DEF Cancel, DialogOK
<1>3. ASSUME NEW d, Looking(d), dialog # None,
             \E b \in User \union {""}, h \in User \union {""}, r \in BOOLEAN :
                \/ d = [dialog EXCEPT !.busy = b, !.hit = h, !.refused = r]
                \/ d = [dialog EXCEPT !.hit = h, !.refused = r]
      PROVE  Inv'
  <2>1. dialog \in DialogBox /\ DialogOK(dialog) /\ service # None
    BY <1>3 DEF Inv, PageInv, DialogOK
  <2>2. d \in DialogBox /\ d.kind = dialog.kind /\ d.shown = dialog.shown /\ d.id = dialog.id
    BY <1>3, <2>1 DEF DialogBox
  <2>3. DialogOK(d)
    BY <2>1, <2>2, NoneIsNothing DEF DialogOK
  <2> QED
    BY <1>3, <2>1, <2>3, DialogStep DEF Looking
<1>4. CASE \E u \in User \ {Me} : searchCorp(u)
  <2>1. PICK u \in User : searchCorp(u)
    BY <1>4
  <2>2. /\ dialog # None /\ Looking([dialog EXCEPT !.busy = u, !.hit = "", !.refused = FALSE])
    BY <2>1 DEF searchCorp, Access, Showing
  <2> QED
    BY <1>3, <2>2
<1>5. CASE TypeGrant
  <2>1. dialog # None /\ Looking([dialog EXCEPT !.hit = "", !.refused = FALSE])
    BY <1>5 DEF TypeGrant, Access, Showing
  <2> QED
    BY <1>3, <2>1
<1>6. ASSUME NEW st, AnswerSearch(st) PROVE Inv'
  <2> DEFINE h == IF st = "found" THEN dialog.busy ELSE ""
             r == st = "denied"
  <2>1. dialog # None /\ Looking([dialog EXCEPT !.busy = "", !.hit = h, !.refused = r])
    BY <1>6 DEF AnswerSearch, Showing
  <2>2. h \in User \union {""} /\ r \in BOOLEAN
    BY <2>1 DEF Inv, PageInv, DialogOK, DialogBox
  <2> HIDE DEF h, r
  <2> QED
    BY <1>3, <2>1, <2>2
<1> QED
  BY <1>1, <1>2, <1>4, <1>5, <1>6

-----------------------------------------------------------------------------
(* Requests are sent on copies that permit them.                           *)

Argument(kind, i, arg) ==
    \/ kind = "putService" /\ i = 0 /\ arg \in BOOLEAN
    \/ kind = "rename" /\ i = 0 /\ arg \in Name
    \/ kind \in {"addGrant", "removeGrant"} /\ i = 0 /\ arg \in User
    \/ kind = "deleteService" /\ i = 0 /\ arg = None
    \/ kind = "put" /\ i \in Id /\ arg \in Text
    \/ kind \in {"delete", "check"} /\ i \in Id /\ arg = None
    \/ kind = "block" /\ i \in Id /\ arg \in BOOLEAN

(* A request is in order when its copy permits what it asks for.           *)
LEMMA NewJob ==
    ASSUME PageInv, NEW n \in Name, NEW no \in Nat, NEW shown \in Copy,
           NEW kind, NEW i, NEW arg, Argument(kind, i, arg),
           IF kind \in {"addGrant", "removeGrant"} THEN CanManageGrants(shown.rec)
                                                   ELSE CanEdit(shown.rec)
    PROVE  JobOK(Job(kind, n, i, arg, no, shown))
<1> DEFINE j == Job(kind, n, i, arg, no, shown)
<1>1. name \in Name \union {""} /\ "sent" \in Stage
  BY DEF PageInv, Stage
<1>2. j \in Request
  BY <1>1 DEF Job, Request, Shape, Argument
<1>3. j.st = "sent" /\ j.shown = shown /\ j.kind = kind
  BY DEF Job
<1>4. shown # None /\ shown.rec # None
  BY NoneIsNothing DEF Copy
<1>5. Permitted(j, shown.rec)
  BY <1>3, <1>4 DEF Permitted
<1> HIDE DEF j
<1>6. Offered(j)
  BY <1>3, <1>4, <1>5 DEF Offered
<1> QED
  BY <1>2, <1>6 DEF JobOK, j

(* Counting on.                                                            *)
LEMMA NextCount == \A s \in Nat : s + 1 \in Nat
  OBVIOUS

(* Sending requests that are in order keeps the invariant.                 *)
LEMMA SendStep ==
    ASSUME Inv, NEW J, Send(J), name # "", \A j \in J : j \in Request /\ JobOK(j),
           DialogOK(dialog'), dialog' # None => service # None, checking' \in SUBSET Id
    PROVE  Inv'
<1>1. /\ UNCHANGED <<svc, inst, wanted, isAdmin, name, service, insts, live, notice, missed>>
      /\ jobs' = jobs \union J /\ steps' = steps + 1
  BY DEF Send, server, copies, channel
<1>2. ServerInv'
  BY <1>1 DEF Inv, ServerInv
<1>3. JobsInv'
  BY <1>1, JobsKept DEF Inv
<1>4. DialogOK(dialog)'
  BY <1>1 DEF DialogOK, CanEdit
<1>5. PageInv'
  <2>1. PageInv
    BY DEF Inv
  <2>2. steps \in Nat
    BY <2>1 DEF PageInv
  <2>3. steps' \in Nat
    BY <1>1, <2>2, NextCount
  <2> QED
    BY <1>1, <1>4, <2>1, <2>3 DEF PageInv
<1>6. Following'
  <2>1. SameReads /\ Announced
    BY <1>1, Kinds DEF SameReads, Announced, OnlyTouches
  <2> QED
    BY <1>1, <2>1, StaysFollowing DEF Inv, copies
<1> QED
  BY <1>2, <1>3, <1>5, <1>6 DEF Inv

(* What is sent is a request, not a refresh.                               *)
LEMMA NewRequest ==
    ASSUME NEW kind, NEW n, NEW i, NEW arg, NEW no, NEW shown, Argument(kind, i, arg),
           JobOK(Job(kind, n, i, arg, no, shown))
    PROVE  Job(kind, n, i, arg, no, shown) \in Request
<1>1. Job(kind, n, i, arg, no, shown).kind # "refresh"
  BY DEF Job, Argument
<1> QED
  BY <1>1, Kinds DEF JobOK

(* The open dialog and the page behind it.                                 *)
LEMMA DialogFacts ==
    ASSUME Inv, dialog # None
    PROVE  /\ name \in Name /\ service \in Copy /\ service # None /\ dialog \in DialogBox
           /\ dialog.no \in Nat /\ dialog.shown \in Copy /\ CanEdit(dialog.shown.rec)
           /\ dialog.kind = "delInst" => dialog.id \in Id
           /\ dialog.id \in Id \union {0}
           /\ DialogOK(None)
           /\ \A s \in BOOLEAN : DialogOK([dialog EXCEPT !.saving = s])
           /\ DialogOK([dialog EXCEPT !.hit = ""])
<1>1. /\ name \in Name /\ service \in Copy /\ service # None /\ dialog \in DialogBox
      /\ CanEdit(dialog.shown.rec) /\ (dialog.kind = "delInst" => dialog.id \in Id)
  BY DEF Inv, PageInv, DialogOK
<1>2. dialog.no \in Nat /\ dialog.shown \in Copy /\ dialog.id \in Id \union {0}
  BY <1>1 DEF DialogBox
<1>3. ASSUME NEW s \in BOOLEAN PROVE DialogOK([dialog EXCEPT !.saving = s])
  BY <1>1, <1>3 DEF DialogOK, DialogBox
<1>4. DialogOK([dialog EXCEPT !.hit = ""])
  BY <1>1 DEF DialogOK, DialogBox
<1> QED
  BY <1>1, <1>2, <1>3, <1>4 DEF DialogOK

(* The same, for a handler that sends one request.                         *)
LEMMA OneRequest ==
    ASSUME Inv, NEW kind, NEW n \in Name, NEW i, NEW arg, NEW no \in Nat, NEW shown \in Copy,
           Argument(kind, i, arg), Send({Job(kind, n, i, arg, no, shown)}),
           IF kind \in {"addGrant", "removeGrant"} THEN CanManageGrants(shown.rec)
                                                   ELSE CanEdit(shown.rec),
           name # "", DialogOK(dialog'), dialog' # None => service # None,
           checking' \in SUBSET Id
    PROVE  Inv'
<1> DEFINE j == Job(kind, n, i, arg, no, shown)
<1>1. JobOK(j)
  BY NewJob DEF Inv
<1>2. j \in Request
  BY <1>1, NewRequest
<1> HIDE DEF j
<1>3. Send({j})
  BY DEF j
<1> QED
  BY <1>1, <1>2, <1>3, SendStep

(* The confirmations and the instance editor, on the copy that was shown   *)
(* when the dialog was opened.                                             *)
LEMMA DialogRequests ==
    ASSUME Inv,
           \/ deleteService \/ deleteInstance
           \/ \E i \in Id, t \in Fields : save(i, t)
    PROVE  Inv'
<1>1. dialog # None
  BY DEF deleteService, deleteInstance, save, Showing
<1>2. /\ name \in Name /\ service # None /\ dialog.no \in Nat /\ dialog.shown \in Copy
      /\ CanEdit(dialog.shown.rec) /\ (dialog.kind = "delInst" => dialog.id \in Id)
      /\ DialogOK(None) /\ DialogOK([dialog EXCEPT !.saving = TRUE])
  BY <1>1, DialogFacts
<1>3. name # "" /\ checking \in SUBSET Id
  BY <1>2, ServicePageAssumption DEF Inv, PageInv
<1>4. CASE deleteService
  <2>1. /\ Send({Job("deleteService", name, 0, None, dialog.no, dialog.shown)})
        /\ dialog' = None /\ checking' = checking
    BY <1>4 DEF deleteService
  <2>2. Argument("deleteService", 0, None)
    BY DEF Argument
  <2> QED
    BY <1>2, <1>3, <2>1, <2>2, OneRequest
<1>5. CASE deleteInstance
  <2>1. /\ Send({Job("delete", name, dialog.id, None, dialog.no, dialog.shown)})
        /\ dialog' = None /\ checking' = checking /\ dialog.kind = "delInst"
    BY <1>5 DEF deleteInstance, Showing
  <2>2. Argument("delete", dialog.id, None)
    BY <1>2, <2>1 DEF Argument
  <2> QED
    BY <1>2, <1>3, <2>1, <2>2, OneRequest
<1>6. ASSUME NEW i \in Id, NEW t \in Fields, save(i, t) PROVE Inv'
  <2>1. /\ Send({Job("put", name, i, t, dialog.no, dialog.shown)})
        /\ dialog' = [dialog EXCEPT !.saving = TRUE] /\ checking' = checking
    BY <1>6 DEF save
  <2>2. Argument("put", i, t)
    BY DEF Argument, Fields
  <2> QED
    BY <1>2, <1>3, <2>1, <2>2, OneRequest
<1> QED
  BY <1>4, <1>5, <1>6

(* The copy on the page permits what its buttons offer.                    *)
LEMMA PageFacts ==
    ASSUME Inv, service # None
    PROVE  /\ service \in Copy /\ name \in Name /\ name # "" /\ steps \in Nat
           /\ service.name \in Name /\ service.rec \in Service
           /\ DialogOK(dialog) /\ checking \in SUBSET Id
           /\ canEdit => CanEdit(service.rec)
           /\ canManageGrants => CanManageGrants(service.rec)
<1>1. service \in Copy /\ name \in Name /\ steps \in Nat /\ DialogOK(dialog) /\ checking \subseteq Id
  BY DEF Inv, PageInv
<1>2. name # ""
  BY <1>1, ServicePageAssumption
<1>3. service.name \in Name /\ service.rec \in Service
  BY <1>1 DEF Copy
<1> QED
  BY <1>1, <1>2, <1>3 DEF canEdit, CanEdit, canManageGrants, CanManageGrants

(* Block and Check, on the copy the page shows.                            *)
LEMMA ButtonRequests ==
    ASSUME Inv, NEW i \in DOMAIN insts, toggleBlock(i) \/ checkNow(i)
    PROVE  Inv'
<1>1. canEdit /\ service # None
  BY DEF toggleBlock, checkNow, Buttons, canEdit
<1>2. /\ service \in Copy /\ name \in Name /\ name # "" /\ steps \in Nat
      /\ CanEdit(service.rec) /\ DialogOK(dialog) /\ checking \in SUBSET Id
  BY <1>1, PageFacts
<1>3. i \in Id
  BY Listings DEF Inv, PageInv
<1>4. CASE toggleBlock(i)
  <2> DEFINE b == ~insts[i].blocked
  <2>1. b \in BOOLEAN
    OBVIOUS
  <2>2. /\ Send({Job("block", name, i, b, steps, service)})
        /\ dialog' = dialog /\ checking' = checking
    BY <1>4 DEF toggleBlock
  <2>3. Argument("block", i, b)
    BY <1>3, <2>1 DEF Argument
  <2> HIDE DEF b
  <2> QED
    BY <1>1, <1>2, <2>2, <2>3, OneRequest
<1>5. CASE checkNow(i)
  <2>1. /\ Send({Job("check", name, i, None, steps, service)})
        /\ dialog' = dialog /\ checking' = checking \union {i}
    BY <1>5 DEF checkNow
  <2>2. Argument("check", i, None) /\ checking' \in SUBSET Id
    BY <1>2, <1>3, <2>1 DEF Argument
  <2> QED
    BY <1>1, <1>2, <2>1, <2>2, OneRequest
<1> QED
  BY <1>4, <1>5

(* Granting and revoking access, which the page offers to owners.          *)
LEMMA AccessRequests ==
    ASSUME Inv, NEW u \in User, addGrant(u) \/ removeGrant(u)
    PROVE  Inv'
<1>1. canManageGrants /\ service # None /\ dialog # None
  BY DEF addGrant, removeGrant, Access, Showing, canManageGrants
<1>2. /\ service \in Copy /\ name \in Name /\ name # "" /\ CanManageGrants(service.rec)
      /\ DialogOK(dialog) /\ checking \in SUBSET Id
  BY <1>1, PageFacts
<1>3. dialog.no \in Nat /\ DialogOK([dialog EXCEPT !.hit = ""])
  BY <1>1, DialogFacts
<1>4. Argument("addGrant", 0, u) /\ Argument("removeGrant", 0, u)
  BY DEF Argument
<1>5. CASE addGrant(u)
  <2>1. /\ Send({Job("addGrant", name, 0, u, dialog.no, service)})
        /\ dialog' = [dialog EXCEPT !.hit = ""] /\ checking' = checking
    BY <1>5 DEF addGrant
  <2> QED
    BY <1>1, <1>2, <1>3, <1>4, <2>1, OneRequest
<1>6. CASE removeGrant(u)
  <2>1. /\ Send({Job("removeGrant", name, 0, u, dialog.no, service)})
        /\ dialog' = dialog /\ checking' = checking
    BY <1>6 DEF removeGrant
  <2> QED
    BY <1>1, <1>2, <1>3, <1>4, <2>1, OneRequest
<1> QED
  BY <1>5, <1>6

(* The settings: one or two requests under the copy's name.                *)
LEMMA SaveRequests ==
    ASSUME Inv, NEW p \in BOOLEAN, NEW n \in Name, handleSave(p, n)
    PROVE  Inv'
<1>1. dialog # None
  BY DEF handleSave, Showing
<1>2. /\ service # None /\ dialog.no \in Nat /\ dialog.shown \in Copy
      /\ CanEdit(dialog.shown.rec)
  BY <1>1, DialogFacts
<1>3. service.name \in Name /\ name # "" /\ DialogOK(dialog) /\ checking \in SUBSET Id
  BY <1>2, PageFacts
<1> DEFINE j1 == Job("putService", service.name, 0, p, dialog.no, dialog.shown)
           j2 == Job("rename", service.name, 0, n, dialog.no, dialog.shown)
           J == {j1} \union IF n = service.name THEN {} ELSE {j2}
<1>4. Argument("putService", 0, p) /\ Argument("rename", 0, n)
  BY DEF Argument
<1>5. JobOK(j1) /\ JobOK(j2)
  BY <1>2, <1>3, <1>4, NewJob DEF Inv
<1>6. j1 \in Request /\ j2 \in Request
  BY <1>4, <1>5, NewRequest
<1>7. Send(J) /\ dialog' = dialog /\ checking' = checking
  BY DEF handleSave
<1> HIDE DEF j1, j2
<1>8. \A j \in J : j \in Request /\ JobOK(j)
  BY <1>5, <1>6
<1> HIDE DEF J
<1> QED
  BY <1>2, <1>3, <1>7, <1>8, SendStep

-----------------------------------------------------------------------------
(* Leaving the page, and its watch.                                        *)

(* What the invariant says of a request or refresh under way.              *)
LEMMA JobFacts ==
    ASSUME Inv, NEW j \in jobs
    PROVE  /\ j.kind = "refresh" => j \in Reading
           /\ j.kind # "refresh" => j \in Request /\ Offered(j) /\ j \notin Reading
           /\ name = "" => j.kind # "refresh" /\ j.at = ""
  BY Kinds DEF Inv, JobsInv, JobOK, PageInv

(* A new refresh has read nothing.                                         *)
LEMMA NewRefresh ==
    ASSUME NEW n \in Name
    PROVE  /\ Refresh(n) \in Reading /\ Refresh(n).name = n /\ Refresh(n).got = {}
           /\ JobOK(Refresh(n))
<1> DEFINE e == <<>>
<1>1. e \in Listing
  BY Listings
<1> HIDE DEF e
<1>2. Refresh(n) = [kind |-> "refresh", name |-> n, at |-> n, st |-> "sent",
                    got |-> {}, svc |-> None, insts |-> e, late |-> FALSE]
  BY DEF Refresh, e
<1>3. Refresh(n) \in Reading /\ Refresh(n).name = n /\ Refresh(n).got = {}
  BY <1>1, <1>2 DEF Reading
<1> QED
  BY <1>3 DEF JobOK

(* A page that unmounts drops its refreshes and lets its requests go on.   *)
LEMMA UnmountStep ==
    ASSUME Inv, NEW J \in SUBSET jobs, Unmount, jobs' = Orphans(J),
           UNCHANGED <<server, isAdmin, missed, steps>>
    PROVE  Inv'
<1>1. /\ UNCHANGED <<svc, inst, wanted, isAdmin, missed, steps>>
      /\ name' = "" /\ service' = None /\ dialog' = None /\ checking' = {}
      /\ live' = FALSE /\ notice' = FALSE
  BY DEF server, Unmount
<1>2. insts' \in Listing
  BY Listings DEF Unmount
<1>3. ASSUME NEW k \in jobs' PROVE k \in Request /\ Offered(k) /\ k.at = ""
  <2>1. PICK j \in jobs : j.kind # "refresh" /\ k = [j EXCEPT !.at = ""]
    BY <1>3 DEF Orphans
  <2>2. j \in Request /\ Offered(j)
    BY <2>1, JobFacts
  <2>3. "sent" \in Stage
    BY DEF Stage
  <2>4. k \in Request
    BY <2>1, <2>2, <2>3, Kinds
  <2>5. /\ k.at = "" /\ k.kind = j.kind /\ k.name = j.name /\ k.st = j.st
        /\ k.shown = j.shown /\ k.seen = j.seen
    BY <2>1, <2>2 DEF Request, Shape
  <2> QED
    BY <2>2, <2>4, <2>5 DEF Offered, Permitted
<1>4. ServerInv'
  BY <1>1 DEF Inv, ServerInv
<1>5. JobsInv'
  BY <1>1, <1>3, JobsKept DEF Inv, JobOK
<1>6. PageInv'
  <2>1. \A k \in jobs' : k \notin Reading /\ k.at = ""
    BY <1>3, Kinds
  <2>2. DialogOK(dialog)'
    BY <1>1 DEF DialogOK
  <2> QED
    BY <1>1, <1>2, <2>1, <2>2 DEF Inv, PageInv
<1>7. Following'
  BY <1>1 DEF Following
<1> QED
  BY <1>4, <1>5, <1>6, <1>7 DEF Inv

(* The user leaves the page.                                               *)
LEMMA LeaveStep == ASSUME Inv, Leave PROVE Inv'
  BY UnmountStep DEF Leave

(* The watch opens, breaks, or delivers an event: a refresh takes the      *)
(* place of the notice.                                                    *)
LEMMA WatchSteps == ASSUME Inv, WatchOpens \/ WatchBreaks \/ onEvent PROVE Inv'
<1>1. /\ UNCHANGED <<svc, inst, wanted, isAdmin, name, service, insts, dialog, checking>>
      /\ notice => name # ""
  BY DEF WatchOpens, WatchBreaks, onEvent, server, copies, Inv, PageInv
<1>2. ServerInv'
  BY <1>1 DEF Inv, ServerInv
<1>3. DialogOK(dialog)'
  BY <1>1 DEF Inv, PageInv, DialogOK, CanEdit
<1>4. CASE WatchOpens
  <2>1. live' = TRUE /\ UNCHANGED <<notice, missed, jobs, steps>> /\ name # ""
    BY <1>4 DEF WatchOpens
  <2>2. JobsInv' /\ SameReads /\ Announced
    BY <1>1, <2>1, JobsKept DEF Inv, SameReads, Announced, OnlyTouches
  <2>3. PageInv'
    BY <1>1, <1>3, <2>1 DEF Inv, PageInv
  <2>4. Following'
    BY <1>1, <2>1, <2>2, StaysFollowing DEF Inv, copies
  <2> QED
    BY <1>2, <2>2, <2>3, <2>4 DEF Inv
<1>5. CASE WatchBreaks
  <2>1. /\ live' = FALSE /\ notice' = FALSE /\ missed' = (missed \/ notice)
        /\ steps' = steps + 1 /\ jobs' = jobs
    BY <1>5 DEF WatchBreaks
  <2>2. JobsInv' /\ SameReads /\ Announced
    BY <1>1, <2>1, JobsKept DEF Inv, SameReads, Announced, OnlyTouches
  <2>3. missed' \in BOOLEAN /\ steps' \in Nat
    BY <2>1, NextCount DEF Inv, PageInv
  <2>4. PageInv'
    BY <1>1, <1>3, <2>1, <2>3 DEF Inv, PageInv
  <2>5. Following'
    BY <1>1, <2>1, <2>2, StaysFollowing DEF Inv, copies
  <2> QED
    BY <1>2, <2>2, <2>4, <2>5 DEF Inv
<1>6. CASE onEvent
  <2>1. /\ notice' = FALSE /\ jobs' = jobs \union {Refresh(name)}
        /\ UNCHANGED <<live, missed, steps>> /\ name # ""
    BY <1>1, <1>6 DEF onEvent
  <2>2. name \in Name
    BY <2>1 DEF Inv, PageInv
  <2>3. /\ Refresh(name) \in Reading /\ Refresh(name).name = name /\ Refresh(name).got = {}
        /\ JobOK(Refresh(name))
    BY <2>2, NewRefresh
  <2>4. JobsInv'
    BY <1>1, <2>1, <2>3, JobsKept DEF Inv
  <2>5. PageInv'
    BY <1>1, <1>3, <2>1 DEF Inv, PageInv
  <2>6. Following'
    BY <1>1, <2>1, <2>3 DEF Following, Fresh
  <2> QED
    BY <1>2, <2>4, <2>5, <2>6 DEF Inv
<1> QED
  BY <1>4, <1>5, <1>6

-----------------------------------------------------------------------------
(* The server reads.                                                       *)

(* What a refresh reads is so at that moment.                              *)
LEMMA ReadSteps ==
    ASSUME Inv, NEW j \in jobs, ReadService(j) \/ ReadInstances(j)
    PROVE  Inv'
<1>1. UNCHANGED <<svc, inst, wanted, isAdmin, name, service, insts, dialog, checking, live,
                  notice, missed, steps>>
  BY DEF ReadService, ReadInstances, server, copies, channel
<1>2. j \in Reading /\ j.name \in Name
  BY JobFacts, Kinds DEF ReadService, ReadInstances
<1>3. svc[j.name] \in Service \union {None} /\ Instances(j.name) \in Listing
  BY <1>2, Listings DEF Inv, ServerInv
<1>4. PICK k : /\ k \in Reading /\ jobs' = Replace(j, k)
               /\ k.name = j.name /\ k.late = j.late
               /\ Fresh(j) => Fresh(k)
  <2>1. CASE ReadService(j)
    <3> DEFINE k == [j EXCEPT !.got = @ \union {"service"}, !.svc = svc[j.name]]
    <3>1. k \in Reading /\ jobs' = Replace(j, k)
      BY <1>2, <1>3, <2>1 DEF Reading, ReadService
    <3>2. /\ k.name = j.name /\ k.late = j.late /\ k.insts = j.insts
          /\ k.svc = svc[j.name] /\ k.got = j.got \union {"service"}
      BY <1>2 DEF Reading
    <3> HIDE DEF k
    <3>3. Fresh(j) => Fresh(k)
      BY <3>2 DEF Fresh
    <3> QED
      BY <3>1, <3>2, <3>3
  <2>2. CASE ReadInstances(j)
    <3> DEFINE k == [j EXCEPT !.got = @ \union {"instances"}, !.insts = Instances(j.name)]
    <3>1. k \in Reading /\ jobs' = Replace(j, k)
      BY <1>2, <1>3, <2>2 DEF Reading, ReadInstances
    <3>2. /\ k.name = j.name /\ k.late = j.late /\ k.svc = j.svc
          /\ k.insts = Instances(j.name) /\ k.got = j.got \union {"instances"}
      BY <1>2 DEF Reading
    <3> HIDE DEF k
    <3>3. Fresh(j) => Fresh(k)
      BY <3>2 DEF Fresh
    <3> QED
      BY <3>1, <3>2, <3>3
  <2> QED
    BY <2>1, <2>2
<1>5. ServerInv'
  BY <1>1 DEF Inv, ServerInv
<1>6. JobsInv'
  BY <1>1, <1>4, JobsKept DEF Inv, Replace, JobOK
<1>7. PageInv'
  <2>1. DialogOK(dialog)' /\ name # ""
    BY <1>1, <1>2 DEF Inv, PageInv, DialogOK, CanEdit
  <2> QED
    BY <1>1, <2>1 DEF Inv, PageInv
<1>8. Following'
  <2>1. \A r : Fresh(r)' <=> Fresh(r)
    BY <1>1 DEF Fresh, Instances
  <2>2. Current' <=> Current
    BY <1>1 DEF Current, Instances
  <2>3. k \in jobs' /\ \A r \in jobs : r = j \/ r \in jobs'
    BY <1>4 DEF Replace
  <2>4. \A r \in jobs' : r = k \/ r \in jobs
    BY <1>4 DEF Replace
  <2> QED
    BY <1>1, <1>2, <1>4, <2>1, <2>2, <2>3, <2>4 DEF Inv, Following
<1> QED
  BY <1>5, <1>6, <1>7, <1>8 DEF Inv

(* The handler judges the caller by the service it reads.                  *)
LEMMA JudgeStep == ASSUME Inv, NEW j \in jobs, Judge(j) PROVE Inv'
<1> DEFINE st == IF ~Permitted(j, svc[j.name]) THEN "denied"
                 ELSE IF rejectManagedEdit(j) THEN "managed"
                 ELSE IF j.kind = "check" /\ inst[<<j.name, j.id>>] = None THEN "failed"
                 ELSE "judged"
           seen == svc[j.name]
           k == [j EXCEPT !.seen = seen, !.st = st]
<1>1. /\ UNCHANGED <<svc, inst, wanted, isAdmin, name, service, insts, dialog, checking, live,
                     notice, missed, steps>>
      /\ jobs' = Replace(j, k) /\ j.kind # "refresh" /\ j.st = "sent"
  BY DEF Judge, server, copies, channel
<1>2. j \in Request /\ Offered(j)
  BY <1>1, JobFacts
<1>3. seen \in Service \union {None} /\ st \in Stage
  BY <1>2, Kinds DEF Inv, ServerInv, Stage, Refused
<1>4. /\ st = "denied" => ~Permitted(j, seen)
      /\ st = "judged" => Permitted(j, seen)
  OBVIOUS
<1> HIDE DEF st, seen
<1>5. k \in Request
  BY <1>2, <1>3, Kinds
<1>6. /\ k.kind = j.kind /\ k.name = j.name /\ k.at = j.at /\ k.shown = j.shown
      /\ k.seen = seen /\ k.st = st
  BY <1>2 DEF Request, Shape
<1> HIDE DEF k
<1>7. \A s : Permitted(k, s) <=> Permitted(j, s)
  BY <1>6 DEF Permitted
<1>8. Offered(k)
  BY <1>1, <1>2, <1>4, <1>6, <1>7 DEF Offered
<1>9. ServerInv'
  BY <1>1 DEF Inv, ServerInv
<1>10. JobsInv'
  BY <1>1, <1>5, <1>8, JobsKept DEF Inv, Replace, JobOK
<1>11. PageInv'
  <2>1. DialogOK(dialog)'
    BY <1>1 DEF Inv, PageInv, DialogOK, CanEdit
  <2>2. name = "" => \A x \in jobs' : x \notin Reading /\ x.at = ""
    BY <1>1, <1>5, <1>6, Kinds DEF Inv, PageInv, Replace
  <2> QED
    BY <1>1, <2>1, <2>2 DEF Inv, PageInv
<1>12. Following'
  <2>1. SameReads /\ Announced
    BY <1>1, <1>2, <1>5, Kinds DEF SameReads, Replace, Announced, OnlyTouches
  <2> QED
    BY <1>1, <2>1, StaysFollowing DEF Inv, copies
<1> QED
  BY <1>9, <1>10, <1>11, <1>12 DEF Inv

-----------------------------------------------------------------------------
(* The server writes: each write emits an event that names what it touched.*)

(* emit: the page hears of what touched its service, or misses it.         *)
LEMMA EmitFollows ==
    ASSUME Inv, NEW ns, Emit(ns), OnlyTouches(ns)
    PROVE  /\ Announced /\ (notice => notice') /\ (missed => missed')
           /\ notice' \in BOOLEAN /\ missed' \in BOOLEAN /\ live' = live /\ (notice' => live)
<1>1. live' = live /\ (notice => notice') /\ (missed => missed')
      /\ notice' \in BOOLEAN /\ missed' \in BOOLEAN
  BY DEF Emit
<1>2. notice' => live
  BY DEF Emit, Inv, PageInv
<1>3. CASE name \in ns
  BY <1>1, <1>2, <1>3 DEF Emit, Announced
<1>4. CASE name \notin ns
  BY <1>1, <1>2, <1>4 DEF Announced, OnlyTouches
<1> QED
  BY <1>1, <1>2, <1>3, <1>4

(* A step that leaves the dialog alone.                                    *)
LEMMA DialogKept ==
    ASSUME PageInv, UNCHANGED <<isAdmin, dialog>>
    PROVE  DialogOK(dialog)'
<1>1. DialogOK(dialog)
  BY DEF PageInv
<1> QED
  BY <1>1 DEF DialogOK, CanEdit

(* A handler that has written, or found nothing to write.                  *)
LEMMA AnsweredStep ==
    ASSUME Inv, NEW j \in jobs, j.kind # "refresh", NEW st \in {"served", "failed"}, NEW ns,
           Answered(j, st, ns), ServerInv', OnlyTouches(ns),
           UNCHANGED <<isAdmin, name, copies, dialog, checking, steps>>
    PROVE  Inv'
<1> DEFINE k == [j EXCEPT !.st = st, !.seen = None, !.shown = None]
<1>1. /\ UNCHANGED <<isAdmin, name, service, insts, dialog, checking, steps>>
      /\ jobs' = Replace(j, k)
  BY DEF Answered, copies
<1>2. /\ Announced /\ (notice => notice') /\ (missed => missed')
      /\ notice' \in BOOLEAN /\ missed' \in BOOLEAN /\ live' = live /\ (notice' => live)
  BY EmitFollows DEF Answered
<1>3. j \in Request /\ Offered(j)
  BY JobFacts
<1>4. st \in Stage
  BY DEF Stage, Refused
<1>5. k \in Request
  BY <1>3, <1>4, Kinds
<1>6. k.st = st /\ k.at = j.at
  BY <1>3 DEF Request, Shape
<1> HIDE DEF k
<1>7. Offered(k)
  BY <1>6 DEF Offered
<1>8. JobsInv'
  BY <1>1, <1>5, <1>7, JobsKept DEF Inv, Replace, JobOK
<1>9. PageInv'
  <2>1. DialogOK(dialog)'
    BY <1>1, DialogKept DEF Inv
  <2>2. name = "" => \A x \in jobs' : x \notin Reading /\ x.at = ""
    BY <1>1, <1>5, <1>6, Kinds DEF Inv, PageInv, Replace
  <2> QED
    BY <1>1, <1>2, <2>1, <2>2 DEF Inv, PageInv
<1>10. Following'
  <2>1. SameReads
    BY <1>1, <1>3, <1>5, Kinds DEF SameReads, Replace
  <2> QED
    BY <1>1, <1>2, <2>1, StaysFollowing DEF Inv, copies
<1> QED
  BY <1>8, <1>9, <1>10 DEF Inv

(* Nothing written, nothing touched.                                       *)
LEMMA SameServer ==
    ASSUME ServerInv, UNCHANGED <<svc, inst, wanted>>
    PROVE  ServerInv' /\ OnlyTouches({})
  BY DEF ServerInv, OnlyTouches

(* What a judged request carries.                                          *)
LEMMA JudgedFacts ==
    ASSUME Inv, NEW j \in jobs, j.kind # "refresh", j.st = "judged"
    PROVE  /\ j \in Request /\ ServerInv /\ j.name \in Name /\ j.seen \in Service \union {None}
           /\ j.kind \in {"addGrant", "removeGrant"} => j.seen \in Service /\ j.arg \in User
<1>1. j \in Request /\ Offered(j)
  BY JobFacts
<1>2. j.kind \in {"addGrant", "removeGrant"} => j.seen # None
  BY <1>1 DEF Offered, Permitted
<1> QED
  BY <1>1, <1>2, Kinds DEF Inv

(* The handlers of services and grants.                                    *)
LEMMA CommitServiceSteps ==
    ASSUME Inv, NEW j \in jobs, j.st = "judged",
           UNCHANGED <<isAdmin, name, copies, dialog, checking, steps>>,
           PutService(j) \/ PutGrants(j) \/ RenameService(j) \/ CommitDeleteService(j)
    PROVE  Inv'
<1>1. j.kind # "refresh"
  BY DEF PutService, PutGrants, RenameService, CommitDeleteService
<1>2. /\ j \in Request /\ ServerInv /\ j.name \in Name /\ j.seen \in Service \union {None}
      /\ j.kind \in {"addGrant", "removeGrant"} => j.seen \in Service /\ j.arg \in User
  BY <1>1, JudgedFacts
<1>3. CASE PutService(j)
  <2> DEFINE rec == IF j.seen = None THEN [owner |-> Me, grants |-> {}, private |-> j.arg]
                    ELSE [j.seen EXCEPT !.private = j.arg]
  <2>1. j.arg \in BOOLEAN
    BY <1>2, <1>3, Kinds DEF PutService
  <2>2. rec \in Service
    BY <1>2, <2>1, ServicePageAssumption DEF Service
  <2>3. svc' = [svc EXCEPT ![j.name] = rec] /\ UNCHANGED <<inst, wanted>>
    BY <1>3 DEF PutService
  <2> HIDE DEF rec
  <2>4. ServerInv' /\ OnlyTouches({j.name})
    BY <1>2, <2>2, <2>3, WriteService
  <2>5. Answered(j, "served", {j.name})
    BY <1>3 DEF PutService
  <2> QED
    BY <1>1, <2>4, <2>5, AnsweredStep
<1>4. CASE PutGrants(j)
  <2> DEFINE g == IF j.kind = "addGrant" THEN j.seen.grants \union {j.arg}
                                         ELSE j.seen.grants \ {j.arg}
             rec == [j.seen EXCEPT !.grants = g]
  <2>1. j.seen \in Service /\ j.arg \in User
    BY <1>2, <1>4 DEF PutGrants
  <2>2. g \in SUBSET User
    BY <2>1 DEF Service
  <2>3. IF g = j.seen.grants
        THEN Answered(j, "served", {}) /\ svc' = svc
        ELSE svc' = [svc EXCEPT ![j.name] = rec] /\ Answered(j, "served", {j.name})
    BY <1>4 DEF PutGrants
  <2>4. UNCHANGED <<inst, wanted>>
    BY <1>4 DEF PutGrants
  <2> HIDE DEF g
  <2>5. rec \in Service
    BY <2>1, <2>2 DEF Service
  <2> HIDE DEF rec
  <2>6. CASE g = j.seen.grants
    <3>1. ServerInv' /\ OnlyTouches({})
      BY <1>2, <2>3, <2>4, <2>6, SameServer
    <3> QED
      BY <1>1, <2>3, <2>6, <3>1, AnsweredStep
  <2>7. CASE g # j.seen.grants
    <3>1. ServerInv' /\ OnlyTouches({j.name})
      BY <1>2, <2>3, <2>4, <2>5, <2>7, WriteService
    <3> QED
      BY <1>1, <2>3, <2>7, <3>1, AnsweredStep
  <2> QED
    BY <2>6, <2>7
<1>5. CASE RenameService(j)
  <2>1. j.arg \in Name
    BY <1>2, <1>5, Kinds DEF RenameService
  <2>2. CASE svc[j.name] = None \/ svc[j.arg] # None
    <3>1. Answered(j, "failed", {}) /\ UNCHANGED <<svc, inst, wanted>>
      BY <1>5, <2>2 DEF RenameService
    <3>2. ServerInv' /\ OnlyTouches({})
      BY <1>2, <3>1, SameServer
    <3> QED
      BY <1>1, <3>1, <3>2, AnsweredStep
  <2>3. CASE svc[j.name] # None /\ svc[j.arg] = None
    <3>1. /\ Answered(j, "served", {j.name, j.arg})
          /\ svc' = [svc EXCEPT ![j.arg] = svc[j.name], ![j.name] = None]
          /\ inst' = [k \in Key |-> IF k[1] = j.name THEN None
                                    ELSE inst[IF k[1] = j.arg THEN <<j.name, k[2]>> ELSE k]]
          /\ wanted' = [k \in Key |-> IF k[1] = j.name THEN FALSE
                                      ELSE wanted[IF k[1] = j.arg THEN <<j.name, k[2]>> ELSE k]]
      BY <1>5, <2>3 DEF RenameService
    <3>2. ServerInv' /\ OnlyTouches({j.name, j.arg})
      BY <1>2, <2>1, <2>3, <3>1, RenameWrites
    <3> QED
      BY <1>1, <3>1, <3>2, AnsweredStep
  <2> QED
    BY <2>2, <2>3
<1>6. CASE CommitDeleteService(j)
  <2>1. CASE svc[j.name] = None
    <3>1. Answered(j, "failed", {}) /\ UNCHANGED <<svc, inst, wanted>>
      BY <1>6, <2>1 DEF CommitDeleteService
    <3>2. ServerInv' /\ OnlyTouches({})
      BY <1>2, <3>1, SameServer
    <3> QED
      BY <1>1, <3>1, <3>2, AnsweredStep
  <2>2. CASE svc[j.name] # None
    <3>1. Answered(j, "served", {j.name}) /\ Without(j.name)
      BY <1>6, <2>2 DEF CommitDeleteService
    <3>2. ServerInv' /\ OnlyTouches({j.name})
      BY <1>2, <3>1, DropService
    <3> QED
      BY <1>1, <3>1, <3>2, AnsweredStep
  <2> QED
    BY <2>1, <2>2
<1> QED
  BY <1>3, <1>4, <1>5, <1>6

(* The handlers of instances.                                              *)
LEMMA CommitInstanceSteps ==
    ASSUME Inv, NEW j \in jobs, j.st = "judged",
           UNCHANGED <<isAdmin, name, copies, dialog, checking, steps>>,
           CommitInstance(j) \/ CommitDelete(j) \/ CommitBlock(j) \/ CommitCheck(j)
    PROVE  Inv'
<1> DEFINE k == <<j.name, j.id>>
<1>1. j.kind # "refresh"
  BY DEF CommitInstance, CommitDelete, CommitBlock, CommitCheck
<1>2. j \in Request /\ ServerInv /\ j.name \in Name
  BY <1>1, JudgedFacts
<1>3. k \in Key /\ k[1] = j.name
  <2>1. j.id \in Id
    BY <1>2, Kinds DEF CommitInstance, CommitDelete, CommitBlock, CommitCheck
  <2> QED
    BY <1>2, <2>1 DEF Key
<1>4. CASE CommitInstance(j)
  <2>1. /\ PutInstance(k, FALSE, j.arg) /\ wanted' = wanted
        /\ Answered(j, "served", {j.name}) /\ j.kind = "put"
    BY <1>4 DEF CommitInstance
  <2>2. j.arg \in Text
    BY <1>2, <2>1, Kinds
  <2> HIDE DEF k
  <2>3. ServerInv' /\ OnlyTouches({k[1]})
    BY <1>2, <1>3, <2>1, <2>2, PutInstanceWrites
  <2> QED
    BY <1>1, <1>3, <2>1, <2>3, AnsweredStep
<1>5. CASE CommitDelete(j)
  <2> DEFINE ns == IF inst[k] = None THEN {} ELSE {j.name}
  <2>1. /\ inst' = [inst EXCEPT ![k] = None] /\ wanted' = [wanted EXCEPT ![k] = FALSE]
        /\ svc' = svc /\ Answered(j, "served", ns)
    BY <1>5 DEF CommitDelete
  <2> HIDE DEF k
  <2>2. ServerInv' /\ OnlyTouches({k[1]}) /\ (inst[k] = None => OnlyTouches({}))
    BY <1>2, <1>3, <2>1, DeleteInstanceWrites
  <2>3. OnlyTouches(ns)
    BY <1>3, <2>2
  <2> HIDE DEF ns
  <2> QED
    BY <1>1, <2>1, <2>2, <2>3, AnsweredStep
<1>6. CASE CommitBlock(j)
  <2>1. CASE inst[k] = None
    <3>1. Answered(j, "failed", {}) /\ UNCHANGED <<svc, inst, wanted>>
      BY <1>6, <2>1 DEF CommitBlock
    <3>2. ServerInv' /\ OnlyTouches({})
      BY <1>2, <3>1, SameServer
    <3> QED
      BY <1>1, <3>1, <3>2, AnsweredStep
  <2>2. CASE inst[k] # None
    <3>1. /\ Answered(j, "served", {j.name}) /\ SetBlocked(k, j.arg) /\ svc' = svc
          /\ j.kind = "block"
      BY <1>6, <2>2 DEF CommitBlock
    <3>2. j.arg \in BOOLEAN
      BY <1>2, <3>1, Kinds
    <3> HIDE DEF k
    <3>3. ServerInv' /\ OnlyTouches({k[1]})
      BY <1>2, <1>3, <2>2, <3>1, <3>2, SetBlockedWrites
    <3> QED
      BY <1>1, <1>3, <3>1, <3>3, AnsweredStep
  <2> QED
    BY <2>1, <2>2
<1>7. CASE CommitCheck(j)
  <2>1. CASE inst[k] = None
    <3>1. Answered(j, "served", {}) /\ UNCHANGED <<svc, inst, wanted>>
      BY <1>7, <2>1 DEF CommitCheck
    <3>2. ServerInv' /\ OnlyTouches({})
      BY <1>2, <3>1, SameServer
    <3> QED
      BY <1>1, <3>1, <3>2, AnsweredStep
  <2>2. CASE inst[k] # None
    <3>1. PICK t \in Text :
             /\ inst' = [inst EXCEPT ![k].text = t] /\ UNCHANGED <<svc, wanted>>
             /\ Answered(j, "served", IF inst[k].text = t THEN {} ELSE {j.name})
      BY <1>7, <2>2 DEF CommitCheck
    <3> DEFINE ns == IF inst[k].text = t THEN {} ELSE {j.name}
    <3> HIDE DEF k
    <3>2. /\ ServerInv' /\ OnlyTouches({k[1]})
          /\ inst[k].text = t => OnlyTouches({})
      BY <1>2, <1>3, <2>2, <3>1, CheckWrites
    <3>3. OnlyTouches(ns) /\ Answered(j, "served", ns)
      BY <1>3, <3>1, <3>2
    <3> HIDE DEF ns
    <3> QED
      BY <1>1, <3>2, <3>3, AnsweredStep
  <2> QED
    BY <2>1, <2>2
<1> QED
  BY <1>4, <1>5, <1>6, <1>7

(* Every handler's write keeps the invariant.                              *)
LEMMA CommitStep == ASSUME Inv, NEW j \in jobs, Commit(j) PROVE Inv'
  BY CommitServiceSteps, CommitInstanceSteps DEF Commit

-----------------------------------------------------------------------------
(* Everyone else.                                                          *)

(* Another client's write, announced like the page's own.                  *)
LEMMA OtherStep ==
    ASSUME Inv, NEW ns, Other(ns), ServerInv', OnlyTouches(ns)
    PROVE  Inv'
<1>1. /\ UNCHANGED <<isAdmin, name, service, insts, dialog, checking, jobs>>
      /\ steps' = steps + 1 /\ Emit(ns)
  BY DEF Other, copies
<1>2. /\ Announced /\ (notice => notice') /\ (missed => missed')
      /\ notice' \in BOOLEAN /\ missed' \in BOOLEAN /\ live' = live /\ (notice' => live)
  BY <1>1, EmitFollows
<1>3. JobsInv' /\ SameReads
  BY <1>1, JobsKept DEF Inv, SameReads
<1>4. PageInv'
  <2>1. PageInv
    BY DEF Inv
  <2>2. steps \in Nat
    BY <2>1 DEF PageInv
  <2>3. steps' \in Nat
    BY <1>1, <2>2, NextCount
  <2>4. DialogOK(dialog)'
    BY <1>1, <2>1, DialogKept
  <2> QED
    BY <1>1, <1>2, <2>1, <2>3, <2>4 DEF PageInv
<1>5. Following'
  BY <1>1, <1>2, <1>3, StaysFollowing DEF Inv, copies
<1> QED
  BY <1>3, <1>4, <1>5 DEF Inv

(* Owners, other operators and the service's own client.                   *)
LEMMA OthersSteps ==
    ASSUME Inv,
           \/ \E n \in Name : OtherDeletes(n) \/ OtherPutsService(n)
           \/ \E k \in Key, b \in BOOLEAN : OtherBlocks(k, b)
           \/ \E i \in Id : Registers(i)
    PROVE  Inv'
<1>1. ServerInv
  BY DEF Inv
<1>2. ASSUME NEW n \in Name, OtherDeletes(n) PROVE Inv'
  <2>1. ServerInv' /\ OnlyTouches({n})
    BY <1>1, <1>2, DropService DEF OtherDeletes
  <2> QED
    BY <1>2, <2>1, OtherStep DEF OtherDeletes
<1>3. ASSUME NEW n \in Name, OtherPutsService(n) PROVE Inv'
  <2>1. svc[n] \in Service
    BY <1>1, <1>3 DEF ServerInv, OtherPutsService
  <2>2. \E rec \in Service : svc' = [svc EXCEPT ![n] = rec]
    <3>1. CASE svc' = [svc EXCEPT ![n].private = ~@]
      <4> DEFINE rec == [svc[n] EXCEPT !.private = ~@]
      <4>1. rec \in Service
        BY <2>1 DEF Service
      <4>2. svc' = [svc EXCEPT ![n] = rec]
        BY <3>1
      <4> QED
        BY <4>1, <4>2
    <3>2. ASSUME NEW g \in SUBSET User, svc' = [svc EXCEPT ![n].grants = g]
          PROVE  \E rec \in Service : svc' = [svc EXCEPT ![n] = rec]
      <4> DEFINE rec == [svc[n] EXCEPT !.grants = g]
      <4>1. rec \in Service
        BY <2>1 DEF Service
      <4>2. svc' = [svc EXCEPT ![n] = rec]
        BY <3>2
      <4> QED
        BY <4>1, <4>2
    <3>3. svc[n].grants \union {Me} \in SUBSET User /\ svc[n].grants \ {Me} \in SUBSET User
      BY <2>1, ServicePageAssumption DEF Service
    <3> QED
      BY <1>3, <3>1, <3>2, <3>3 DEF OtherPutsService
  <2>3. ServerInv' /\ OnlyTouches({n})
    BY <1>1, <1>3, <2>2, WriteService DEF OtherPutsService
  <2> QED
    BY <1>3, <2>3, OtherStep DEF OtherPutsService
<1>4. ASSUME NEW k \in Key, NEW b \in BOOLEAN, OtherBlocks(k, b) PROVE Inv'
  <2>1. ServerInv' /\ OnlyTouches({k[1]})
    BY <1>1, <1>4, SetBlockedWrites DEF OtherBlocks
  <2> QED
    BY <1>4, <2>1, OtherStep DEF OtherBlocks
<1>5. ASSUME NEW i \in Id, Registers(i) PROVE Inv'
  <2> DEFINE k == <<Home, i>>
  <2>1. k \in Key /\ k[1] = Home /\ Blank \in Text
    BY ServicePageAssumption DEF Key
  <2>2. PutInstance(k, TRUE, Blank) /\ wanted' = wanted /\ Other({Home})
    BY <1>5 DEF Registers
  <2> HIDE DEF k
  <2>3. ServerInv' /\ OnlyTouches({k[1]})
    BY <1>1, <2>1, <2>2, PutInstanceWrites
  <2> QED
    BY <2>1, <2>2, <2>3, OtherStep
<1> QED
  BY <1>2, <1>3, <1>4, <1>5

-----------------------------------------------------------------------------
(* The answers.                                                            *)

(* An answer closes the dialog or ends its saving.                         *)
LEMMA ClosingFacts ==
    ASSUME Inv, NEW j
    PROVE  DialogOK(Closing(j)) /\ (Closing(j) # None => service # None)
<1>1. DialogOK(None)
  BY DEF DialogOK
<1>2. CASE dialog = None
  BY <1>1, <1>2 DEF Closing
<1>3. CASE dialog # None
  <2> DEFINE s == dialog.saving /\ ~(j.st # "served" /\ j.kind = "put" /\ j.no = dialog.no)
  <2>1. /\ \A b \in BOOLEAN : DialogOK([dialog EXCEPT !.saving = b])
        /\ service # None /\ dialog \in DialogBox
    BY <1>3, DialogFacts
  <2>2. s \in BOOLEAN
    OBVIOUS
  <2>3. Closing(j) = None \/ Closing(j) = [dialog EXCEPT !.saving = s]
    BY <1>3, <2>1 DEF Closing, DialogBox
  <2> HIDE DEF s
  <2> QED
    BY <1>1, <2>1, <2>2, <2>3
<1> QED
  BY <1>2, <1>3

(* The answer to a request may close the dialog, and ask for a refresh.    *)
LEMMA FinishStep == ASSUME Inv, NEW j \in jobs, Finish(j) PROVE Inv'
<1>1. /\ UNCHANGED <<svc, inst, wanted, isAdmin, name, service, insts, live, notice, missed,
                     steps>>
      /\ j.kind # "refresh"
  BY DEF Finish, Done, server, copies, channel
<1>2. j \in Request /\ j \notin Reading
  BY <1>1, JobFacts
<1>3. /\ DialogOK(dialog') /\ (dialog' # None => service # None)
      /\ checking' \in SUBSET Id
  <2>1. /\ dialog' = dialog \/ dialog' = Closing(j)
        /\ checking' = checking \/ checking' = Spinning(j)
    BY DEF Finish
  <2> QED
    BY <2>1, ClosingFacts DEF Inv, PageInv, Spinning
<1>4. /\ \A x \in jobs' : \/ x \in jobs
                          \/ j.at \in Name /\ x = Refresh(j.at)
      /\ \A x \in jobs : x \in Reading => x \in jobs'
      /\ name = "" => jobs' \subseteq jobs
  <2>1. CASE j.at = ""
    BY <1>2, <2>1 DEF Finish
  <2>2. CASE j.at # ""
    <3>1. j.at \in Name /\ name # ""
      BY <1>2, <2>2, Kinds, JobFacts
    <3> QED
      BY <1>2, <2>2, <3>1 DEF Finish
  <2> QED
    BY <2>1, <2>2
<1>5. ASSUME NEW x \in jobs', x \notin jobs
      PROVE  x \in Reading /\ x.got = {} /\ JobOK(x)
  <2>1. j.at \in Name /\ x = Refresh(j.at)
    BY <1>4, <1>5
  <2> QED
    BY <2>1, NewRefresh
<1>6. ServerInv'
  BY <1>1, SameServer DEF Inv
<1>7. JobsInv'
  BY <1>1, <1>5, JobsKept DEF Inv
<1>8. PageInv'
  <2>1. DialogOK(dialog)'
    BY <1>1, <1>3 DEF DialogOK, CanEdit
  <2>2. name = "" => dialog' = None
    BY <1>3 DEF Inv, PageInv
  <2> QED
    BY <1>1, <1>3, <1>4, <2>1, <2>2 DEF Inv, PageInv
<1>9. Following'
  <2>1. SameReads /\ Announced
    BY <1>1, <1>4, <1>5 DEF SameReads, Announced, OnlyTouches
  <2> QED
    BY <1>1, <2>1, StaysFollowing DEF Inv, copies
<1> QED
  BY <1>6, <1>7, <1>8, <1>9 DEF Inv

(* After a rename the page starts anew under the new name.                 *)
LEMMA FinishRenameStep == ASSUME Inv, NEW j \in jobs, FinishRename(j) PROVE Inv'
<1>1. /\ UNCHANGED <<svc, inst, wanted, isAdmin, service, insts, checking, missed, steps>>
      /\ j.kind = "rename"
  BY DEF FinishRename, server, copies
<1>2. j \in Request /\ j \notin Reading /\ j.arg \in Name
  BY <1>1, JobFacts, Kinds
<1>3. DialogOK(dialog') /\ (dialog' # None => service # None)
  <2>1. dialog' = dialog \/ dialog' = Closing(j)
    BY DEF FinishRename
  <2> QED
    BY <2>1, ClosingFacts DEF Inv, PageInv
<1>4. ServerInv'
  BY <1>1, SameServer DEF Inv
<1>5. DialogOK(dialog)'
  BY <1>1, <1>3 DEF DialogOK, CanEdit
<1>6. CASE j.st # "served" \/ name = j.arg
  <2>1. jobs' = jobs \ {j} /\ UNCHANGED <<name, live, notice>>
    BY <1>6 DEF FinishRename
  <2>2. JobsInv'
    BY <1>1, <2>1, JobsKept DEF Inv
  <2>3. PageInv'
    BY <1>1, <1>3, <1>5, <2>1 DEF Inv, PageInv
  <2>4. Following'
    <3>1. SameReads /\ Announced
      BY <1>1, <1>2, <2>1 DEF SameReads, Announced, OnlyTouches
    <3> QED
      BY <1>1, <2>1, <3>1, StaysFollowing DEF Inv, copies
  <2> QED
    BY <1>4, <2>2, <2>3, <2>4 DEF Inv
<1>7. CASE j.st = "served" /\ name # j.arg
  <2>1. /\ jobs' = (jobs \ {j}) \union {Refresh(j.arg)}
        /\ name' = j.arg /\ live' = FALSE /\ notice' = FALSE
    BY <1>7 DEF FinishRename
  <2>2. /\ Refresh(j.arg) \in Reading /\ Refresh(j.arg).name = j.arg
        /\ Refresh(j.arg).got = {} /\ JobOK(Refresh(j.arg))
    BY <1>2, NewRefresh
  <2>3. JobsInv'
    BY <1>1, <2>1, <2>2, JobsKept DEF Inv
  <2>4. name' # "" /\ name' \in Name
    BY <1>2, <2>1, ServicePageAssumption
  <2>5. PageInv'
    BY <1>1, <1>3, <1>5, <2>1, <2>4 DEF Inv, PageInv
  <2>6. Following'
    BY <2>1, <2>2 DEF Following, Fresh
  <2> QED
    BY <1>4, <2>3, <2>5, <2>6 DEF Inv
<1> QED
  BY <1>6, <1>7

(* The answer to a deletion takes the user away from the page.             *)
LEMMA FinishDeleteServiceStep ==
    ASSUME Inv, NEW j \in jobs, FinishDeleteService(j) PROVE Inv'
<1>1. CASE j.st = "served"
  <2>1. jobs \ {j} \in SUBSET jobs
    OBVIOUS
  <2> QED
    BY <1>1, <2>1, UnmountStep DEF FinishDeleteService
<1>2. CASE j.st # "served"
  <2>1. /\ UNCHANGED <<svc, inst, wanted, isAdmin, name, service, insts, dialog, checking, live,
                       notice, missed, steps>>
        /\ jobs' = jobs \ {j} /\ j.kind # "refresh"
    BY <1>2 DEF FinishDeleteService, Done, server, copies
  <2>2. j \notin Reading
    BY <2>1, JobFacts
  <2>3. ServerInv'
    BY <2>1, SameServer DEF Inv
  <2>4. JobsInv'
    BY <2>1, JobsKept DEF Inv
  <2>5. PageInv'
    <3>1. DialogOK(dialog)'
      BY <2>1, DialogKept DEF Inv
    <3> QED
      BY <2>1, <3>1 DEF Inv, PageInv
  <2>6. Following'
    <3>1. SameReads /\ Announced
      BY <2>1, <2>2 DEF SameReads, Announced, OnlyTouches
    <3> QED
      BY <2>1, <3>1, StaysFollowing DEF Inv, copies
  <2> QED
    BY <2>3, <2>4, <2>5, <2>6 DEF Inv
<1> QED
  BY <1>1, <1>2

(* The page takes over what a refresh brings.  When all it read is still   *)
(* so the page is current; when it is not, or another answer was put on    *)
(* the page meanwhile, some refresh is left or something was missed.       *)
LEMMA FinishRefreshStep == ASSUME Inv, NEW j \in jobs, FinishRefresh(j) PROVE Inv'
<1>1. /\ UNCHANGED <<svc, inst, wanted, isAdmin, name, dialog, checking, live, notice, steps>>
      /\ j.kind = "refresh" /\ j.got = {"service", "instances"}
  BY DEF FinishRefresh, server
<1>2. j \in Reading /\ name # ""
  BY <1>1, JobFacts
<1>3. name \in Name /\ PageInv /\ JobsInv /\ Following /\ ServerInv
  BY <1>2 DEF Inv, PageInv
<1>4. /\ j.name \in Name /\ j.svc \in Service \union {None} /\ j.insts \in Listing
      /\ j.late \in BOOLEAN
  BY <1>2 DEF Reading
<1>5. ServerInv'
  BY <1>1, <1>3, SameServer
<1>6. DialogOK(dialog)'
  BY <1>1, <1>3, DialogKept
<1>7. \A r : Fresh(r)' <=> Fresh(r)
  BY <1>1 DEF Fresh, Instances
<1>8. CASE j.svc = None
  <2>1. UNCHANGED <<service, insts, missed>> /\ jobs' = jobs \ {j}
    BY <1>8 DEF FinishRefresh, copies
  <2>2. JobsInv'
    BY <1>1, <1>3, <2>1, JobsKept
  <2>3. PageInv'
    BY <1>1, <1>2, <1>3, <1>6, <2>1 DEF PageInv
  <2>4. Following'
    <3>1. j.name = name /\ Fresh(j) => svc[name] = None
      BY <1>1, <1>8 DEF Fresh
    <3>2. Current' <=> Current
      BY <1>1, <2>1 DEF Current, Instances
    <3> QED
      BY <1>1, <1>2, <1>3, <1>7, <2>1, <3>1, <3>2 DEF Following
  <2> QED
    BY <1>5, <2>2, <2>3, <2>4 DEF Inv
<1>9. CASE j.svc # None
  <2> DEFINE m == missed \/ j.late
             f(r) == IF r.kind = "refresh" /\ r.got # {} THEN [r EXCEPT !.late = ~m] ELSE r
  <2>1. /\ service' = [name |-> j.name, rec |-> j.svc] /\ insts' = j.insts
        /\ missed' = m
        /\ jobs' = {f(r) : r \in jobs \ {j}}
    BY <1>9 DEF FinishRefresh
  <2>2. m \in BOOLEAN /\ (~m) \in BOOLEAN
    <3>1. missed \in BOOLEAN
      BY <1>3 DEF PageInv
    <3> QED
      BY <1>4, <3>1
  <2> HIDE DEF m
  <2>3. ASSUME NEW r \in jobs
        PROVE  /\ JobOK(f(r)) /\ f(r).name = r.name
               /\ r \in Reading <=> f(r) \in Reading
               /\ r \in Reading /\ Fresh(r) => Fresh(f(r))
               /\ r \in Reading => f(r).got = r.got /\ (r.got # {} => f(r).late = ~m)
    <3>1. CASE r \in Reading
      <4>1. r.kind = "refresh"
        BY <3>1, Kinds
      <4>2. CASE r.got = {}
        BY <3>1, <4>2 DEF JobOK
      <4>3. CASE r.got # {}
        <5> DEFINE k == [r EXCEPT !.late = ~m]
        <5>1. k \in Reading
          BY <2>2, <3>1 DEF Reading
        <5>2. /\ k.name = r.name /\ k.got = r.got /\ k.svc = r.svc /\ k.insts = r.insts
              /\ k.late = ~m
          BY <2>2, <3>1 DEF Reading
        <5>3. f(r) = k
          BY <4>1, <4>3
        <5> HIDE DEF k, f
        <5>4. Fresh(r) => Fresh(k)
          BY <5>2 DEF Fresh
        <5> QED
          BY <3>1, <5>1, <5>2, <5>3, <5>4 DEF JobOK
      <4> QED
        BY <4>2, <4>3
    <3>2. CASE r \notin Reading
      <4>1. r.kind # "refresh" /\ JobOK(r)
        BY <1>3, <3>2, JobFacts DEF JobsInv
      <4> QED
        BY <3>2, <4>1
    <3> QED
      BY <3>1, <3>2
  <2> HIDE DEF f
  <2>4. JobsInv'
    <3>1. \A k \in jobs' : JobOK(k)
      BY <2>1, <2>3
    <3> QED
      BY <1>1, <1>3, <3>1, JobsKept
  <2>5. PageInv'
    <3>1. service' \in Copy /\ service' # None
      BY <1>4, <1>9, <2>1, NoneIsNothing DEF Copy
    <3> QED
      BY <1>1, <1>2, <1>3, <1>4, <1>6, <2>1, <2>2, <3>1 DEF PageInv
  <2>6. Following'
    <3> SUFFICES ASSUME ~m, ~notice, svc[name] # None,
                        ~\E k \in jobs' : k \in Reading /\ k.name = name /\ Fresh(k)
                 PROVE  /\ \A k \in jobs' : k \in Reading /\ k.name = name => k.late
                        /\ service'.name = name => Current'
      BY <1>1, <1>7, <2>1 DEF Following
    <3>1. \A k \in jobs' : k \in Reading /\ k.name = name => k.late
      <4> SUFFICES ASSUME NEW k \in jobs', k \in Reading, k.name = name PROVE k.late
        OBVIOUS
      <4>1. PICK r \in jobs \ {j} : k = f(r)
        BY <2>1
      <4>2. r \in Reading /\ k.got = r.got
        BY <2>3, <4>1
      <4>3. k.got # {}
        BY DEF Fresh
      <4> QED
        BY <2>3, <4>1, <4>2, <4>3
    <3>2. ASSUME NEW r \in jobs, r # j, r \in Reading, r.name = name PROVE ~Fresh(r)
      <4>1. f(r) \in jobs' /\ f(r) \in Reading /\ f(r).name = name
        BY <2>1, <2>3, <3>2
      <4> QED
        BY <2>3, <3>2, <4>1
    <3>3. ~missed /\ ~j.late
      BY DEF m
    <3>4. j.name = name => Fresh(j)
      BY <1>2, <1>3, <3>2, <3>3 DEF Following
    <3>5. ASSUME j.name = name PROVE Current'
      <4>1. j.svc = svc[name] /\ j.insts = Instances(name)
        BY <1>1, <3>4, <3>5 DEF Fresh
      <4> QED
        BY <1>1, <2>1, <4>1 DEF Current, Instances
    <3> QED
      BY <2>1, <3>1, <3>5
  <2> QED
    BY <1>5, <2>4, <2>5, <2>6 DEF Inv
<1> QED
  BY <1>8, <1>9

(* A failed refresh is missed; a failed request has no answer.             *)
LEMMA FailStep == ASSUME Inv, NEW j \in jobs, Fail(j) PROVE Inv'
<1>1. /\ UNCHANGED <<svc, inst, wanted, isAdmin, name, service, insts, dialog, checking, live,
                     notice>>
      /\ steps' = steps + 1
  BY DEF Fail, server, copies
<1>2. PageInv /\ JobsInv /\ Following /\ ServerInv
  BY DEF Inv
<1>3. steps' \in Nat /\ DialogOK(dialog)'
  <2>1. steps \in Nat
    BY <1>2 DEF PageInv
  <2> QED
    BY <1>1, <1>2, <2>1, NextCount, DialogKept
<1>4. ServerInv'
  BY <1>1, <1>2, SameServer
<1>5. CASE jobs' = jobs \ {j} /\ missed' = TRUE
  <2>1. JobsInv'
    BY <1>1, <1>2, <1>5, JobsKept
  <2>2. PageInv'
    BY <1>1, <1>2, <1>3, <1>5 DEF PageInv
  <2>3. Following'
    BY <1>5 DEF Following
  <2> QED
    BY <1>4, <2>1, <2>2, <2>3 DEF Inv
<1>6. CASE j.kind # "refresh" /\ jobs' = Replace(j, [j EXCEPT !.st = "failed"]) /\ missed' = missed
  <2> DEFINE k == [j EXCEPT !.st = "failed"]
  <2>1. j \in Request
    BY <1>6, JobFacts
  <2>2. "failed" \in Stage
    BY DEF Stage, Refused
  <2>3. k \in Request
    BY <2>1, <2>2, Kinds
  <2>4. k.st = "failed" /\ k.at = j.at
    BY <2>1 DEF Request, Shape
  <2>5. jobs' = Replace(j, k)
    BY <1>6
  <2> HIDE DEF k
  <2>6. Offered(k)
    BY <2>4 DEF Offered
  <2>7. JobsInv'
    BY <1>1, <1>2, <2>3, <2>5, <2>6, JobsKept DEF Replace, JobOK
  <2>8. PageInv'
    <3>1. name = "" => \A x \in jobs' : x \notin Reading /\ x.at = ""
      BY <1>2, <2>3, <2>4, <2>5, Kinds DEF PageInv, Replace
    <3> QED
      BY <1>1, <1>2, <1>3, <1>6, <3>1 DEF PageInv
  <2>9. Following'
    <3>1. SameReads /\ Announced
      BY <1>1, <2>1, <2>3, <2>5, Kinds DEF SameReads, Replace, Announced, OnlyTouches
    <3> QED
      BY <1>1, <1>2, <1>6, <3>1, StaysFollowing DEF copies
  <2> QED
    BY <1>4, <2>7, <2>8, <2>9 DEF Inv
<1> QED
  BY <1>5, <1>6 DEF Fail

-----------------------------------------------------------------------------
(* At the start the page waits for its first refresh.                      *)
LEMMA InitHolds == ASSUME Init PROVE Inv
<1>1. Home \in Name /\ Home # "" /\ First \in Id /\ Blank \in Text
  BY ServicePageAssumption
<1>2. /\ svc \in [Name -> Service \union {None}] /\ svc[Home] # None
      /\ wanted = [k \in Key |-> FALSE]
      /\ name = Home /\ isAdmin \in BOOLEAN /\ service = None /\ dialog = None
      /\ checking = {} /\ live = FALSE /\ notice = FALSE /\ missed = FALSE
      /\ jobs = {Refresh(Home)} /\ steps = 0
  BY DEF Init
<1>3. insts \in Listing
  BY Listings DEF Init
<1>4. ServerInv
  <2> DEFINE rec == [managed |-> FALSE, blocked |-> FALSE, text |-> Blank]
  <2>1. rec \in Instance /\ rec.blocked = FALSE
    BY <1>1 DEF Instance
  <2>2. inst = [k \in Key |-> IF k = <<Home, First>> THEN rec ELSE None]
    BY DEF Init
  <2> HIDE DEF rec
  <2>3. inst \in [Key -> Instance \union {None}]
    BY <2>1, <2>2
  <2>4. ASSUME NEW k \in Key, inst[k] # None
        PROVE  svc[k[1]] # None /\ inst[k].blocked = wanted[k]
    <3>1. k = <<Home, First>> /\ inst[k] = rec
      BY <2>2, <2>4
    <3> QED
      BY <1>2, <2>1, <3>1
  <2> QED
    BY <1>2, <2>3, <2>4 DEF ServerInv
<1>5. /\ Refresh(Home) \in Reading /\ Refresh(Home).name = Home /\ Refresh(Home).got = {}
      /\ JobOK(Refresh(Home))
  BY <1>1, NewRefresh
<1>6. JobsInv
  BY <1>2, <1>5 DEF JobsInv
<1>7. PageInv
  BY <1>1, <1>2, <1>3 DEF PageInv, DialogOK
<1>8. Following
  BY <1>2, <1>5 DEF Following, Fresh
<1> QED
  BY <1>4, <1>6, <1>7, <1>8 DEF Inv

(* Every step keeps the invariant.                                         *)
LEMMA NextKeeps == ASSUME Inv, [Next]_vars PROVE Inv'
<1>1. CASE UNCHANGED vars
  <2>1. UNCHANGED <<server, isAdmin, name, copies, checking, channel, jobs, steps>>
    BY <1>1 DEF vars
  <2>2. dialog' = dialog
    BY <1>1 DEF vars
  <2> QED
    BY <2>1, <2>2, DialogStep DEF Inv, PageInv
<1>2. CASE \/ Settings \/ AskDeleteService \/ NewInstance \/ Cancel
           \/ \E i \in DOMAIN insts : EditInstance(i) \/ AskDeleteInstance(i) \/ copyInstance(i)
           \/ \E u \in User \ {Me} : searchCorp(u)
           \/ TypeGrant \/ \E st \in {"found", "none", "denied"} : AnswerSearch(st)
  BY <1>2, DialogSteps
<1>3. CASE \/ deleteService \/ deleteInstance \/ \E i \in Id, t \in Fields : save(i, t)
  BY <1>3, DialogRequests
<1>4. CASE \E i \in DOMAIN insts : toggleBlock(i) \/ checkNow(i)
  BY <1>4, ButtonRequests
<1>5. CASE \E u \in User \ {Me} : addGrant(u) \/ removeGrant(u)
  BY <1>5, AccessRequests
<1>6. CASE \E p \in BOOLEAN, n \in Name : handleSave(p, n)
  BY <1>6, SaveRequests
<1>7. CASE Leave \/ WatchOpens \/ WatchBreaks \/ onEvent
  BY <1>7, LeaveStep, WatchSteps
<1>8. ASSUME NEW j \in jobs,
             \/ ReadService(j) \/ ReadInstances(j) \/ Judge(j) \/ Commit(j)
             \/ FinishRefresh(j) \/ Finish(j) \/ FinishRename(j)
             \/ FinishDeleteService(j) \/ Fail(j)
      PROVE  Inv'
  BY <1>8, ReadSteps, JudgeStep, CommitStep, FinishRefreshStep, FinishStep, FinishRenameStep,
     FinishDeleteServiceStep, FailStep
<1>9. CASE \/ \E n \in Name : OtherDeletes(n) \/ OtherPutsService(n)
           \/ \E k \in Key, b \in BOOLEAN : OtherBlocks(k, b)
           \/ \E i \in Id : Registers(i)
  BY <1>9, OthersSteps
<1> QED
  BY <1>1, <1>2, <1>3, <1>4, <1>5, <1>6, <1>7, <1>8, <1>9 DEF Next

(* The invariant holds of every reachable state.                           *)
THEOREM ServicePageInvariant == Spec => []Inv
<1>1. Init => Inv
  BY InitHolds
<1>2. Inv /\ [Next]_vars => Inv'
  BY NextKeeps
<1> QED
  BY <1>1, <1>2, PTL DEF Spec

(* Types of the records, the copies and the page; an instance's service is *)
(* registered, and a page that was left has neither dialog nor watch.      *)
THEOREM TypeCorrect == Spec => []TypeOK
<1>1. Inv => TypeOK
  <2> SUFFICES ASSUME Inv PROVE TypeOK
    OBVIOUS
  <2>1. /\ \A n \in Name : svc[n] = None \/ svc[n] \in Service
        /\ \A k \in Key : \/ inst[k] = None
                          \/ inst[k] \in Instance /\ svc[k[1]] # None
    BY DEF Inv, ServerInv
  <2>2. service # None => service.name \in Name /\ service.rec \in Service
    BY DEF Inv, PageInv, Copy
  <2>3. \A i \in DOMAIN insts : i \in Id /\ insts[i] \in Instance
    BY Listings DEF Inv, PageInv
  <2>4. /\ name \in Name \union {""} /\ checking \subseteq Id
        /\ name = "" => dialog = None /\ ~live
    BY DEF Inv, PageInv
  <2> QED
    BY <2>1, <2>2, <2>3, <2>4 DEF TypeOK
<1> QED
  BY <1>1, ServicePageInvariant, PTL

(* An event per write and a refresh per event are enough: when nothing is  *)
(* under way and nothing was lost, the page shows what the server has.     *)
THEOREM QuietPageIsCurrent == Spec => []QuietMeansCurrent
<1>1. Inv => QuietMeansCurrent
  BY DEF Inv, Following, Current, QuietMeansCurrent
<1> QED
  BY <1>1, ServicePageInvariant, PTL

(* The page's canEdit agrees with the server's rule: what is denied was    *)
(* offered on a copy the server no longer has.                             *)
THEOREM OffersAreAllowed == Spec => []OfferedIsAllowed
<1>1. Inv => OfferedIsAllowed
  <2> SUFFICES ASSUME Inv, NEW j \in jobs, j.kind # "refresh", j.st = "denied",
                      j.shown = [name |-> j.name, rec |-> j.seen]
               PROVE  FALSE
    BY DEF OfferedIsAllowed
  <2>1. Offered(j)
    BY JobFacts
  <2>2. j.shown.name = j.name /\ j.shown.rec = j.seen
    OBVIOUS
  <2> QED
    BY <2>1, <2>2 DEF Offered
<1> QED
  BY <1>1, ServicePageInvariant, PTL

(* No save, rename or registration puts a blocked instance back into       *)
(* rotation.                                                               *)
THEOREM BlocksHold == Spec => []BlockHolds
<1>1. Inv => BlockHolds
  BY DEF Inv, ServerInv, BlockHolds
<1> QED
  BY <1>1, ServicePageInvariant, PTL
=============================================================================
