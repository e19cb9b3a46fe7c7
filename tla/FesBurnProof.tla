----------------------------- MODULE FesBurnProof ------------------------------
(* Proofs about FesBurn, for any download map, any number of buffers, queries *)
(* and burns: the invariant that relates the step the host is at to what it   *)
(* has verified, to the flash and to the buffer, and what follows from it.    *)
EXTENDS FesBurn, TLAPS

------------------------------------------------------------------------------
(* The script *)

Place(job, op) == [job |-> job, op |-> op]
Places == [job : Jobs \cup {"storage", "parts", "mode"},
           op : {"flag", "save", "query", "type", "down", "status", "on", "off", "parts",
                 "mode"}]

IsList(s, n) == s \in Seq(Places) /\ Len(s) = n
Join(s, t) == s \o t

\* What two sequences are, one after the other.
LEMMA Joined ==
    ASSUME NEW s, NEW t, NEW m \in Nat, NEW n \in Nat, IsList(s, m), IsList(t, n)
    PROVE  /\ IsList(Join(s, t), m + n)
           /\ \A k \in 1 .. m : Join(s, t)[k] = s[k]
           /\ \A k \in 1 .. n : Join(s, t)[m + k] = t[k]
  <1>1. s \in Seq(Places) /\ t \in Seq(Places) /\ Len(s) = m /\ Len(t) = n
    BY DEF IsList
  <1> QED
    BY <1>1 DEF Join, IsList

\* What short sequences of places are.
LEMMA Listed ==
    ASSUME NEW x \in Places, NEW y \in Places, NEW z \in Places, NEW u \in Places,
           NEW v \in Places
    PROVE  /\ IsList(<<>>, 0) /\ IsList(<<x>>, 1) /\ IsList(<<x, y, z>>, 3)
           /\ IsList(<<x, y, z, u, v>>, 5)
  BY DEF IsList

\* The steps before those of the path: b of them are the erase flag's.
LEMMA StartSteps ==
    ASSUME NEW mode \in {"product", "update"}, NEW b \in {0, 3}, b = 3 <=> mode = "update"
    PROVE  /\ IsList(Start(mode), b + 4)
           /\ Start(mode)[b + 1] = Place("mbr", "save")
           /\ Start(mode)[b + 2] = Place("mbr", "down")
           /\ Start(mode)[b + 3] = Place("mbr", "status")
           /\ Start(mode)[b + 4] = Place("storage", "type")
           /\ b = 3 => /\ Start(mode)[1] = Place("erase", "flag")
                       /\ Start(mode)[2] = Place("erase", "down")
                       /\ Start(mode)[3] = Place("erase", "status")
  <1> DEFINE e == Steps("erase", <<"flag", "down", "status">>)
             m == Steps("mbr", <<"save", "down", "status">>)
             t == Steps("storage", <<"type">>)
             s == IF mode = "update" THEN e ELSE <<>>
  <1>1. /\ IsList(e, 3)
        /\ e[1] = Place("erase", "flag") /\ e[2] = Place("erase", "down")
        /\ e[3] = Place("erase", "status")
    <2>1. /\ Place("erase", "flag") \in Places /\ Place("erase", "down") \in Places
          /\ Place("erase", "status") \in Places
      BY DEF Place, Places, Jobs
    <2>2. e = <<Place("erase", "flag"), Place("erase", "down"), Place("erase", "status")>>
      BY DEF Steps, Place
    <2> HIDE DEF e
    <2> QED
      BY <2>1, <2>2, Listed
  <1>2. /\ IsList(m, 3)
        /\ m[1] = Place("mbr", "save") /\ m[2] = Place("mbr", "down")
        /\ m[3] = Place("mbr", "status")
    <2>1. /\ Place("mbr", "save") \in Places /\ Place("mbr", "down") \in Places
          /\ Place("mbr", "status") \in Places
      BY DEF Place, Places, Jobs
    <2>2. m = <<Place("mbr", "save"), Place("mbr", "down"), Place("mbr", "status")>>
      BY DEF Steps, Place
    <2> HIDE DEF m
    <2> QED
      BY <2>1, <2>2, Listed
  <1>3. /\ IsList(t, 1)
        /\ t[1] = Place("storage", "type")
    <2>1. /\ Place("storage", "type") \in Places
      BY DEF Place, Places, Jobs
    <2>2. t = <<Place("storage", "type")>>
      BY DEF Steps, Place
    <2> HIDE DEF t
    <2> QED
      BY <2>1, <2>2, Listed
  <1>4. Start(mode) = Join(Join(s, m), t)
    BY DEF Start, Join
  <1> HIDE DEF e, m, t
  <1>5. IsList(s, b) /\ (b = 3 => s = e)
    <2>1. CASE b = 3
      BY <1>1, <2>1
    <2>2. CASE b = 0
      BY <2>2, Listed DEF IsList
    <2> QED
      BY <2>1, <2>2
  <1> HIDE DEF s
  <1>6. /\ IsList(Join(s, m), b + 3)
        /\ \A k \in 1 .. b : Join(s, m)[k] = s[k]
        /\ \A k \in 1 .. 3 : Join(s, m)[b + k] = m[k]
    BY <1>2, <1>5, Joined
  <1>7. /\ IsList(Join(Join(s, m), t), b + 3 + 1)
        /\ \A k \in 1 .. b + 3 : Join(Join(s, m), t)[k] = Join(s, m)[k]
        /\ \A k \in 1 .. 1 : Join(Join(s, m), t)[b + 3 + k] = t[k]
    BY <1>3, <1>6, Joined
  <1>8. /\ Start(mode)[b + 1] = m[1] /\ Start(mode)[b + 2] = m[2]
        /\ Start(mode)[b + 3] = m[3] /\ Start(mode)[b + 4] = t[1]
    BY <1>4, <1>6, <1>7
  <1>9. b = 3 => Start(mode)[1] = s[1] /\ Start(mode)[2] = s[2] /\ Start(mode)[3] = s[3]
    BY <1>4, <1>6, <1>7
  <1>10. IsList(Start(mode), b + 4)
    BY <1>4, <1>7
  <1> QED
    BY <1>1, <1>2, <1>3, <1>5, <1>8, <1>9, <1>10

\* The steps of the path of the full image.
LEMMA FullPath ==
    /\ IsList(FullSteps, 5)
    /\ FullSteps[1] = Place("full", "query") /\ FullSteps[2] = Place("full", "flag")
    /\ FullSteps[3] = Place("full", "down") /\ FullSteps[4] = Place("full", "status")
    /\ FullSteps[5] = Place("full", "parts")
  <1> DEFINE f == FullSteps
  <1>1. /\ IsList(f, 5)
        /\ f[1] = Place("full", "query") /\ f[2] = Place("full", "flag")
        /\ f[3] = Place("full", "down") /\ f[4] = Place("full", "status")
        /\ f[5] = Place("full", "parts")
    <2>1. /\ Place("full", "query") \in Places /\ Place("full", "flag") \in Places
          /\ Place("full", "down") \in Places /\ Place("full", "status") \in Places
          /\ Place("full", "parts") \in Places
      BY DEF Place, Places, Jobs
    <2>2. f = <<Place("full", "query"), Place("full", "flag"), Place("full", "down"),
            Place("full", "status"), Place("full", "parts")>>
      BY DEF Steps, Place, FullSteps
    <2> QED
      BY <2>1, <2>2, Listed
  <1> QED
    BY <1>1

\* The steps of the path of the partitions.
LEMMA PartPath ==
    /\ IsList(PartSteps, 16)
    /\ PartSteps[1] = Place("parts", "on") /\ PartSteps[2] = Place("parts", "save")
    /\ PartSteps[3] = Place("parts", "query") /\ PartSteps[4] = Place("parts", "parts")
    /\ PartSteps[5] = Place("parts", "off") /\ PartSteps[6] = Place("uboot", "type")
    /\ PartSteps[7] = Place("uboot", "query") /\ PartSteps[8] = Place("uboot", "save")
    /\ PartSteps[9] = Place("uboot", "down") /\ PartSteps[10] = Place("uboot", "status")
    /\ PartSteps[11] = Place("boot0", "query") /\ PartSteps[12] = Place("boot0", "query")
    /\ PartSteps[13] = Place("boot0", "save") /\ PartSteps[14] = Place("boot0", "down")
    /\ PartSteps[15] = Place("boot0", "status") /\ PartSteps[16] = Place("mode", "mode")
  <1> DEFINE p == Steps("parts", <<"on", "save", "query", "parts", "off">>)
             u == Steps("uboot", <<"type", "query", "save", "down", "status">>)
             b == Steps("boot0", <<"query", "query", "save", "down", "status">>)
             m == Steps("mode", <<"mode">>)
  <1>1. /\ IsList(p, 5)
        /\ p[1] = Place("parts", "on") /\ p[2] = Place("parts", "save")
        /\ p[3] = Place("parts", "query") /\ p[4] = Place("parts", "parts")
        /\ p[5] = Place("parts", "off")
    <2>1. /\ Place("parts", "on") \in Places /\ Place("parts", "save") \in Places
          /\ Place("parts", "query") \in Places /\ Place("parts", "parts") \in Places
          /\ Place("parts", "off") \in Places
      BY DEF Place, Places, Jobs
    <2>2. p = <<Place("parts", "on"), Place("parts", "save"), Place("parts", "query"),
            Place("parts", "parts"), Place("parts", "off")>>
      BY DEF Steps, Place
    <2> HIDE DEF p
    <2> QED
      BY <2>1, <2>2, Listed
  <1>2. /\ IsList(u, 5)
        /\ u[1] = Place("uboot", "type") /\ u[2] = Place("uboot", "query")
        /\ u[3] = Place("uboot", "save") /\ u[4] = Place("uboot", "down")
        /\ u[5] = Place("uboot", "status")
    <2>1. /\ Place("uboot", "type") \in Places /\ Place("uboot", "query") \in Places
          /\ Place("uboot", "save") \in Places /\ Place("uboot", "down") \in Places
          /\ Place("uboot", "status") \in Places
      BY DEF Place, Places, Jobs
    <2>2. u = <<Place("uboot", "type"), Place("uboot", "query"), Place("uboot", "save"),
            Place("uboot", "down"), Place("uboot", "status")>>
      BY DEF Steps, Place
    <2> HIDE DEF u
    <2> QED
      BY <2>1, <2>2, Listed
  <1>3. /\ IsList(b, 5)
        /\ b[1] = Place("boot0", "query") /\ b[2] = Place("boot0", "query")
        /\ b[3] = Place("boot0", "save") /\ b[4] = Place("boot0", "down")
        /\ b[5] = Place("boot0", "status")
    <2>1. /\ Place("boot0", "query") \in Places /\ Place("boot0", "save") \in Places
          /\ Place("boot0", "down") \in Places /\ Place("boot0", "status") \in Places
      BY DEF Place, Places, Jobs
    <2>2. b = <<Place("boot0", "query"), Place("boot0", "query"), Place("boot0", "save"),
            Place("boot0", "down"), Place("boot0", "status")>>
      BY DEF Steps, Place
    <2> HIDE DEF b
    <2> QED
      BY <2>1, <2>2, Listed
  <1>4. /\ IsList(m, 1)
        /\ m[1] = Place("mode", "mode")
    <2>1. /\ Place("mode", "mode") \in Places
      BY DEF Place, Places, Jobs
    <2>2. m = <<Place("mode", "mode")>>
      BY DEF Steps, Place
    <2> HIDE DEF m
    <2> QED
      BY <2>1, <2>2, Listed
  <1>5. PartSteps = Join(Join(Join(p, u), b), m)
    BY DEF PartSteps, Join
  <1> HIDE DEF p, u, b, m
  <1>6. /\ IsList(Join(p, u), 5 + 5)
        /\ \A k \in 1 .. 5 : Join(p, u)[k] = p[k]
        /\ \A k \in 1 .. 5 : Join(p, u)[5 + k] = u[k]
    BY <1>1, <1>2, Joined
  <1> DEFINE pu == Join(p, u)
  <1>7. IsList(pu, 10)
    BY <1>6
  <1> HIDE DEF pu
  <1>8. /\ IsList(Join(pu, b), 10 + 5)
        /\ \A k \in 1 .. 10 : Join(pu, b)[k] = pu[k]
        /\ \A k \in 1 .. 5 : Join(pu, b)[10 + k] = b[k]
    BY <1>3, <1>7, Joined
  <1> DEFINE pub == Join(pu, b)
  <1>9. IsList(pub, 15)
    BY <1>8
  <1> HIDE DEF pub
  <1>10. /\ IsList(Join(pub, m), 15 + 1)
         /\ \A k \in 1 .. 15 : Join(pub, m)[k] = pub[k]
         /\ \A k \in 1 .. 1 : Join(pub, m)[15 + k] = m[k]
    BY <1>4, <1>9, Joined
  <1>11. PartSteps = Join(pub, m)
    BY <1>5 DEF pu, pub
  <1>12. \A k \in 1 .. 5 : PartSteps[k] = p[k] /\ PartSteps[5 + k] = u[k]
    BY <1>6, <1>8, <1>10, <1>11 DEF pu, pub
  <1>13. \A k \in 1 .. 5 : PartSteps[10 + k] = b[k]
    BY <1>8, <1>10, <1>11 DEF pub
  <1>14. PartSteps[16] = m[1] /\ IsList(PartSteps, 16)
    BY <1>10, <1>11
  <1>15. /\ PartSteps[1] = p[1] /\ PartSteps[2] = p[2] /\ PartSteps[3] = p[3]
         /\ PartSteps[4] = p[4] /\ PartSteps[5] = p[5]
         /\ PartSteps[6] = u[1] /\ PartSteps[7] = u[2] /\ PartSteps[8] = u[3]
         /\ PartSteps[9] = u[4] /\ PartSteps[10] = u[5]
         /\ PartSteps[11] = b[1] /\ PartSteps[12] = b[2] /\ PartSteps[13] = b[3]
         /\ PartSteps[14] = b[4] /\ PartSteps[15] = b[5]
    BY <1>12, <1>13
  <1> QED
    BY <1>1, <1>2, <1>3, <1>4, <1>14, <1>15

\* The steps before the partition table: those of the erase flag, in one work mode.
Base == IF session.mode = "update" THEN 3 ELSE 0

\* Where the host is, counted from there.
Pos == at - Base
Op == Script[at].op
Running == at # 0

------------------------------------------------------------------------------
(* Where the host is *)

\* The steps of Script, counted from those of the erase flag.
LEMMA ScriptSteps ==
    ASSUME session.mode \in {"product", "update"}, path \in {"parts", "full"}
    PROVE  /\ Base \in {0, 3} /\ Len(Script) = Base + (IF path = "full" THEN 9 ELSE 20)
           /\ Script[Base + 1] = Place("mbr", "save") /\ Script[Base + 2] = Place("mbr", "down")
           /\ Script[Base + 3] = Place("mbr", "status")
           /\ Script[Base + 4] = Place("storage", "type")
           /\ Base = 3 => /\ Script[1] = Place("erase", "flag")
                          /\ Script[2] = Place("erase", "down")
                           /\ Script[3] = Place("erase", "status")
           /\ path = "full" => /\ Script[Base + 5] = Place("full", "query")
                               /\ Script[Base + 6] = Place("full", "flag")
                                /\ Script[Base + 7] = Place("full", "down")
                                /\ Script[Base + 8] = Place("full", "status")
                                /\ Script[Base + 9] = Place("full", "parts")
           /\ path = "parts" => /\ Script[Base + 5] = Place("parts", "on")
                                /\ Script[Base + 6] = Place("parts", "save")
                                 /\ Script[Base + 7] = Place("parts", "query")
                                 /\ Script[Base + 8] = Place("parts", "parts")
                                 /\ Script[Base + 9] = Place("parts", "off")
                                 /\ Script[Base + 10] = Place("uboot", "type")
                                 /\ Script[Base + 11] = Place("uboot", "query")
                                 /\ Script[Base + 12] = Place("uboot", "save")
                                 /\ Script[Base + 13] = Place("uboot", "down")
                                 /\ Script[Base + 14] = Place("uboot", "status")
                                 /\ Script[Base + 15] = Place("boot0", "query")
                                 /\ Script[Base + 16] = Place("boot0", "query")
                                 /\ Script[Base + 17] = Place("boot0", "save")
                                 /\ Script[Base + 18] = Place("boot0", "down")
                                 /\ Script[Base + 19] = Place("boot0", "status")
                                 /\ Script[Base + 20] = Place("mode", "mode")
  <1> DEFINE s == Start(session.mode)
             p == IF path = "full" THEN FullSteps ELSE PartSteps
             n == IF path = "full" THEN 5 ELSE 16
  <1>1. Base \in {0, 3} /\ (Base = 3 <=> session.mode = "update")
    BY DEF Base
  <1>2. /\ IsList(s, Base + 4)
        /\ s[Base + 1] = Place("mbr", "save") /\ s[Base + 2] = Place("mbr", "down")
        /\ s[Base + 3] = Place("mbr", "status") /\ s[Base + 4] = Place("storage", "type")
        /\ Base = 3 => /\ s[1] = Place("erase", "flag") /\ s[2] = Place("erase", "down")
                       /\ s[3] = Place("erase", "status")
    BY <1>1, StartSteps
  <1>3. IsList(p, n) /\ n \in {5, 16} /\ Script = Join(s, p)
    <2>1. Script = Join(s, p)
      BY DEF Script, Join
    <2>2. CASE path = "full"
      BY <2>1, <2>2, FullPath
    <2>3. CASE path = "parts"
      BY <2>1, <2>3, PartPath
    <2> QED
      BY <2>2, <2>3
  <1>4. (path = "full" => p = FullSteps /\ n = 5) /\ (path = "parts" => p = PartSteps /\ n = 16)
    OBVIOUS
  <1> HIDE DEF s, p, n
  <1>5. /\ IsList(Script, Base + 4 + n)
        /\ \A k \in 1 .. Base + 4 : Script[k] = s[k]
        /\ \A k \in 1 .. n : Script[Base + 4 + k] = p[k]
    BY <1>1, <1>2, <1>3, Joined
  <1>6. Len(Script) = Base + (IF path = "full" THEN 9 ELSE 20)
    BY <1>1, <1>4, <1>5 DEF IsList
  <1> HIDE DEF Script
  <1>7. /\ Script[Base + 1] = s[Base + 1] /\ Script[Base + 2] = s[Base + 2]
        /\ Script[Base + 3] = s[Base + 3] /\ Script[Base + 4] = s[Base + 4]
        /\ Base = 3 => Script[1] = s[1] /\ Script[2] = s[2] /\ Script[3] = s[3]
    BY <1>1, <1>5
  <1>8. ASSUME path = "full"
        PROVE  /\ Script[Base + 5] = Place("full", "query")
               /\ Script[Base + 6] = Place("full", "flag")
               /\ Script[Base + 7] = Place("full", "down")
               /\ Script[Base + 8] = Place("full", "status")
               /\ Script[Base + 9] = Place("full", "parts")
    <2>1. \A k \in 1 .. 5 : Script[Base + 4 + k] = FullSteps[k]
      BY <1>4, <1>5, <1>8
    <2>2. /\ Script[Base + 5] = FullSteps[1]
          /\ Script[Base + 6] = FullSteps[2]
          /\ Script[Base + 7] = FullSteps[3]
          /\ Script[Base + 8] = FullSteps[4]
          /\ Script[Base + 9] = FullSteps[5]
      BY <1>1, <2>1
    <2> QED
      BY <2>2, FullPath
  <1>9. ASSUME path = "parts"
        PROVE  /\ Script[Base + 5] = Place("parts", "on")
               /\ Script[Base + 6] = Place("parts", "save")
               /\ Script[Base + 7] = Place("parts", "query")
               /\ Script[Base + 8] = Place("parts", "parts")
               /\ Script[Base + 9] = Place("parts", "off")
               /\ Script[Base + 10] = Place("uboot", "type")
               /\ Script[Base + 11] = Place("uboot", "query")
               /\ Script[Base + 12] = Place("uboot", "save")
               /\ Script[Base + 13] = Place("uboot", "down")
               /\ Script[Base + 14] = Place("uboot", "status")
               /\ Script[Base + 15] = Place("boot0", "query")
               /\ Script[Base + 16] = Place("boot0", "query")
               /\ Script[Base + 17] = Place("boot0", "save")
               /\ Script[Base + 18] = Place("boot0", "down")
               /\ Script[Base + 19] = Place("boot0", "status")
               /\ Script[Base + 20] = Place("mode", "mode")
    <2>1. \A k \in 1 .. 16 : Script[Base + 4 + k] = PartSteps[k]
      BY <1>4, <1>5, <1>9
    <2>2. /\ Script[Base + 5] = PartSteps[1]
          /\ Script[Base + 6] = PartSteps[2]
          /\ Script[Base + 7] = PartSteps[3]
          /\ Script[Base + 8] = PartSteps[4]
          /\ Script[Base + 9] = PartSteps[5]
          /\ Script[Base + 10] = PartSteps[6]
          /\ Script[Base + 11] = PartSteps[7]
          /\ Script[Base + 12] = PartSteps[8]
          /\ Script[Base + 13] = PartSteps[9]
          /\ Script[Base + 14] = PartSteps[10]
          /\ Script[Base + 15] = PartSteps[11]
          /\ Script[Base + 16] = PartSteps[12]
          /\ Script[Base + 17] = PartSteps[13]
          /\ Script[Base + 18] = PartSteps[14]
          /\ Script[Base + 19] = PartSteps[15]
          /\ Script[Base + 20] = PartSteps[16]
      BY <1>1, <2>1
    <2> QED
      BY <2>2, PartPath
  <1> QED
    BY <1>1, <1>2, <1>6, <1>7, <1>8, <1>9

\* The job and the operation of each of them.
LEMMA Said ==
    ASSUME session.mode \in {"product", "update"}, path \in {"parts", "full"}
    PROVE  /\ Script[Base + 1].job = "mbr" /\ Script[Base + 1].op = "save"
           /\ Script[Base + 2].job = "mbr" /\ Script[Base + 2].op = "down"
           /\ Script[Base + 3].job = "mbr" /\ Script[Base + 3].op = "status"
           /\ Script[Base + 4].job = "storage" /\ Script[Base + 4].op = "type"
           /\ Base = 3 => /\ Script[1].job = "erase" /\ Script[1].op = "flag"
                           /\ Script[2].job = "erase" /\ Script[2].op = "down"
                           /\ Script[3].job = "erase" /\ Script[3].op = "status"
           /\ path = "full" => /\ Script[Base + 5].job = "full" /\ Script[Base + 5].op = "query"
                                /\ Script[Base + 6].job = "full" /\ Script[Base + 6].op = "flag"
                                /\ Script[Base + 7].job = "full" /\ Script[Base + 7].op = "down"
                                /\ Script[Base + 8].job = "full"
                                /\ Script[Base + 8].op = "status"
                                /\ Script[Base + 9].job = "full"
                                /\ Script[Base + 9].op = "parts"
           /\ path = "parts" => /\ Script[Base + 5].job = "parts" /\ Script[Base + 5].op = "on"
                                 /\ Script[Base + 6].job = "parts"
                                 /\ Script[Base + 6].op = "save"
                                 /\ Script[Base + 7].job = "parts"
                                 /\ Script[Base + 7].op = "query"
                                 /\ Script[Base + 8].job = "parts"
                                 /\ Script[Base + 8].op = "parts"
                                 /\ Script[Base + 9].job = "parts"
                                 /\ Script[Base + 9].op = "off"
                                 /\ Script[Base + 10].job = "uboot"
                                 /\ Script[Base + 10].op = "type"
                                 /\ Script[Base + 11].job = "uboot"
                                 /\ Script[Base + 11].op = "query"
                                 /\ Script[Base + 12].job = "uboot"
                                 /\ Script[Base + 12].op = "save"
                                 /\ Script[Base + 13].job = "uboot"
                                 /\ Script[Base + 13].op = "down"
                                 /\ Script[Base + 14].job = "uboot"
                                 /\ Script[Base + 14].op = "status"
                                 /\ Script[Base + 15].job = "boot0"
                                 /\ Script[Base + 15].op = "query"
                                 /\ Script[Base + 16].job = "boot0"
                                 /\ Script[Base + 16].op = "query"
                                 /\ Script[Base + 17].job = "boot0"
                                 /\ Script[Base + 17].op = "save"
                                 /\ Script[Base + 18].job = "boot0"
                                 /\ Script[Base + 18].op = "down"
                                 /\ Script[Base + 19].job = "boot0"
                                 /\ Script[Base + 19].op = "status"
                                 /\ Script[Base + 20].job = "mode"
                                 /\ Script[Base + 20].op = "mode"
  <1>1. \A j, o : Place(j, o).job = j /\ Place(j, o).op = o
    BY DEF Place
  <1>2. /\ Script[Base + 1].job = "mbr" /\ Script[Base + 1].op = "save"
        /\ Script[Base + 2].job = "mbr" /\ Script[Base + 2].op = "down"
        /\ Script[Base + 3].job = "mbr" /\ Script[Base + 3].op = "status"
        /\ Script[Base + 4].job = "storage" /\ Script[Base + 4].op = "type"
    <2>1. /\ Script[Base + 1] = Place("mbr", "save") /\ Script[Base + 2] = Place("mbr", "down")
          /\ Script[Base + 3] = Place("mbr", "status")
          /\ Script[Base + 4] = Place("storage", "type")
      BY ScriptSteps
    <2> QED
      BY <1>1, <2>1
  <1>3. ASSUME Base = 3
        PROVE  /\ Script[1].job = "erase" /\ Script[1].op = "flag"
               /\ Script[2].job = "erase" /\ Script[2].op = "down"
               /\ Script[3].job = "erase" /\ Script[3].op = "status"
    BY <1>1, <1>3, ScriptSteps
  <1>4. ASSUME path = "full"
        PROVE  /\ Script[Base + 5].job = "full" /\ Script[Base + 5].op = "query"
               /\ Script[Base + 6].job = "full" /\ Script[Base + 6].op = "flag"
               /\ Script[Base + 7].job = "full" /\ Script[Base + 7].op = "down"
               /\ Script[Base + 8].job = "full" /\ Script[Base + 8].op = "status"
               /\ Script[Base + 9].job = "full" /\ Script[Base + 9].op = "parts"
    BY <1>1, <1>4, ScriptSteps
  <1>5. ASSUME path = "parts"
        PROVE  /\ Script[Base + 5].job = "parts" /\ Script[Base + 5].op = "on"
               /\ Script[Base + 6].job = "parts" /\ Script[Base + 6].op = "save"
               /\ Script[Base + 7].job = "parts" /\ Script[Base + 7].op = "query"
               /\ Script[Base + 8].job = "parts" /\ Script[Base + 8].op = "parts"
               /\ Script[Base + 9].job = "parts" /\ Script[Base + 9].op = "off"
               /\ Script[Base + 10].job = "uboot" /\ Script[Base + 10].op = "type"
               /\ Script[Base + 11].job = "uboot" /\ Script[Base + 11].op = "query"
               /\ Script[Base + 12].job = "uboot" /\ Script[Base + 12].op = "save"
               /\ Script[Base + 13].job = "uboot" /\ Script[Base + 13].op = "down"
               /\ Script[Base + 14].job = "uboot" /\ Script[Base + 14].op = "status"
               /\ Script[Base + 15].job = "boot0" /\ Script[Base + 15].op = "query"
               /\ Script[Base + 16].job = "boot0" /\ Script[Base + 16].op = "query"
               /\ Script[Base + 17].job = "boot0" /\ Script[Base + 17].op = "save"
               /\ Script[Base + 18].job = "boot0" /\ Script[Base + 18].op = "down"
               /\ Script[Base + 19].job = "boot0" /\ Script[Base + 19].op = "status"
               /\ Script[Base + 20].job = "mode" /\ Script[Base + 20].op = "mode"
    <2>1. /\ Script[Base + 5] = Place("parts", "on") /\ Script[Base + 6] = Place("parts", "save")
          /\ Script[Base + 7] = Place("parts", "query")
          /\ Script[Base + 8] = Place("parts", "parts")
          /\ Script[Base + 9] = Place("parts", "off")
          /\ Script[Base + 10] = Place("uboot", "type")
          /\ Script[Base + 11] = Place("uboot", "query")
          /\ Script[Base + 12] = Place("uboot", "save")
          /\ Script[Base + 13] = Place("uboot", "down")
          /\ Script[Base + 14] = Place("uboot", "status")
          /\ Script[Base + 15] = Place("boot0", "query")
          /\ Script[Base + 16] = Place("boot0", "query")
          /\ Script[Base + 17] = Place("boot0", "save")
          /\ Script[Base + 18] = Place("boot0", "down")
          /\ Script[Base + 19] = Place("boot0", "status")
          /\ Script[Base + 20] = Place("mode", "mode")
      BY <1>5, ScriptSteps
    <2>2. /\ Script[Base + 5].job = "parts" /\ Script[Base + 5].op = "on"
          /\ Script[Base + 6].job = "parts" /\ Script[Base + 6].op = "save"
          /\ Script[Base + 7].job = "parts" /\ Script[Base + 7].op = "query"
          /\ Script[Base + 8].job = "parts" /\ Script[Base + 8].op = "parts"
          /\ Script[Base + 9].job = "parts" /\ Script[Base + 9].op = "off"
          /\ Script[Base + 10].job = "uboot" /\ Script[Base + 10].op = "type"
          /\ Script[Base + 11].job = "uboot" /\ Script[Base + 11].op = "query"
          /\ Script[Base + 12].job = "uboot" /\ Script[Base + 12].op = "save"
      BY <1>1, <2>1
    <2>3. /\ Script[Base + 13].job = "uboot" /\ Script[Base + 13].op = "down"
          /\ Script[Base + 14].job = "uboot" /\ Script[Base + 14].op = "status"
          /\ Script[Base + 15].job = "boot0" /\ Script[Base + 15].op = "query"
          /\ Script[Base + 16].job = "boot0" /\ Script[Base + 16].op = "query"
          /\ Script[Base + 17].job = "boot0" /\ Script[Base + 17].op = "save"
          /\ Script[Base + 18].job = "boot0" /\ Script[Base + 18].op = "down"
          /\ Script[Base + 19].job = "boot0" /\ Script[Base + 19].op = "status"
          /\ Script[Base + 20].job = "mode" /\ Script[Base + 20].op = "mode"
      BY <1>1, <2>1
    <2> QED
      BY <2>2, <2>3
  <1> QED
    BY <1>2, <1>3, <1>4, <1>5

\* What it does at each place.
LEMMA WhatItDoes ==
    ASSUME session.mode \in {"product", "update"}, path \in {"parts", "full"},
           at \in 1 .. Len(Script)
    PROVE  /\ Pos \in -2 .. 20 /\ at = Base + Pos /\ Base \in {0, 3}
           /\ path = "full" => Pos <= 9
           /\ Pos = -2 => Job = "erase" /\ Op = "flag"
           /\ Pos = -1 => Job = "erase" /\ Op = "down"
           /\ Pos = 0 => Job = "erase" /\ Op = "status"
           /\ Pos = 1 => Job = "mbr" /\ Op = "save"
           /\ Pos = 2 => Job = "mbr" /\ Op = "down"
           /\ Pos = 3 => Job = "mbr" /\ Op = "status"
           /\ Pos = 4 => Job = "storage" /\ Op = "type"
           /\ path = "full" =>
                 /\ Pos = 5 => Job = "full" /\ Op = "query"
                 /\ Pos = 6 => Job = "full" /\ Op = "flag"
                 /\ Pos = 7 => Job = "full" /\ Op = "down"
                 /\ Pos = 8 => Job = "full" /\ Op = "status"
                 /\ Pos = 9 => Job = "full" /\ Op = "parts"
           /\ path = "parts" =>
                 /\ Pos = 5 => Job = "parts" /\ Op = "on"
                 /\ Pos = 6 => Job = "parts" /\ Op = "save"
                 /\ Pos = 7 => Job = "parts" /\ Op = "query"
                 /\ Pos = 8 => Job = "parts" /\ Op = "parts"
                 /\ Pos = 9 => Job = "parts" /\ Op = "off"
                 /\ Pos = 10 => Job = "uboot" /\ Op = "type"
                 /\ Pos = 11 => Job = "uboot" /\ Op = "query"
                 /\ Pos = 12 => Job = "uboot" /\ Op = "save"
                 /\ Pos = 13 => Job = "uboot" /\ Op = "down"
                 /\ Pos = 14 => Job = "uboot" /\ Op = "status"
                 /\ Pos = 15 => Job = "boot0" /\ Op = "query"
                 /\ Pos = 16 => Job = "boot0" /\ Op = "query"
                 /\ Pos = 17 => Job = "boot0" /\ Op = "save"
                 /\ Pos = 18 => Job = "boot0" /\ Op = "down"
                 /\ Pos = 19 => Job = "boot0" /\ Op = "status"
                 /\ Pos = 20 => Job = "mode" /\ Op = "mode"
  <1>0. Base \in {0, 3} /\ Len(Script) = Base + (IF path = "full" THEN 9 ELSE 20)
    BY ScriptSteps
  <1>1. /\ Pos \in -2 .. 20 /\ at = Base + Pos /\ at \in Nat \ {0}
        /\ path = "full" => Pos <= 9
    BY <1>0 DEF Pos
  <1>2. (Base = 0 => Pos >= 1) /\ (Base = 3 => at = Pos + 3)
    BY <1>0, <1>1
  <1>3. \A j, o : Script[at] = Place(j, o) => Job = j /\ Op = o
    BY DEF Place, Job, Op
  <1>4. /\ Pos = -2 => Job = "erase" /\ Op = "flag"
        /\ Pos = -1 => Job = "erase" /\ Op = "down"
        /\ Pos = 0 => Job = "erase" /\ Op = "status"
    <2>1. Pos \in -2 .. 0 => Base = 3 /\ at \in 1 .. 3 /\ at = Pos + 3
      BY <1>0, <1>1, <1>2
    <2>2. Base = 3 => /\ Script[1] = Place("erase", "flag") /\ Script[2] = Place("erase", "down")
                    /\ Script[3] = Place("erase", "status")
      BY ScriptSteps
    <2>3. (Pos = -2 => at = 1) /\ (Pos = -1 => at = 2) /\ (Pos = 0 => at = 3)
      BY <2>1
    <2> QED
      BY <1>3, <2>1, <2>2, <2>3
  <1>5. /\ Pos = 1 => Job = "mbr" /\ Op = "save"
        /\ Pos = 2 => Job = "mbr" /\ Op = "down"
        /\ Pos = 3 => Job = "mbr" /\ Op = "status"
        /\ Pos = 4 => Job = "storage" /\ Op = "type"
    <2>1. /\ Script[Base + 1] = Place("mbr", "save") /\ Script[Base + 2] = Place("mbr", "down")
          /\ Script[Base + 3] = Place("mbr", "status")
          /\ Script[Base + 4] = Place("storage", "type")
      BY ScriptSteps
    <2>2. \A k \in 1 .. 4 : Pos = k => at = Base + k
      BY <1>1
    <2> QED
      BY <1>3, <2>1, <2>2
  <1>6. ASSUME path = "full"
        PROVE  /\ Pos = 5 => Job = "full" /\ Op = "query"
               /\ Pos = 6 => Job = "full" /\ Op = "flag"
               /\ Pos = 7 => Job = "full" /\ Op = "down"
               /\ Pos = 8 => Job = "full" /\ Op = "status"
               /\ Pos = 9 => Job = "full" /\ Op = "parts"
    <2>1. /\ Script[Base + 5] = Place("full", "query") /\ Script[Base + 6] = Place("full", "flag")
          /\ Script[Base + 7] = Place("full", "down")
          /\ Script[Base + 8] = Place("full", "status")
          /\ Script[Base + 9] = Place("full", "parts")
      BY <1>6, ScriptSteps
    <2>2. \A k \in 5 .. 9 : Pos = k => at = Base + k
      BY <1>1
    <2> QED
      BY <1>3, <2>1, <2>2
  <1>7. ASSUME path = "parts"
        PROVE  /\ Pos = 5 => Job = "parts" /\ Op = "on"
               /\ Pos = 6 => Job = "parts" /\ Op = "save"
               /\ Pos = 7 => Job = "parts" /\ Op = "query"
               /\ Pos = 8 => Job = "parts" /\ Op = "parts"
               /\ Pos = 9 => Job = "parts" /\ Op = "off"
               /\ Pos = 10 => Job = "uboot" /\ Op = "type"
               /\ Pos = 11 => Job = "uboot" /\ Op = "query"
               /\ Pos = 12 => Job = "uboot" /\ Op = "save"
               /\ Pos = 13 => Job = "uboot" /\ Op = "down"
               /\ Pos = 14 => Job = "uboot" /\ Op = "status"
               /\ Pos = 15 => Job = "boot0" /\ Op = "query"
               /\ Pos = 16 => Job = "boot0" /\ Op = "query"
               /\ Pos = 17 => Job = "boot0" /\ Op = "save"
               /\ Pos = 18 => Job = "boot0" /\ Op = "down"
               /\ Pos = 19 => Job = "boot0" /\ Op = "status"
               /\ Pos = 20 => Job = "mode" /\ Op = "mode"
    <2>1. /\ Script[Base + 5] = Place("parts", "on") /\ Script[Base + 6] = Place("parts", "save")
          /\ Script[Base + 7] = Place("parts", "query")
          /\ Script[Base + 8] = Place("parts", "parts")
          /\ Script[Base + 9] = Place("parts", "off")
          /\ Script[Base + 10] = Place("uboot", "type")
          /\ Script[Base + 11] = Place("uboot", "query")
          /\ Script[Base + 12] = Place("uboot", "save")
          /\ Script[Base + 13] = Place("uboot", "down")
          /\ Script[Base + 14] = Place("uboot", "status")
          /\ Script[Base + 15] = Place("boot0", "query")
          /\ Script[Base + 16] = Place("boot0", "query")
          /\ Script[Base + 17] = Place("boot0", "save")
          /\ Script[Base + 18] = Place("boot0", "down")
          /\ Script[Base + 19] = Place("boot0", "status")
          /\ Script[Base + 20] = Place("mode", "mode")
      BY <1>7, ScriptSteps
    <2>2. \A k \in 5 .. 20 : Pos = k => at = Base + k
      BY <1>1
    <2>3. /\ (Pos = 5 => Script[at] = Script[Base + 5])
          /\ (Pos = 6 => Script[at] = Script[Base + 6])
          /\ (Pos = 7 => Script[at] = Script[Base + 7])
          /\ (Pos = 8 => Script[at] = Script[Base + 8])
          /\ (Pos = 9 => Script[at] = Script[Base + 9])
          /\ (Pos = 10 => Script[at] = Script[Base + 10])
          /\ (Pos = 11 => Script[at] = Script[Base + 11])
          /\ (Pos = 12 => Script[at] = Script[Base + 12])
          /\ (Pos = 13 => Script[at] = Script[Base + 13])
          /\ (Pos = 14 => Script[at] = Script[Base + 14])
          /\ (Pos = 15 => Script[at] = Script[Base + 15])
          /\ (Pos = 16 => Script[at] = Script[Base + 16])
          /\ (Pos = 17 => Script[at] = Script[Base + 17])
          /\ (Pos = 18 => Script[at] = Script[Base + 18])
          /\ (Pos = 19 => Script[at] = Script[Base + 19])
          /\ (Pos = 20 => Script[at] = Script[Base + 20])
      BY <1>0, <1>1
    <2> QED
      BY <1>3, <2>1, <2>3
  <1> QED
    BY <1>0, <1>1, <1>4, <1>5, <1>6, <1>7

\* Where it is when it does something.
LEMMA WhereItIs ==
    ASSUME session.mode \in {"product", "update"}, path \in {"parts", "full"},
           at \in 1 .. Len(Script)
    PROVE  /\ Op = "flag" => \/ Job = "erase" /\ Pos = -2
                             \/ Job = "full" /\ Pos = 6 /\ path = "full"
           /\ Op = "down" => \/ Job = "erase" /\ Pos = -1
                             \/ Job = "mbr" /\ Pos = 2
                             \/ Job = "full" /\ Pos = 7 /\ path = "full"
                             \/ Job = "uboot" /\ Pos = 13 /\ path = "parts"
                             \/ Job = "boot0" /\ Pos = 18 /\ path = "parts"
           /\ Op = "status" => \/ Job = "erase" /\ Pos = 0
                               \/ Job = "mbr" /\ Pos = 3
                               \/ Job = "full" /\ Pos = 8 /\ path = "full"
                               \/ Job = "uboot" /\ Pos = 14 /\ path = "parts"
                               \/ Job = "boot0" /\ Pos = 19 /\ path = "parts"
           /\ Op = "save" => \/ Job = "mbr" /\ Pos = 1
                             \/ Job = "parts" /\ Pos = 6 /\ path = "parts"
                             \/ Job = "uboot" /\ Pos = 12 /\ path = "parts"
                             \/ Job = "boot0" /\ Pos = 17 /\ path = "parts"
           /\ Op = "type" => \/ Job = "storage" /\ Pos = 4
                             \/ Job = "uboot" /\ Pos = 10 /\ path = "parts"
           /\ Op = "query" => \/ Job = "full" /\ Pos = 5 /\ path = "full"
                              \/ Job = "parts" /\ Pos = 7 /\ path = "parts"
                              \/ Job = "uboot" /\ Pos = 11 /\ path = "parts"
                              \/ Job = "boot0" /\ Pos = 15 /\ path = "parts"
                              \/ Job = "boot0" /\ Pos = 16 /\ path = "parts"
           /\ Op = "parts" => \/ Job = "full" /\ Pos = 9 /\ path = "full"
                              \/ Job = "parts" /\ Pos = 8 /\ path = "parts"
           /\ Op = "on" => Job = "parts" /\ Pos = 5 /\ path = "parts"
           /\ Op = "off" => Job = "parts" /\ Pos = 9 /\ path = "parts"
           /\ Op = "mode" => Job = "mode" /\ Pos = 20 /\ path = "parts"
  <1>1. Pos \in -2 .. 20 /\ (path = "full" => Pos \in -2 .. 9)
    BY WhatItDoes
  <1>2. CASE Pos \in -2 .. 4
    BY <1>2, WhatItDoes
  <1>3. CASE Pos \in 5 .. 9 /\ path = "full"
    BY <1>3, WhatItDoes
  <1>4. CASE Pos \in 5 .. 20 /\ path = "parts"
    BY <1>4, WhatItDoes
  <1> QED
    BY <1>1, <1>2, <1>3, <1>4

\* The length of the script, in this state and the next one.
LEMMA ScriptLen ==
    \A m \in {"product", "update"}, p \in {"parts", "full"} :
        LET s == Start(m) \o IF p = "full" THEN FullSteps ELSE PartSteps
        IN  Len(s) \in Nat /\ 9 <= Len(s)
  <1> TAKE m \in {"product", "update"}, p \in {"parts", "full"}
  <1> DEFINE b == IF m = "update" THEN 3 ELSE 0
             n == IF p = "full" THEN 5 ELSE 16
             t == IF p = "full" THEN FullSteps ELSE PartSteps
  <1>1. b \in {0, 3} /\ (b = 3 <=> m = "update") /\ n \in {5, 16}
    OBVIOUS
  <1>2. IsList(t, n)
    BY FullPath, PartPath
  <1>3. IsList(Start(m), b + 4)
    BY <1>1, StartSteps
  <1> HIDE DEF b, n, t
  <1>4. IsList(Join(Start(m), t), b + 4 + n)
    BY <1>1, <1>2, <1>3, Joined
  <1>5. Len(Join(Start(m), t)) \in Nat /\ 9 <= Len(Join(Start(m), t))
    BY <1>1, <1>4 DEF IsList
  <1> QED
    BY <1>5 DEF Join, t

------------------------------------------------------------------------------
(* The inductive invariant *)

\* What TypeOK leaves open: contents, and what the device stored.
Types ==
    /\ buf.item \in Jobs \cup {"none", "answer", "part", "sum"}
    /\ got = [j \in Jobs |-> got[j]]
    /\ flash \in [DOMAIN Parts -> [n : Nat, good : BOOLEAN]]
    /\ Running => tries < MaxTries
    /\ Running => session.image = "open"
    /\ session.image # "none" \/ attempts # 0 => session.mapped

\* What is sent next is the item of its tag, because it was read or set just now.
Tagged == Running /\ Op = "down" => buf.item = Job

\* The items verified so far; boot0 is not there yet.
Verified ==
    /\ Running /\ Pos >= 4 => "mbr" \in verified \cap good
    /\ Running /\ path = "parts" /\ Pos >= 15 => "uboot" \in verified \cap good
    /\ Running /\ path = "parts" /\ Pos >= 20 => "boot0" \in verified \cap good
    /\ Running /\ (path = "full" \/ Pos <= 18) => got["boot0"] = Nothing

\* The flash is switched on before the partitions and off after them.
Switched ==
    Running /\ path = "parts" => (flashOn <=> Pos \in 6 .. 9)

\* A partition holds what its verify file, if it has one, is the sum of.
Programmed(p) == Parts[p].verify /\ ~Parts[p].skipped =>
                     flash[p] = [n |-> Parts[p].bufs, good |-> TRUE]
Burnt(p) == Complete(p) /\ Programmed(p)

\* The loop over the partitions, and over the buffers of one.
Looping ==
    /\ Running /\ Op # "parts" => stage = "open"
    /\ Running /\ stage = "open" => turn = 0
    /\ Running /\ Pos <= 7 => part = 1
    /\ Running /\ stage = "down" => turn < Todo[part].bufs /\ ~Todo[part].skipped
    /\ Running /\ stage \in {"sum", "check"} => Todo[part].verify

\* The partitions before the one under way are burnt, those after it are untouched.
Burning ==
    Running /\ path = "parts" =>
        /\ Pos <= 7 => \A p \in DOMAIN Parts : flash[p] = Blank
        /\ Pos = 8 => \A p \in DOMAIN Parts :
                          /\ p < part => Burnt(p)
                          /\ p > part \/ (p = part /\ stage = "open") => flash[p] = Blank
                          /\ p = part /\ stage = "down" => flash[p].n = turn
                          /\ p = part /\ stage \in {"sum", "check"} => Complete(p)
        /\ Pos >= 9 => \A p \in DOMAIN Parts : Burnt(p)

IInv == TypeOK /\ Types /\ Tagged /\ TagGetsItsItem /\ Verified /\ Switched /\ Looping
          /\ Burning /\ VerifiedIsGood /\ BootLast

\* TypeOK without what is a truth value.
Ranges ==
    /\ session = [mapped |-> session.mapped, image |-> session.image, mode |-> session.mode]
    /\ session.image \in {"none", "open", "closed"} /\ session.mode \in {"product", "update"}
    /\ path \in {"parts", "full"} /\ at \in 0 .. Len(Script)
    /\ outcome \in {"none", "true", "false", "nil", "error"}
    /\ at # 0 => outcome = "none"
    /\ prompt \in {0, 921, 1024, 1025, 1026, 1027}
    /\ held \subseteq {"dev", "buf", "item", "map", "type"}
    /\ part \in 1 .. Len(Todo) /\ stage \in {"open", "down", "sum", "check"}
    /\ turn \in 0 .. Todo[part].bufs /\ tries \in 0 .. MaxTries
    /\ attempts \in 0 .. MaxAttempts
    /\ DOMAIN got = Jobs /\ good \subseteq Jobs
    /\ \A p \in DOMAIN Parts : flash[p].n \in 0 .. Parts[p].bufs

Flags ==
    /\ session.mapped \in BOOLEAN
    /\ busy \in BOOLEAN /\ flashOn \in BOOLEAN /\ nor \in BOOLEAN

\* TypeOK says both: numbers and names are proved apart from truth values.
LEMMA TypeOKParts == TypeOK <=> Ranges /\ Flags
  <1>1. session \in [mapped : BOOLEAN, image : {"none", "open", "closed"},
                     mode : {"product", "update"}]
        <=> /\ session = [mapped |-> session.mapped, image |-> session.image,
                          mode |-> session.mode]
            /\ session.image \in {"none", "open", "closed"}
            /\ session.mode \in {"product", "update"} /\ session.mapped \in BOOLEAN
    OBVIOUS
  <1> QED
    BY <1>1 DEF TypeOK, Ranges, Flags

\* What is to be programmed.
LEMMA Work ==
    /\ Len(Parts) \in Nat \ {0} /\ DOMAIN Parts = 1 .. Len(Parts)
    /\ \A p \in DOMAIN Parts : Parts[p].bufs \in Nat \ {0}
    /\ path = "parts" => Todo = Parts
    /\ path = "full" => /\ Len(Todo) = 1 /\ Todo[1].bufs \in Nat \ {0}
                        /\ ~Todo[1].verify /\ ~Todo[1].skipped
    /\ path \in {"parts", "full"} =>
          Len(Todo) \in Nat \ {0} /\ \A p \in 1 .. Len(Todo) : Todo[p].bufs \in Nat \ {0}
  <1>1. Parts \in Seq(Part) /\ Parts # <<>> /\ FullBufs \in Nat \ {0}
    BY BurnAssumption
  <1>2. Len(Parts) \in Nat \ {0} /\ DOMAIN Parts = 1 .. Len(Parts)
    BY <1>1
  <1>3. \A p \in DOMAIN Parts : Parts[p].bufs \in Nat \ {0}
    <2>1. \A p \in DOMAIN Parts : Parts[p] \in Part
      BY <1>1
    <2> QED
      BY <2>1 DEF Part
  <1>4. path = "parts" => Todo = Parts
    BY DEF Todo
  <1>5. path = "full" => /\ Len(Todo) = 1 /\ Todo[1].bufs \in Nat \ {0}
                         /\ ~Todo[1].verify /\ ~Todo[1].skipped
    BY <1>1 DEF Todo
  <1> QED
    BY <1>2, <1>3, <1>4, <1>5

\* How a step of the host ends: the next step, the end of the script, or a failure.
LEMMA Ends ==
    ASSUME Ranges, Running, NEW left, Advance(left) \/ Fail(left) \/ Raise(left),
           UNCHANGED path
    PROVE  \/ /\ at < Len(Script) /\ at' = at + 1 /\ session' = session
              /\ outcome' = "none" /\ prompt' = prompt
           \/ at = Len(Script) /\ at' = 0 /\ outcome' = "true" /\ prompt' = prompt
           \/ at' = 0 /\ outcome' \in {"false", "error"}
  <1>1. Len(Script) \in Nat /\ at \in 1 .. Len(Script) /\ outcome = "none"
    BY ScriptLen DEF Ranges, Script, Running
  <1> QED
    BY <1>1 DEF Advance, Fail, Raise

Stays(left) == UNCHANGED <<session, at, outcome, prompt>> /\ held' = held \cup left
Leaves == {"item", "map", "type"}

\* Whatever the host does, it goes on, fails, raises or stays where it is; or it takes the
\* path of the full image.
LEMMA Ways ==
    ASSUME Burn
    PROVE  /\ Running /\ UNCHANGED attempts
           /\ \/ \E left \in SUBSET Leaves :
                    /\ Advance(left) \/ Fail(left) \/ Raise(left) \/ Stays(left)
                    /\ UNCHANGED path
              \/ /\ QueryStorage /\ Job = "storage" /\ path' = "full" /\ at' = at + 1
                 /\ held' = held \cup {"item"} /\ UNCHANGED <<session, outcome, prompt>>
  <1> DEFINE Way == \E left \in SUBSET Leaves :
                       Advance(left) \/ Fail(left) \/ Raise(left) \/ Stays(left)
             GoesFull == /\ Job = "storage" /\ path' = "full" /\ at' = at + 1
                         /\ held' = held \cup {"item"} /\ UNCHANGED <<session, outcome, prompt>>
  <1>1. ASSUME NEW left \in SUBSET Leaves,
               Advance(left) \/ Fail(left) \/ Raise(left) \/ Stays(left)
        PROVE  Way
    BY <1>1
  <1>2. ASSUME NEW left \in SUBSET Leaves, PartDone(left)
        PROVE  Way
    BY <1>2 DEF PartDone, Stays
  <1>3. UNCHANGED <<session, at, outcome, prompt, held>> => Stays({})
    BY DEF Stays
  <1>4. /\ {} \in SUBSET Leaves /\ {"item"} \in SUBSET Leaves /\ {"type"} \in SUBSET Leaves
        /\ {"map"} \in SUBSET Leaves /\ {"item", "map"} \in SUBSET Leaves
    BY DEF Leaves
  <1> HIDE DEF Way
  <1>5. SetFlag \/ Query \/ SaveItem \/ SaveMap \/ Down => Way
    BY <1>1, <1>4 DEF SetFlag, Query, SaveItem, SaveMap, Down, Answered, FailParts
  <1>6. SaveRaises => Way
    <2> SUFFICES ASSUME SaveRaises
                 PROVE  Way
      OBVIOUS
    <2>1. PICK left \in {{}, {"item"}} : Raise(left \cup IF Job = "parts" THEN {"map"} ELSE {})
      BY DEF SaveRaises
    <2>2. (left \cup IF Job = "parts" THEN {"map"} ELSE {}) \in SUBSET Leaves
      BY DEF Leaves
    <2> QED
      BY <1>1, <2>1, <2>2
  <1>7. QueryStorage => Way \/ GoesFull
    BY <1>1, <1>4 DEF QueryStorage
  <1>8. Status => Way
    BY <1>1, <1>3, <1>4 DEF Status
  <1>9. SetFlashOn \/ SetFlashOff \/ SetToolMode => Way
    BY <1>1, <1>4 DEF SetFlashOn, SetFlashOff, SetToolMode, Answered
  <1>10. PartOpen => Way
    <2>1. UNCHANGED <<session, at, outcome, prompt>> /\ held' = held \cup {"item"} => Way
      BY <1>1, <1>4 DEF Stays
    <2> QED
      BY <1>1, <1>2, <1>3, <1>4, <2>1 DEF PartOpen, ToStage, FailParts
  <1>11. PartDown => Way
    BY <1>1, <1>2, <1>3, <1>4 DEF PartDown, ToStage, FailParts
  <1>12. PartReadFails \/ PartSum => Way
    BY <1>1, <1>3, <1>4 DEF PartReadFails, PartSum, ToStage, FailParts
  <1>13. PartCheck => Way
    BY <1>1, <1>2, <1>3, <1>4 DEF PartCheck, FailParts
  <1>14. Running /\ UNCHANGED attempts /\ (path' = path \/ QueryStorage)
    BY DEF Burn, Running, Doing, InPart, SetFlag, Query, QueryStorage, SaveItem, SaveMap,
       SaveRaises, Down, Status, SetFlashOn, SetFlashOff, SetToolMode, PartOpen, PartDown,
       PartReadFails, PartSum, PartCheck
  <1>15. QueryStorage => (Way /\ UNCHANGED path) \/ GoesFull
    BY <1>1, <1>4 DEF QueryStorage
  <1>16. (Way /\ UNCHANGED path) \/ (QueryStorage /\ GoesFull)
    BY <1>5, <1>6, <1>8, <1>9, <1>10, <1>11, <1>12, <1>13, <1>14, <1>15 DEF Burn
  <1> QED
    BY <1>14, <1>16 DEF Way

\* Where the host is while it runs.
LEMMA HostIs ==
    ASSUME Ranges, Running
    PROVE  /\ at \in 1 .. Len(Script) /\ Pos \in -2 .. 20 /\ Base \in {0, 3} /\ at = Base + Pos
           /\ path \in {"parts", "full"} /\ session.mode \in {"product", "update"}
           /\ path = "full" => Pos <= 9 /\ Len(Script) = Base + 9
           /\ path = "parts" => Len(Script) = Base + 20
           /\ outcome = "none"
  <1>1. /\ at \in 1 .. Len(Script) /\ outcome = "none"
        /\ path \in {"parts", "full"} /\ session.mode \in {"product", "update"}
    BY DEF Ranges, Running
  <1>2. /\ path = "full" => Len(Script) = Base + 9
        /\ path = "parts" => Len(Script) = Base + 20
    BY <1>1, ScriptSteps
  <1> QED
    BY <1>1, <1>2, WhatItDoes

\* The places of the host before and after a step.
LEMMA Moves ==
    ASSUME IInv, [Next]_vars
    PROVE  \/ ~Running /\ at' = 0
           \/ Enter /\ at' = 1
           \/ Running /\ at' = 0 /\ (outcome' = "true" => path' = path /\ at = Len(Script))
           \/ Running /\ at' = at /\ UNCHANGED <<session, path, outcome>>
           \/ /\ Running /\ at' = at + 1 /\ at < Len(Script)
              /\ UNCHANGED <<session, path, outcome>>
           \/ /\ Running /\ at' = at + 1 /\ Pos = 4 /\ QueryStorage /\ path' = "full"
              /\ UNCHANGED <<session, outcome, prompt>>
  <1>0. Ranges
    BY TypeOKParts DEF IInv
  <1>1. CASE ~Running
    <2>1. ~Burn
      BY <1>1, Ways
    <2> QED
      BY <1>1, <2>1 DEF Next, Running, InitTools, InitAgain, Enter, EnterAfterExit, DeviceReady,
         vars, host
  <1>2. CASE Running
    <2>1. outcome = "none" /\ at # 0 /\ at \in 1 .. Len(Script)
      BY <1>0, <1>2, HostIs DEF Running
    <2>2. CASE Burn
      <3>1. CASE \E left \in SUBSET Leaves :
                    /\ Advance(left) \/ Fail(left) \/ Raise(left) \/ Stays(left)
                    /\ UNCHANGED path
        <4>1. PICK left : /\ Advance(left) \/ Fail(left) \/ Raise(left) \/ Stays(left)
                          /\ UNCHANGED path
          BY <3>1
        <4>2. CASE Stays(left)
          BY <1>2, <4>1, <4>2 DEF Stays
        <4> QED
          BY <1>0, <1>2, <2>1, <4>1, <4>2, Ends
      <3>2. CASE /\ QueryStorage /\ Job = "storage" /\ path' = "full" /\ at' = at + 1
                 /\ UNCHANGED <<session, outcome, prompt>>
        <4>1. Op = "type"
          BY <3>2 DEF QueryStorage, Doing, Op
        <4>2. Pos = 4
          BY <1>0, <1>2, <3>2, <4>1, HostIs, WhereItIs
        <4> QED
          BY <1>2, <3>2, <4>2
      <3> QED
        BY <2>2, <3>1, <3>2, Ways
    <2>3. CASE DeviceReady \/ UNCHANGED vars
      BY <1>2, <2>3 DEF DeviceReady, vars, host
    <2>4. ~InitTools /\ ~InitAgain /\ ~Enter /\ ~EnterAfterExit
      BY <2>1 DEF InitTools, InitAgain, Enter, EnterAfterExit
    <2> QED
      BY <2>2, <2>3, <2>4 DEF Next
  <1> QED
    BY <1>1, <1>2

\* The next place is the same one or the one after it.
LEMMA NextPlace ==
    ASSUME IInv, [Next]_vars, Running'
    PROVE  \/ /\ Running /\ at' = at /\ Pos' = Pos /\ Base' = Base /\ Op' = Op /\ Job' = Job
              /\ UNCHANGED <<session, path, outcome>>
           \/ /\ Running /\ at' = at + 1 /\ Pos' = Pos + 1 /\ Base' = Base
              /\ path' \in {path, "full"}
              /\ path' = path \/ (Pos = 4 /\ Op = "type")
              /\ UNCHANGED <<session, outcome>> /\ (path' = path => Script' = Script)
           \/ Enter /\ at' = 1 /\ Pos' \in {1, -2} /\ path' = "parts"
  <1>0. Ranges
    BY TypeOKParts DEF IInv
  <1>1. CASE Running /\ at' = at /\ UNCHANGED <<session, path, outcome>>
    BY <1>1 DEF Pos, Base, Op, Job, Script
  <1>2. CASE /\ Running /\ at' = at + 1 /\ at < Len(Script)
             /\ UNCHANGED <<session, path, outcome>>
    <2>1. Base' = Base /\ Script' = Script
      BY <1>2 DEF Base, Script
    <2> QED
      BY <1>0, <1>2, <2>1, HostIs DEF Pos
  <1>3. CASE /\ Running /\ at' = at + 1 /\ Pos = 4 /\ QueryStorage /\ path' = "full"
             /\ UNCHANGED <<session, outcome, prompt>>
    <2>1. Base' = Base /\ Op = "type"
      BY <1>3 DEF Base, QueryStorage, Doing, Op
    <2>2. path' = path => Script' = Script
      BY <1>3 DEF Script
    <2> QED
      BY <1>0, <1>3, <2>1, <2>2, HostIs DEF Pos
  <1>4. CASE Enter /\ at' = 1
    BY <1>4 DEF Enter, Pos, Base
  <1> QED
    BY <1>1, <1>2, <1>3, <1>4, Moves DEF Running

------------------------------------------------------------------------------
(* Every step keeps the types *)

\* The session keeps its type; a burn runs while its image is open.
LEMMA SessionKeeps ==
    ASSUME IInv, [Next]_vars
    PROVE  /\ session' = [mapped |-> session'.mapped, image |-> session'.image,
                          mode |-> session'.mode]
           /\ session'.image \in {"none", "open", "closed"}
           /\ session'.mode \in {"product", "update"}
           /\ Running' => session'.image = "open"
           /\ session'.image # "none" \/ attempts' # 0 => session'.mapped
  <1>0. Ranges /\ Types /\ BurnAssumption
    BY TypeOKParts, BurnAssumption DEF IInv
  <1> DEFINE closed == [session EXCEPT !.image = "closed"]
  <1>1. CASE InitTools
    <2>1. PICK m \in Modes, i \in {"none", "open"} :
              session' = [mapped |-> TRUE, image |-> i, mode |-> m]
      BY <1>1 DEF InitTools
    <2>2. session'.mapped /\ ~Running'
      BY <1>1, <2>1 DEF InitTools, Running
    <2> QED
      BY <1>0, <2>1, <2>2 DEF BurnAssumption
  <1>2. CASE Burn
    <2> DEFINE Kept == session' = session \/ (session' = closed /\ at' = 0)
    <2>10. Kept /\ UNCHANGED attempts /\ Running
      <3>1. ASSUME NEW left, Advance(left) \/ Fail(left) \/ Raise(left) \/ Stays(left)
            PROVE  Kept
        BY <3>1 DEF Advance, Fail, Raise, Stays
      <3> QED
        BY <1>2, <3>1, Ways
    <2>11. session.image = "open" /\ session.mapped
      BY <1>0, <2>10 DEF Types
    <2>12. CASE session' = session
      BY <1>0, <2>11, <2>12 DEF Ranges
    <2>13. CASE session' = closed /\ at' = 0
      BY <1>0, <2>11, <2>13 DEF Ranges, Running
    <2> QED
      BY <2>10, <2>12, <2>13 DEF Kept
  <1>3. CASE UNCHANGED session /\ UNCHANGED <<at, attempts>>
    BY <1>0, <1>3 DEF Ranges, Types, Running
  <1>4. CASE Enter \/ EnterAfterExit
    BY <1>0, <1>4 DEF Ranges, Types, Running, Enter, EnterAfterExit
  <1> QED
    BY <1>1, <1>2, <1>3, <1>4 DEF Next, InitAgain, DeviceReady, vars, host

\* The step, the path and the outcome keep their types.
LEMMA PlaceKeeps ==
    ASSUME IInv, [Next]_vars
    PROVE  /\ path' \in {"parts", "full"} /\ at' \in 0 .. Len(Script')
           /\ outcome' \in {"none", "true", "false", "nil", "error"}
           /\ at' # 0 => outcome' = "none"
  <1>0. Ranges
    BY TypeOKParts DEF IInv
  <1>1. path' \in {"parts", "full"}
    <2>1. CASE Burn
      BY <1>0, <2>1, Ways DEF Ranges
    <2> QED
      BY <1>0, <2>1 DEF Ranges, Next, InitTools, InitAgain, Enter, EnterAfterExit, DeviceReady,
         vars, host
  <1>2. Len(Script') \in Nat /\ 9 <= Len(Script')
    BY <1>1, ScriptLen, SessionKeeps DEF Script
  <1>3. /\ outcome' \in {"none", "true", "false", "nil", "error"}
        /\ at' # 0 => outcome' = "none"
    <2>12. CASE Burn
      <3> DEFINE Kept == /\ outcome' \in {outcome, "true", "false", "error"}
                         /\ at' # 0 => outcome' = outcome
      <3>1. ASSUME NEW left, Advance(left) \/ Fail(left) \/ Raise(left) \/ Stays(left)
            PROVE  Kept
        BY <3>1 DEF Advance, Fail, Raise, Stays
      <3>2. Kept /\ Running
        BY <2>12, <3>1, Ways
      <3> QED
        BY <1>0, <3>2 DEF Ranges, Running
    <2>13. CASE UNCHANGED <<at, outcome>>
      BY <1>0, <2>13 DEF Ranges
    <2>14. CASE InitTools \/ InitAgain \/ Enter \/ EnterAfterExit
      BY <2>14 DEF InitTools, InitAgain, Enter, EnterAfterExit
    <2> QED
      BY <2>12, <2>13, <2>14 DEF Next, DeviceReady, vars, host
  <1>4. CASE ~Running'
    BY <1>1, <1>2, <1>3, <1>4 DEF Running
  <1>5. CASE Running'
    <2>1. CASE Running /\ at' = at /\ UNCHANGED <<session, path, outcome>>
      <3>1. Script' = Script
        BY <2>1 DEF Script
      <3>2. at' \in 0 .. Len(Script')
        BY <1>0, <2>1, <3>1 DEF Ranges
      <3> QED
        BY <1>1, <1>3, <3>2
    <2>2. CASE Running /\ at' = at + 1 /\ at < Len(Script) /\ UNCHANGED <<session, path, outcome>>
      <3>1. Script' = Script
        BY <2>2 DEF Script
      <3>2. Len(Script) \in Nat /\ at \in Nat
        BY <1>2, <1>0, <3>1 DEF Ranges
      <3> QED
        BY <1>1, <1>3, <2>2, <3>1, <3>2
    <2>3. CASE Running /\ at' = at + 1 /\ Pos = 4
      <3>1. at' \in 0 .. 9
        BY <1>0, <2>3, HostIs
      <3>3. at' \in 0 .. Len(Script')
        BY <1>2, <3>1
      <3> QED
        BY <1>1, <1>3, <3>3
    <2>4. CASE Enter /\ at' = 1
      BY <1>1, <1>2, <1>3, <2>4
    <2> QED
      BY <1>5, <2>1, <2>2, <2>3, <2>4, Moves DEF Running
  <1> QED
    BY <1>4, <1>5

\* What is open, and what the user was shown, keep their types.
LEMMA HeldKeeps ==
    ASSUME IInv, [Next]_vars
    PROVE  /\ held' \subseteq {"dev", "buf", "item", "map", "type"}
           /\ prompt' \in {0, 921, 1024, 1025, 1026, 1027}
  <1> DEFINE All == {"dev", "buf", "item", "map", "type"}
             Shown == {0, 921, 1024, 1025, 1026, 1027}
             Kept == held' \subseteq All /\ prompt' \in Shown
  <1>0. held \subseteq All /\ prompt \in Shown
    BY TypeOKParts DEF IInv, Ranges
  <1>1. CASE Burn
    <2>1. PromptOf(Job) \in Shown
      BY DEF PromptOf
    <2>2. ASSUME NEW left \in SUBSET Leaves,
                 Advance(left) \/ Fail(left) \/ Raise(left) \/ Stays(left)
          PROVE  Kept
      <3>1. prompt' \in {prompt, PromptOf(Job)}
        BY <2>2 DEF Advance, Fail, Raise, Stays
      <3>2. held' \subseteq held \cup left
        BY <2>2 DEF Advance, Fail, Raise, Stays
      <3> QED
        BY <1>0, <2>1, <3>1, <3>2 DEF Leaves
    <2>3. held' = held \cup {"item"} /\ prompt' = prompt => Kept
      BY <1>0
    <2> QED
      BY <1>1, <2>2, <2>3, Ways
  <1>2. CASE InitTools \/ InitAgain \/ DeviceReady \/ UNCHANGED vars
    <2>1. UNCHANGED <<held, prompt>>
      BY <1>2 DEF InitTools, InitAgain, DeviceReady, vars, host
    <2> QED
      BY <1>0, <2>1
  <1>3. CASE Enter \/ EnterAfterExit
    <2>1. prompt' \in {0, prompt}
      BY <1>3 DEF Enter, EnterAfterExit
    <2>2. held' \subseteq held \cup {"dev", "buf"}
      BY <1>3 DEF Enter, EnterAfterExit
    <2> QED
      BY <1>0, <2>1, <2>2
  <1> QED
    BY <1>1, <1>2, <1>3 DEF Next

\* The actions outside the loop over the partitions.
LEMMA OutsideLoop ==
    ASSUME SetFlag \/ Query \/ QueryStorage \/ SaveItem \/ SaveMap \/ SaveRaises \/ Down \/ Status
             \/ SetFlashOn \/ SetFlashOff \/ SetToolMode
    PROVE  Running /\ Op # "parts" /\ UNCHANGED <<loop, flash>>
  BY DEF SetFlag, Query, QueryStorage, SaveItem, SaveMap, SaveRaises, Down, Status, SetFlashOn,
     SetFlashOff, SetToolMode, Doing, Op, Running, loop, device, store

\* How a step in the loop leaves it: it stays, takes the next partition, or ends the loop.
LEMMA InsideLoop ==
    ASSUME Ranges, Looping, PartOpen \/ PartDown \/ PartReadFails \/ PartSum \/ PartCheck
    PROVE  /\ Running /\ Op = "parts" /\ UNCHANGED path
           /\ \/ at' = 0 /\ UNCHANGED <<part, stage>> /\ turn' \in {0, turn}
              \/ /\ at' = at /\ part' = part /\ ~PartOpen /\ ~PartDown
                 /\ turn' = turn /\ stage' = "check" /\ Todo[part].verify
              \/ /\ at' = at /\ part' = part /\ PartOpen
                 /\ turn' = 0 /\ stage' \in {"down", "sum"}
                 /\ stage' = "down" => ~Todo[part].skipped
                 /\ stage' = "sum" => Todo[part].verify
              \/ /\ at' = at /\ part' = part /\ PartDown
                 /\ stage' \in {"down", "sum"} /\ turn' = turn + 1
                 /\ stage' = "down" => turn + 1 < Todo[part].bufs /\ ~Todo[part].skipped
                 /\ stage' = "sum" => turn + 1 = Todo[part].bufs /\ Todo[part].verify
              \/ /\ at' = at /\ part < Len(Todo) /\ part' = part + 1
                 /\ stage' = "open" /\ turn' = 0
              \/ /\ at' \in {at + 1, 0} /\ part = Len(Todo) /\ part' = part
                 /\ stage' = "open" /\ turn' = 0
  <1>0. Running /\ Op = "parts" /\ UNCHANGED path
    BY DEF PartOpen, PartDown, PartReadFails, PartSum, PartCheck, InPart, Doing, Op, Running
  <1>1. ASSUME NEW left, PartDone(left)
        PROVE  \/ /\ at' = at /\ part < Len(Todo) /\ part' = part + 1
                  /\ stage' = "open" /\ turn' = 0
               \/ /\ at' \in {at + 1, 0} /\ part = Len(Todo) /\ part' = part
                  /\ stage' = "open" /\ turn' = 0
    <2>1. part \in 1 .. Len(Todo) /\ Len(Todo) \in Nat
      BY Work DEF Ranges
    <2> QED
      BY <1>1, <2>1 DEF PartDone, Advance
  <1>2. ASSUME NEW left, FailParts(left) \/ Raise(left)
        PROVE  at' = 0
    BY <1>2 DEF FailParts, Fail, Raise
  <1>3. CASE PartOpen
    <2>1. turn' = 0
      BY <1>3 DEF PartOpen
    <2> QED
      BY <1>0, <1>1, <1>2, <1>3, <2>1 DEF PartOpen, ToStage
  <1>4. CASE PartDown
    <2>1. \/ turn + 1 < Todo[part].bufs /\ ToStage("down") /\ turn' = turn + 1
          \/ /\ turn + 1 = Todo[part].bufs /\ Todo[part].verify
             /\ ToStage("sum") /\ turn' = turn + 1
          \/ PartDone({})
          \/ FailParts({}) /\ UNCHANGED loop
      BY <1>4 DEF PartDown
    <2>2. ~Todo[part].skipped
      BY <1>0, <1>4 DEF Looping, PartDown, InPart
    <2> QED
      BY <1>0, <1>1, <1>2, <1>4, <2>1, <2>2 DEF ToStage, loop
  <1>5. CASE PartReadFails
    BY <1>0, <1>2, <1>5 DEF PartReadFails, loop
  <1>6. CASE PartSum
    <2>1. Todo[part].verify /\ ~PartOpen /\ ~PartDown
      BY <1>0, <1>6 DEF PartSum, PartOpen, PartDown, InPart, Looping
    <2> QED
      BY <1>0, <1>2, <1>6, <2>1 DEF PartSum, ToStage, loop
  <1>7. CASE PartCheck
    <2>1. Todo[part].verify /\ ~PartOpen /\ ~PartDown
      BY <1>0, <1>7 DEF PartCheck, PartOpen, PartDown, InPart, Looping
    <2>2. \/ PartDone({}) 
          \/ UNCHANGED <<at, loop>> /\ stage = "check"
          \/ FailParts({}) /\ UNCHANGED loop
      BY <1>7 DEF PartCheck, InPart
    <2> QED
      BY <1>0, <1>1, <1>2, <2>1, <2>2 DEF loop
  <1> QED
    BY <1>3, <1>4, <1>5, <1>6, <1>7

\* The partition, its stage and the buffers sent keep their types and Looping.
LEMMA LoopKeeps ==
    ASSUME IInv, [Next]_vars
    PROVE  /\ part' \in 1 .. Len(Todo') /\ stage' \in {"open", "down", "sum", "check"}
           /\ turn' \in 0 .. Todo'[part'].bufs /\ Looping'
  <1>0. Ranges /\ Looping
    BY TypeOKParts DEF IInv
  <1>1. UNCHANGED path => Todo' = Todo
    BY DEF Todo
  <1>2. CASE PartOpen \/ PartDown \/ PartReadFails \/ PartSum \/ PartCheck
    <2>1. Running /\ Op = "parts" /\ UNCHANGED path /\ Todo' = Todo
      BY <1>0, <1>1, <1>2, InsideLoop
    <2>2. /\ part \in 1 .. Len(Todo) /\ Len(Todo) \in Nat \ {0}
          /\ \A p \in 1 .. Len(Todo) : Todo[p].bufs \in Nat \ {0}
          /\ turn \in 0 .. Todo[part].bufs /\ stage \in {"open", "down", "sum", "check"}
      BY <1>0, Work DEF Ranges
    <2>3. part' \in 1 .. Len(Todo) /\ turn' \in 0 .. Todo[part'].bufs
          /\ stage' \in {"open", "down", "sum", "check"}
      <3>1. CASE /\ part' = part /\ turn' \in {0, turn}
                 /\ stage' \in {stage, "open", "down", "sum", "check"}
        BY <2>2, <3>1
      <3>2. CASE part < Len(Todo) /\ part' = part + 1 /\ stage' = "open" /\ turn' = 0
        BY <2>2, <3>2
      <3>3. CASE /\ part' = part /\ stage' \in {"down", "sum"} /\ turn' = turn + 1
                 /\ turn + 1 <= Todo[part].bufs
        BY <2>2, <3>3
      <3> QED
        BY <1>0, <1>2, <2>2, <3>1, <3>2, <3>3, InsideLoop
    <2>4. CASE ~Running'
      BY <2>1, <2>3, <2>4 DEF Looping
    <2>5. CASE Running'
      <3>1. (at' = at => Op' = Op) /\ Pos' \in {Pos, Pos + 1}
        <4>1. at \in Nat /\ ~Enter
          BY <1>0, <2>1 DEF Ranges, Running, Enter
        <4> QED
          BY <2>1, <2>5, <4>1, NextPlace
      <3>2. Pos \in 8 .. 9
        BY <1>0, <2>1, HostIs, WhereItIs
      <3>3. ~(Pos' <= 7)
        BY <3>1, <3>2
      <3>4. Running' /\ Op' # "parts" => stage' = "open"
        <4>1. at' # at => stage' = "open"
          BY <1>0, <1>2, <2>5, InsideLoop DEF Running
        <4> QED
          BY <2>1, <3>1, <4>1
      <3>5. Running' /\ stage' = "open" => turn' = 0
        BY <1>0, <1>2, <2>5, InsideLoop DEF Running, Looping
      <3>6. stage' = "down" => turn' < Todo[part'].bufs /\ ~Todo[part'].skipped
        BY <1>0, <1>2, <2>2, <2>5, InsideLoop DEF Running
      <3>7. stage' \in {"sum", "check"} => Todo[part'].verify
        BY <1>0, <1>2, <2>2, <2>5, InsideLoop DEF Running
      <3> QED
        BY <2>1, <2>3, <3>3, <3>4, <3>5, <3>6, <3>7 DEF Looping
    <2> QED
      BY <2>4, <2>5
  <1>3. CASE Enter
    <2>1. part' = 1 /\ stage' = "open" /\ turn' = 0 /\ Todo' = Parts
      BY <1>3 DEF Enter, Todo
    <2> QED
      BY <2>1, Work DEF Looping
  <1>4. CASE SetFlag \/ Query \/ QueryStorage \/ SaveItem \/ SaveMap \/ SaveRaises \/ Down
               \/ Status \/ SetFlashOn \/ SetFlashOff \/ SetToolMode
    <2>1. Running /\ UNCHANGED loop /\ stage = "open" /\ turn = 0
      BY <1>0, <1>4, OutsideLoop DEF Looping
    <2>2. part' \in 1 .. Len(Todo') /\ 0 \in 0 .. Todo'[part'].bufs
      <3>1. CASE UNCHANGED path
        BY <1>0, <1>1, <2>1, <3>1, Work DEF Ranges, loop
      <3>2. CASE ~UNCHANGED path
        <4>1. Pos = 4 /\ path' = "full"
          <5>1. QueryStorage /\ Job = "storage" /\ path' = "full"
            BY <1>4, <3>2, Ways DEF Burn
          <5>2. Op = "type"
            BY <5>1 DEF QueryStorage, Doing, Op
          <5> QED
            BY <1>0, <2>1, <5>1, <5>2, HostIs, WhereItIs
        <4>2. part' = 1
          BY <1>0, <2>1, <4>1 DEF Looping, loop
        <4>3. Len(Todo') = 1 /\ Todo'[1].bufs \in Nat \ {0}
          BY <4>1, BurnAssumption DEF Todo
        <4> QED
          BY <4>2, <4>3
      <3> QED
        BY <3>1, <3>2
    <2>3. Running' /\ Pos' <= 7 => part' = 1
      <3>1. Running' => Pos' \in {Pos, Pos + 1}
        BY <2>1, NextPlace DEF Enter, Running
      <3>2. Pos \in -2 .. 20
        BY <1>0, <2>1, HostIs
      <3>3. Running' /\ Pos' <= 7 => Pos <= 7
        BY <3>1, <3>2
      <3> QED
        BY <1>0, <2>1, <3>3 DEF Looping, loop
    <2> QED
      BY <2>1, <2>2, <2>3 DEF Looping, loop
  <1>5. CASE UNCHANGED <<loop, path>> /\ ~Running' /\ ~Running
    BY <1>0, <1>1, <1>5 DEF Ranges, Looping, loop
  <1>6. CASE UNCHANGED host
    <2>1. Pos' = Pos /\ Op' = Op /\ Running' = Running /\ Todo' = Todo
      BY <1>6 DEF host, Pos, Base, Op, Script, Running, Todo
    <2> QED
      BY <1>0, <1>6, <2>1 DEF Ranges, Looping, host, loop
  <1>7. InitTools \/ InitAgain \/ EnterAfterExit =>
            UNCHANGED <<loop, path>> /\ ~Running' /\ ~Running
    BY DEF InitTools, InitAgain, EnterAfterExit, loop, Running
  <1> QED
    BY <1>2, <1>3, <1>4, <1>5, <1>6, <1>7 DEF Next, Burn, DeviceReady, vars

\* The counters keep their bounds: a verification ends before its last query.
LEMMA CountsKeep ==
    ASSUME IInv, [Next]_vars
    PROVE  /\ tries' \in 0 .. MaxTries /\ attempts' \in 0 .. MaxAttempts
           /\ Running' => tries' < MaxTries
  <1>0. /\ tries \in 0 .. MaxTries /\ attempts \in 0 .. MaxAttempts
        /\ Running => tries < MaxTries
        /\ MaxTries \in Nat \ {0} /\ MaxAttempts \in Nat
    BY TypeOKParts, BurnAssumption DEF IInv, Ranges, Types
  <1>1. CASE Burn
    <2>1. Running /\ UNCHANGED attempts
      BY <1>1, Ways
    <2>2. ASSUME NEW left, FailParts(left) \/ Fail(left)
          PROVE  ~Running'
      BY <2>2 DEF FailParts, Fail, Running
    <2>3. \/ tries' = tries
          \/ tries' = 0
          \/ tries' = tries + 1 /\ (tries + 1 < MaxTries \/ ~Running')
      <3>1. SetFlag \/ Query \/ QueryStorage \/ SaveItem \/ SaveMap \/ SaveRaises \/ Down
              \/ SetFlashOn \/ SetFlashOff \/ SetToolMode \/ PartReadFails => tries' = tries
        BY DEF SetFlag, Query, QueryStorage, SaveItem, SaveMap, SaveRaises, Down,
           SetFlashOn, SetFlashOff, SetToolMode, PartReadFails
      <3>2. PartOpen \/ PartDown \/ PartSum => tries' \in {0, tries}
        BY DEF PartOpen, PartDown, PartSum, ToStage, PartDone
      <3>3. Status => \/ tries' \in {0, tries}
                      \/ tries' = tries + 1 /\ (tries + 1 < MaxTries \/ ~Running')
        BY <2>2 DEF Status, MoreTries
      <3>4. PartCheck => \/ tries' \in {0, tries}
                         \/ tries' = tries + 1 /\ (tries + 1 < MaxTries \/ ~Running')
        BY <2>2 DEF PartCheck, MoreTries, PartDone
      <3> QED
        BY <1>1, <3>1, <3>2, <3>3, <3>4 DEF Burn
    <2> QED
      BY <1>0, <2>1, <2>3
  <1>2. CASE Enter \/ EnterAfterExit
    <2>1. /\ attempts < MaxAttempts /\ attempts' = attempts + 1
          /\ tries' = 0 \/ (tries' = tries /\ ~Running')
      BY <1>2 DEF Enter, EnterAfterExit, Running
    <2> QED
      BY <1>0, <2>1
  <1>3. CASE InitTools \/ InitAgain \/ DeviceReady \/ UNCHANGED vars
    <2>1. UNCHANGED <<tries, attempts, at>>
      BY <1>3 DEF InitTools, InitAgain, DeviceReady, vars, host
    <2> QED
      BY <1>0, <2>1 DEF Running
  <1> QED
    BY <1>1, <1>2, <1>3 DEF Next

\* What a step does to what the device holds.
LEMMA Stores ==
    ASSUME [Next]_vars, ~Enter
    PROVE  /\ \/ UNCHANGED <<got, good>>
              \/ /\ Down /\ Running /\ Op = "down" /\ got' = [got EXCEPT ![Job] = buf]
                 /\ good' \in {good \ {Job}, good \cup {Job}}
           /\ \/ UNCHANGED flash
              \/ /\ PartDown /\ Running /\ Op = "parts" /\ stage = "down" /\ path = "parts"
                 /\ \E g \in BOOLEAN : flash' = [flash EXCEPT ![part] =
                                          [n |-> turn + 1, good |-> @.good /\ g]]
           /\ verified' = verified \/ (Status /\ verified' = verified \cup {Job})
  <1>1. CASE Down
    BY <1>1 DEF Down, Running, Op, Doing
  <1>2. CASE PartDown
    BY <1>2 DEF PartDown, Running, Op, InPart, Doing
  <1>3. CASE Status
    BY <1>3 DEF Status, device, store
  <1>4. CASE Burn /\ ~Down /\ ~PartDown /\ ~Status
    BY <1>4 DEF Burn, SetFlag, Query, QueryStorage, SaveItem, SaveMap, SaveRaises, SetFlashOn,
       SetFlashOff, SetToolMode, PartOpen, PartReadFails, PartSum, PartCheck, device, store
  <1> QED
    BY <1>1, <1>2, <1>3, <1>4 DEF Next, InitTools, InitAgain, EnterAfterExit, DeviceReady, vars,
       host, device, store

\* The state of the device keeps its type.
LEMMA StoreKeeps ==
    ASSUME IInv, [Next]_vars
    PROVE  /\ DOMAIN got' = Jobs /\ got' = [j \in Jobs |-> got'[j]] /\ good' \subseteq Jobs
           /\ flash' \in [DOMAIN Parts -> [n : Nat, good : BOOLEAN]]
           /\ \A p \in DOMAIN Parts : flash'[p].n \in 0 .. Parts[p].bufs
  <1>0. Ranges /\ Types /\ Looping
    BY TypeOKParts DEF IInv
  <1>1. CASE Enter
    <2>1. /\ got' = [j \in Jobs |-> Nothing] /\ good' = {}
          /\ flash' = [p \in DOMAIN Parts |-> Blank]
      BY <1>1 DEF Enter
    <2>2. Blank \in [n : Nat, good : BOOLEAN]
      BY DEF Blank
    <2> QED
      BY <2>1, <2>2, Work DEF Blank
  <1>2. CASE ~Enter
    <2>1. DOMAIN got' = Jobs /\ got' = [j \in Jobs |-> got'[j]] /\ good' \subseteq Jobs
      <3>1. CASE UNCHANGED <<got, good>>
        BY <1>0, <3>1 DEF Ranges, Types
      <3>2. CASE /\ Running /\ Op = "down" /\ got' = [got EXCEPT ![Job] = buf]
                 /\ good' \in {good \ {Job}, good \cup {Job}}
        <4>1. Job \in Jobs
          BY <1>0, <3>2, HostIs, WhereItIs DEF Jobs
        <4>2. good' \subseteq Jobs
          BY <1>0, <3>2, <4>1 DEF Ranges
        <4>3. got' = [j \in Jobs |-> IF j = Job THEN buf ELSE got[j]]
          BY <1>0, <3>2 DEF Types
        <4> QED
          BY <4>2, <4>3
      <3> QED
        BY <1>2, <3>1, <3>2, Stores
    <2>2. CASE UNCHANGED flash
      BY <1>0, <2>1, <2>2 DEF Ranges, Types
    <2>3. CASE /\ PartDown /\ Running /\ Op = "parts" /\ stage = "down" /\ path = "parts"
               /\ \E g \in BOOLEAN : flash' = [flash EXCEPT ![part] =
                                        [n |-> turn + 1, good |-> @.good /\ g]]
      <3>1. PICK g \in BOOLEAN : flash' = [flash EXCEPT ![part] =
                                     [n |-> turn + 1, good |-> @.good /\ g]]
        BY <2>3
      <3>2. part \in DOMAIN Parts /\ turn \in Nat /\ turn + 1 <= Parts[part].bufs
        BY <1>0, <2>3, Work DEF Ranges, Looping
      <3>3. [n |-> turn + 1, good |-> flash[part].good /\ g] \in [n : Nat, good : BOOLEAN]
        BY <3>2
      <3>4. flash' \in [DOMAIN Parts -> [n : Nat, good : BOOLEAN]]
        BY <1>0, <3>1, <3>3 DEF Types
      <3>5. \A p \in DOMAIN Parts : flash'[p].n = IF p = part THEN turn + 1 ELSE flash[p].n
        BY <1>0, <3>1 DEF Types
      <3>6. \A p \in DOMAIN Parts : flash'[p].n \in 0 .. Parts[p].bufs
        <4> SUFFICES ASSUME NEW p \in DOMAIN Parts
                     PROVE  flash'[p].n \in 0 .. Parts[p].bufs
          OBVIOUS
        <4>1. flash[p].n \in 0 .. Parts[p].bufs /\ Parts[p].bufs \in Nat
          BY <1>0, Work DEF Ranges
        <4> QED
          BY <3>2, <3>5, <4>1
      <3> QED
        BY <2>1, <3>4, <3>6
    <2> QED
      BY <1>2, <2>1, <2>2, <2>3, Stores
  <1> QED
    BY <1>1, <1>2

Items == Jobs \cup {"none", "answer", "part", "sum"}

\* The buffer holds what something was read into it.
LEMMA BufKeeps ==
    ASSUME IInv, [Next]_vars
    PROVE  buf'.item \in Items
  <1>0. Ranges /\ buf.item \in Items
    BY TypeOKParts DEF IInv, Types, Items
  <1>1. CASE Enter \/ Query \/ PartOpen \/ PartDown \/ PartSum
    <2>1. buf' \in {buf, Nothing, Answer, PartData, Sum, [Sum EXCEPT !.whole = FALSE]}
      BY <1>1 DEF Enter, Query, PartOpen, PartDown, PartSum
    <2>2. {Nothing.item, Answer.item, PartData.item, Sum.item, [Sum EXCEPT !.whole = FALSE].item}
             \subseteq Items
      BY DEF Nothing, Answer, PartData, Sum, Items
    <2> QED
      BY <1>0, <2>1, <2>2
  <1>2. CASE SetFlag \/ SaveItem
    <2>1. buf'.item = Job /\ Running /\ Op \in {"flag", "save"} /\ Job # "parts"
      <3>1. CASE SetFlag
        <4>1. Running /\ Op = "flag" /\ buf'.item = Job
          BY <3>1 DEF SetFlag, WholeOf, Running, Op, Doing
        <4> QED
          BY <1>0, <4>1, HostIs, WhereItIs
      <3>2. CASE SaveItem
        BY <3>2 DEF SaveItem, Running, Op, Doing
      <3> QED
        BY <1>2, <3>1, <3>2
    <2>2. Job \in Jobs
      BY <1>0, <2>1, HostIs, WhereItIs DEF Jobs
    <2> QED
      BY <2>1, <2>2 DEF Items
  <1>3. CASE UNCHANGED buf
    BY <1>0, <1>3
  <1>4. CASE ~(Enter \/ Query \/ PartOpen \/ PartDown \/ PartSum \/ SetFlag \/ SaveItem)
    <2>1. UNCHANGED buf
      BY <1>4 DEF Next, Burn, QueryStorage, SaveMap, SaveRaises, Down, Status, SetFlashOn,
         SetFlashOff, SetToolMode, PartReadFails, PartCheck, InitTools, InitAgain, EnterAfterExit,
         DeviceReady, vars, host
    <2> QED
      BY <1>3, <2>1
  <1> QED
    BY <1>1, <1>2, <1>4

\* Truth values stay truth values.
LEMMA FlagsKeep ==
    ASSUME IInv, [Next]_vars
    PROVE  Flags'
  <1>0. Flags
    BY TypeOKParts DEF IInv
  <1>1. session'.mapped \in BOOLEAN
    <2>1. CASE InitTools
      BY <2>1 DEF InitTools
    <2>2. CASE ~InitTools
      <3>1. session' \in {session, [session EXCEPT !.image = "closed"]}
        <4>1. CASE Burn
          <5>1. ASSUME NEW left, Advance(left) \/ Fail(left) \/ Raise(left) \/ Stays(left)
                PROVE  session' \in {session, [session EXCEPT !.image = "closed"]}
            BY <5>1 DEF Advance, Fail, Raise, Stays
          <5> QED
            BY <4>1, <5>1, Ways
        <4> QED
          BY <2>2, <4>1 DEF Next, InitAgain, Enter, EnterAfterExit, DeviceReady, vars, host
      <3>2. Ranges
        BY TypeOKParts DEF IInv
      <3> QED
        BY <1>0, <3>1, <3>2 DEF Flags, Ranges
    <2> QED
      BY <2>1, <2>2
  <1>2. nor' \in BOOLEAN
    BY <1>0 DEF Flags, Next, Burn, InitTools, InitAgain, Enter, EnterAfterExit, DeviceReady,
       SetFlag, Query, QueryStorage, SaveItem, SaveMap, SaveRaises, Down, Status, SetFlashOn,
       SetFlashOff, SetToolMode, PartOpen, PartDown, PartReadFails, PartSum, PartCheck, vars,
       device, store
  <1>3. busy' \in BOOLEAN
    BY <1>0 DEF Flags, Next, Burn, InitTools, InitAgain, Enter, EnterAfterExit, DeviceReady,
       SetFlag, Query, QueryStorage, SaveItem, SaveMap, SaveRaises, Down, Status, SetFlashOn,
       SetFlashOff, SetToolMode, PartOpen, PartDown, PartReadFails, PartSum, PartCheck, vars,
       device, store
  <1>4. flashOn' \in BOOLEAN
    <2>1. flashOn \in BOOLEAN
      BY <1>0 DEF Flags
    <2>2. ASSUME NEW left, FailParts(left)
          PROVE  flashOn' \in BOOLEAN
      BY <2>1, <2>2 DEF FailParts
    <2>3. CASE PartOpen \/ PartDown \/ PartReadFails \/ PartSum \/ PartCheck \/ Query
      BY <2>1, <2>2, <2>3 DEF PartOpen, PartDown, PartReadFails, PartSum, PartCheck, Query
    <2>4. CASE SetFlashOn \/ SetFlashOff
      <3>1. PICK r : (flashOn' = Arrived(r)) \/ (flashOn' = ~Arrived(r))
        BY <2>4, Zenon DEF SetFlashOn, SetFlashOff
      <3>2. Arrived(r) \in BOOLEAN /\ (~Arrived(r)) \in BOOLEAN
        BY DEF Arrived
      <3> QED
        BY <3>1, <3>2, Zenon
    <2>5. CASE Enter
      BY <2>5 DEF Enter
    <2>6. CASE ~(PartOpen \/ PartDown \/ PartReadFails \/ PartSum \/ PartCheck \/ Query
                   \/ SetFlashOn \/ SetFlashOff \/ Enter)
      <3>1. UNCHANGED flashOn
        BY <2>6 DEF Next, Burn, InitTools, InitAgain, EnterAfterExit, DeviceReady, SetFlag,
           QueryStorage, SaveItem, SaveMap, SaveRaises, Down, Status, SetToolMode, vars, device
      <3> QED
        BY <2>1, <3>1
    <2> QED
      BY <2>3, <2>4, <2>5, <2>6
  <1> QED
    BY <1>1, <1>2, <1>3, <1>4 DEF Flags

------------------------------------------------------------------------------
(* Every step keeps the tags *)

\* The first step, and that of the path of the full image, send nothing.
LEMMA NewPath ==
    \A m \in {"product", "update"} :
        /\ Join(Start(m), PartSteps)[1].op # "down"
        /\ Join(Start(m), FullSteps)[(IF m = "update" THEN 3 ELSE 0) + 5].op # "down"
  <1> SUFFICES ASSUME NEW m \in {"product", "update"}
               PROVE  /\ Join(Start(m), PartSteps)[1].op # "down"
                      /\ Join(Start(m), FullSteps)[(IF m = "update" THEN 3 ELSE 0) + 5].op # "down"
    OBVIOUS
  <1> DEFINE b == IF m = "update" THEN 3 ELSE 0
  <1>1. b \in {0, 3} /\ (b = 3 <=> m = "update")
    OBVIOUS
  <1> HIDE DEF b
  <1>2. /\ IsList(Start(m), b + 4) /\ Start(m)[b + 1] = Place("mbr", "save")
        /\ b = 3 => Start(m)[1] = Place("erase", "flag")
    BY <1>1, StartSteps
  <1>3. Start(m)[1].op # "down"
    BY <1>1, <1>2 DEF Place
  <1>4. /\ \A k \in 1 .. b + 4 : Join(Start(m), PartSteps)[k] = Start(m)[k]
        /\ \A k \in 1 .. 5 : Join(Start(m), FullSteps)[b + 4 + k] = FullSteps[k]
    BY <1>1, <1>2, Joined, PartPath, FullPath
  <1>5. Join(Start(m), PartSteps)[1].op # "down"
    BY <1>1, <1>3, <1>4
  <1>6. Join(Start(m), FullSteps)[b + 5] = FullSteps[1]
    BY <1>1, <1>4
  <1>7. Join(Start(m), FullSteps)[b + 5].op # "down"
    BY <1>6, FullPath DEF Place
  <1> QED
    BY <1>5, <1>7 DEF b

\* What is sent is read, or set, in the step before, for the same job.
LEMMA BeforeDown ==
    ASSUME Ranges, Running, at < Len(Script), Script[at + 1].op = "down"
    PROVE  /\ Op = "flag" \/ (Op = "save" /\ Job # "parts")
           /\ Script[at + 1].job = Job
  <1>0. /\ at = Base + Pos /\ Pos \in -2 .. 20 /\ Base \in {0, 3} /\ at \in 1 .. Len(Script)
        /\ path = "full" => Len(Script) = Base + 9
        /\ path = "parts" => Len(Script) = Base + 20
        /\ path \in {"parts", "full"} /\ session.mode \in {"product", "update"}
    BY HostIs
  <1>1. /\ at = Base + Pos /\ Pos \in -2 .. 20 /\ Base \in {0, 3} /\ at \in Nat \ {0}
        /\ path = "full" => Pos \in -2 .. 8
        /\ path = "parts" => Pos \in -2 .. 19
        /\ path \in {"full", "parts"}
    <2>1. at \in Nat \ {0}
      BY <1>0
    <2>2. path = "full" => Base + Pos < Base + 9
      BY <1>0
    <2>3. path = "parts" => Base + Pos < Base + 20
      BY <1>0
    <2>4. Base \in {0, 3} /\ Pos \in -2 .. 20
      BY <1>0
    <2>5. path = "full" => Pos <= 8
      BY <2>2, <2>4
    <2>6. path = "parts" => Pos <= 19
      BY <2>3, <2>4
    <2> QED
      BY <1>0, <2>1, <2>4, <2>5, <2>6
  <1>2. CASE Pos \in -2 .. 0
    <2>1. Base = 3
      BY <1>1, <1>2
    <2>2. /\ Pos = -2 => Op = "flag" /\ Job = "erase" /\ at + 1 = 2
          /\ Pos = -1 => at + 1 = 3
          /\ Pos = 0 => at + 1 = Base + 1
      BY <1>1, <2>1, HostIs, WhatItDoes
    <2>3. /\ Script[2].job = "erase" /\ Script[2].op = "down" /\ Script[3].op = "status"
          /\ Script[Base + 1].op = "save"
      BY <1>0, <2>1, Said
    <2>4. Pos = -2
      BY <1>2, <2>2, <2>3
    <2> QED
      BY <2>2, <2>3, <2>4
  <1>3. CASE Pos \in 1 .. 3
    <2>1. /\ Pos = 1 => Op = "save" /\ Job = "mbr" /\ at + 1 = Base + 2
          /\ Pos = 2 => at + 1 = Base + 3
          /\ Pos = 3 => at + 1 = Base + 4
      BY <1>1, HostIs, WhatItDoes
    <2>2. /\ Script[Base + 2].job = "mbr" /\ Script[Base + 2].op = "down"
          /\ Script[Base + 3].op = "status" /\ Script[Base + 4].op = "type"
      BY <1>0, Said
    <2>3. Pos = 1
      BY <1>3, <2>1, <2>2
    <2> QED
      BY <2>1, <2>2, <2>3
  <1>4. CASE Pos \in 4 .. 8 /\ path = "full"
    <2>1. /\ Pos = 4 => at + 1 = Base + 5
          /\ Pos = 5 => at + 1 = Base + 6
          /\ Pos = 6 => Op = "flag" /\ Job = "full" /\ at + 1 = Base + 7
          /\ Pos = 7 => at + 1 = Base + 8
          /\ Pos = 8 => at + 1 = Base + 9
      BY <1>1, <1>4, HostIs, WhatItDoes
    <2>2. /\ Script[Base + 5].op = "query" /\ Script[Base + 6].op = "flag"
          /\ Script[Base + 7].job = "full" /\ Script[Base + 7].op = "down"
          /\ Script[Base + 8].op = "status"
          /\ Script[Base + 9].op = "parts"
      BY <1>0, <1>4, Said
    <2>3. Pos = 6
      BY <1>4, <2>1, <2>2
    <2> QED
      BY <2>1, <2>2, <2>3
  <1>5. CASE Pos \in 4 .. 11 /\ path = "parts"
    <2>1. /\ Script[Base + 5].op = "on" /\ Script[Base + 6].op = "save"
          /\ Script[Base + 7].op = "query" /\ Script[Base + 8].op = "parts"
          /\ Script[Base + 9].op = "off" /\ Script[Base + 10].op = "type"
          /\ Script[Base + 11].op = "query" /\ Script[Base + 12].op = "save"
      BY <1>0, <1>5, Said
    <2>2. CASE Pos \in 4 .. 7
      <3>1. at + 1 \in {Base + 5, Base + 6, Base + 7, Base + 8}
        BY <1>1, <2>2
      <3> QED
        BY <2>1, <3>1
    <2>3. CASE Pos \in 8 .. 11
      <3>1. at + 1 \in {Base + 9, Base + 10, Base + 11, Base + 12}
        BY <1>1, <2>3
      <3> QED
        BY <2>1, <3>1
    <2> QED
      BY <1>5, <2>2, <2>3
  <1>6. CASE Pos \in 12 .. 19 /\ path = "parts"
    <2>1. /\ Script[Base + 13].job = "uboot" /\ Script[Base + 14].op = "status"
          /\ Script[Base + 15].op = "query" /\ Script[Base + 16].op = "query"
          /\ Script[Base + 17].op = "save" /\ Script[Base + 18].job = "boot0"
          /\ Script[Base + 19].op = "status" /\ Script[Base + 20].op = "mode"
      BY <1>0, <1>6, Said
    <2>2. CASE Pos = 12
      <3>1. Op = "save" /\ Job = "uboot" /\ at + 1 = Base + 13
        BY <1>0, <1>1, <1>6, <2>2, WhatItDoes
      <3> QED
        BY <2>1, <3>1
    <2>3. CASE Pos = 17
      <3>1. Op = "save" /\ Job = "boot0" /\ at + 1 = Base + 18
        BY <1>0, <1>1, <1>6, <2>3, WhatItDoes
      <3> QED
        BY <2>1, <3>1
    <2>4. CASE Pos \in 13 .. 16
      <3>1. at + 1 \in {Base + 14, Base + 15, Base + 16, Base + 17}
        BY <1>1, <2>4
      <3> QED
        BY <2>1, <3>1
    <2>5. CASE Pos \in 18 .. 19
      <3>1. at + 1 \in {Base + 19, Base + 20}
        BY <1>1, <2>5
      <3> QED
        BY <2>1, <3>1
    <2> QED
      BY <1>6, <2>2, <2>3, <2>4, <2>5
  <1> QED
    BY <1>1, <1>2, <1>3, <1>4, <1>5, <1>6

\* What is sent with a tag stays the item of that tag.
LEMMA TagsKeep ==
    ASSUME IInv, [Next]_vars
    PROVE  Tagged' /\ TagGetsItsItem'
  <1>0. Ranges /\ Tagged /\ TagGetsItsItem /\ Types
    BY TypeOKParts DEF IInv
  <1>1. TagGetsItsItem'
    <2>1. CASE Enter
      BY <2>1 DEF Enter, TagGetsItsItem
    <2>2. CASE UNCHANGED got
      BY <1>0, <2>2 DEF TagGetsItsItem
    <2>3. CASE Running /\ Op = "down" /\ got' = [got EXCEPT ![Job] = buf]
      BY <1>0, <2>3 DEF TagGetsItsItem, Tagged, Types
    <2> QED
      BY <2>1, <2>2, <2>3, Stores
  <1>2. ASSUME Running', Op' = "down"
        PROVE  buf'.item = Job'
    <2>1. CASE /\ Running /\ at' = at /\ Op' = Op /\ Job' = Job
      <3>1. Op = "down" /\ buf.item = Job
        BY <1>0, <1>2, <2>1 DEF Tagged
      <3>2. ~Burn
        <4>1. Down => at' # at
          <5>1. at \in 1 .. Len(Script)
            BY <1>0, <2>1, HostIs
          <5> QED
            BY <2>1, <5>1 DEF Down, Answered, Advance, Fail, Running
        <4> QED
          BY <2>1, <3>1, <4>1 DEF Burn, SetFlag, Query, QueryStorage, SaveItem, SaveMap,
             SaveRaises, Status, SetFlashOn, SetFlashOff, SetToolMode, PartOpen, PartDown,
             PartReadFails, PartSum, PartCheck, InPart, Doing, Op
      <3>3. UNCHANGED buf
        BY <2>1, <3>2 DEF Next, InitTools, InitAgain, Enter, EnterAfterExit, DeviceReady, vars,
           host, Running
      <3> QED
        BY <2>1, <3>1, <3>3
    <2>2. CASE /\ Running /\ at' = at + 1 /\ Script' = Script
      <3>1. Script[at + 1].op = "down" /\ Job' = Script[at + 1].job
        BY <1>2, <2>2 DEF Op, Job
      <3>2. at < Len(Script) /\ at \in Nat /\ ~Enter
        <4>1. at \in 1 .. Len(Script) /\ ~Enter
          BY <1>0, <2>2, HostIs DEF Enter, Running
        <4>2. at + 1 \in 0 .. Len(Script)
          BY <2>2, PlaceKeeps
        <4> QED
          BY <4>1, <4>2
      <3>3. (Op = "flag" \/ (Op = "save" /\ Job # "parts")) /\ Script[at + 1].job = Job
        BY <1>0, <2>2, <3>1, <3>2, BeforeDown
      <3>4. at' # at /\ at' # 0
        BY <2>2, <3>2
      <3>5. SetFlag \/ SaveItem
        BY <2>2, <3>2, <3>3, <3>4 DEF Next, Burn, Query, QueryStorage, SaveMap, SaveRaises, Down,
           Status, SetFlashOn, SetFlashOff, SetToolMode, PartOpen, PartDown, PartReadFails,
           PartSum, PartCheck, InPart, Doing, Op, InitTools, InitAgain, EnterAfterExit,
           DeviceReady, vars, host, Running, Raise
      <3>6. buf'.item = Job
        BY <3>5 DEF SetFlag, SaveItem, WholeOf
      <3> QED
        BY <3>1, <3>3, <3>6
    <2>3. CASE /\ Running /\ at' = at + 1 /\ Pos = 4 /\ path' = "full"
               /\ UNCHANGED session
      <3>1. at' = Base + 5
        BY <1>0, <2>3, HostIs
      <3>2. Script' = Join(Start(session.mode), FullSteps)
        BY <2>3 DEF Script, Join
      <3>3. Script'[Base + 5].op # "down"
        BY <1>0, <3>2, NewPath DEF Ranges, Base
      <3> QED
        BY <1>2, <3>1, <3>3 DEF Op
    <2>4. CASE Enter /\ at' = 1
      <3>1. Script' = Join(Start(session.mode), PartSteps)
        BY <2>4 DEF Script, Enter, Join
      <3>2. Script'[1].op # "down"
        BY <1>0, <3>1, NewPath DEF Ranges
      <3> QED
        BY <1>2, <2>4, <3>2 DEF Op
    <2> QED
      BY <1>2, <2>1, <2>2, <2>3, <2>4, NextPlace
  <1> QED
    BY <1>1, <1>2 DEF Tagged

------------------------------------------------------------------------------
(* Every step keeps what was verified, the switch and the flash *)

\* A status that lets the host go on is a success.
LEMMA Checked ==
    ASSUME [Next]_vars, Ranges, Running, Op = "status", at' = at + 1
    PROVE  Job \in good /\ verified' = verified \cup {Job} /\ UNCHANGED store
  <1>1. at \in Nat \ {0} /\ at' # at /\ at' # 0
    <2>1. at \in 1 .. Len(Script)
      BY HostIs
    <2> QED
      BY <2>1
  <1>2. Status
    BY <1>1 DEF Next, InitTools, InitAgain, Enter, EnterAfterExit, DeviceReady, vars, host,
       Burn, SetFlag, Query, QueryStorage, SaveItem, SaveMap, SaveRaises, Down, SetFlashOn,
       SetFlashOff, SetToolMode, PartOpen, PartDown, PartReadFails, PartSum, PartCheck, InPart,
       Doing, Op, Running
  <1> QED
    BY <1>1, <1>2 DEF Status, Fail, device

\* What was verified and is not sent again stays so.
LEMMA StaysGood ==
    ASSUME [Next]_vars, ~Enter, NEW j \in verified \cap good, ~(Running /\ Op = "down" /\ Job = j)
    PROVE  j \in verified' \cap good'
  <1>1. j \in verified'
    BY Stores
  <1>2. j \in good'
    BY Stores
  <1> QED
    BY <1>1, <1>2

\* Sending takes one step.
LEMMA DownMoves ==
    ASSUME Down, Ranges
    PROVE  at' # at /\ UNCHANGED path
  <1>1. at \in 1 .. Len(Script)
    BY HostIs DEF Down, Doing, Running
  <1>2. at \in Nat \ {0}
    BY <1>1
  <1> QED
    BY <1>2 DEF Down, Answered, Advance, Fail

\* What the host has passed stays verified.
LEMMA VerifiedKeeps ==
    ASSUME IInv, [Next]_vars
    PROVE  Verified'
  <1>0. Ranges /\ Verified
    BY TypeOKParts DEF IInv
  <1>1. CASE ~Running'
    BY <1>1 DEF Verified
  <1>2. CASE Enter
    <2>1. CASE Running'
      <3>1. at' = 1 /\ path' = "parts" /\ got' = [j \in Jobs |-> Nothing]
        BY <1>2, <2>1 DEF Enter, Running
      <3>2. Pos' \in {1, -2}
        BY <3>1 DEF Pos, Base
      <3>3. got'["boot0"] = Nothing
        BY <3>1 DEF Jobs
      <3> QED
        BY <3>2, <3>3 DEF Verified
    <2> QED
      BY <1>1, <2>1
  <1>3. CASE Running' /\ ~Enter
    <2>1. /\ Running /\ path' \in {path, "full"} /\ Base \in {0, 3} /\ at = Base + Pos
          /\ Pos \in -2 .. 20 /\ (path' = path \/ (Pos = 4 /\ Op = "type"))
          /\ Pos' = Pos \/ (Pos' = Pos + 1 /\ at' = at + 1)
          /\ path \in {"parts", "full"} /\ session.mode \in {"product", "update"}
          /\ at \in 1 .. Len(Script)
      <3>1. Running /\ path' \in {path, "full"} /\ (path' = path \/ (Pos = 4 /\ Op = "type"))
        BY <1>3, NextPlace
      <3>2. Pos' = Pos \/ (Pos' = Pos + 1 /\ at' = at + 1)
        BY <1>3, NextPlace
      <3> QED
        BY <1>0, <3>1, <3>2, HostIs
    <2>6. /\ Pos \in Int /\ Pos' \in Int /\ Pos \in -2 .. 20
          /\ Pos' = Pos \/ (Pos' = Pos + 1 /\ at' = at + 1)
      BY <2>1
    <2>2. Pos' >= 4 => "mbr" \in verified' \cap good'
      <3>1. CASE Pos >= 4
        <4>1. "mbr" \in verified \cap good
          BY <1>0, <2>1, <3>1 DEF Verified
        <4>2. ~(Op = "down" /\ Job = "mbr")
          BY <2>1, <3>1, WhereItIs
        <4> QED
          BY <1>3, <4>1, <4>2, StaysGood
      <3>2. CASE Pos = 3 /\ at' = at + 1
        <4>1. Op = "status" /\ Job = "mbr"
          BY <2>1, <3>2, WhatItDoes
        <4> QED
          BY <1>0, <2>1, <3>2, <4>1, Checked DEF store
      <3>3. Pos' >= 4 => Pos >= 4 \/ (Pos = 3 /\ at' = at + 1)
        BY <2>1, <2>6
      <3> QED
        BY <3>1, <3>2, <3>3
    <2>3. path' = "parts" /\ Pos' >= 15 => "uboot" \in verified' \cap good'
      <3>1. CASE Pos >= 15 /\ path = "parts"
        <4>1. "uboot" \in verified \cap good
          BY <1>0, <2>1, <3>1 DEF Verified
        <4>2. ~(Op = "down" /\ Job = "uboot")
          BY <2>1, <3>1, WhereItIs
        <4> QED
          BY <1>3, <4>1, <4>2, StaysGood
      <3>2. CASE Pos = 14 /\ path = "parts" /\ at' = at + 1
        <4>1. Op = "status" /\ Job = "uboot"
          BY <2>1, <3>2, WhatItDoes
        <4> QED
          BY <1>0, <2>1, <3>2, <4>1, Checked DEF store
      <3>3. path' = "parts" /\ Pos' >= 15 =>
                  path = "parts" /\ (Pos >= 15 \/ (Pos = 14 /\ at' = at + 1))
        BY <2>1, <2>6
      <3> QED
        BY <3>1, <3>2, <3>3
    <2>4. path' = "parts" /\ Pos' >= 20 => "boot0" \in verified' \cap good'
      <3>1. CASE Pos >= 20 /\ path = "parts"
        <4>1. "boot0" \in verified \cap good
          BY <1>0, <2>1, <3>1 DEF Verified
        <4>2. ~(Op = "down" /\ Job = "boot0")
          BY <2>1, <3>1, WhereItIs
        <4> QED
          BY <1>3, <4>1, <4>2, StaysGood
      <3>2. CASE Pos = 19 /\ path = "parts" /\ at' = at + 1
        <4>1. Op = "status" /\ Job = "boot0"
          BY <2>1, <3>2, WhatItDoes
        <4> QED
          BY <1>0, <2>1, <3>2, <4>1, Checked DEF store
      <3>3. path' = "parts" /\ Pos' >= 20 =>
                  path = "parts" /\ (Pos >= 20 \/ (Pos = 19 /\ at' = at + 1))
        BY <2>1, <2>6
      <3> QED
        BY <3>1, <3>2, <3>3
    <2>5. path' = "full" \/ Pos' <= 18 => got'["boot0"] = Nothing
      <3> SUFFICES ASSUME path' = "full" \/ Pos' <= 18
                   PROVE  got'["boot0"] = Nothing
        OBVIOUS
      <3>1. path = "full" \/ Pos <= 18
        <4>1. CASE path' = path
          BY <2>6, <4>1
        <4>2. CASE Pos = 4
          BY <4>2
        <4> QED
          BY <2>1, <4>1, <4>2
      <3>2. got["boot0"] = Nothing
        BY <1>0, <2>1, <3>1 DEF Verified
      <3>3. Down => Job # "boot0"
        <4> SUFFICES ASSUME Down, Job = "boot0"
                     PROVE  FALSE
          OBVIOUS
        <4>1. Op = "down" /\ at' # at /\ path' = path
          BY <1>0, DownMoves DEF Down, Doing, Op
        <4>2. Pos = 18 /\ path = "parts"
          BY <2>1, <4>1, WhereItIs
        <4>3. Pos' = Pos + 1
          BY <1>3, <4>1, NextPlace
        <4> QED
          BY <4>1, <4>2, <4>3
      <3>4. CASE UNCHANGED got
        BY <3>2, <3>4
      <3>5. CASE Down /\ got' = [got EXCEPT ![Job] = buf]
        BY <3>2, <3>3, <3>5
      <3> QED
        BY <1>3, <3>4, <3>5, Stores
    <2> QED
      BY <2>2, <2>3, <2>4, <2>5 DEF Verified
  <1> QED
    BY <1>1, <1>2, <1>3

\* What a step that the host goes on after does to the flash.
LEMMA Switches ==
    ASSUME [Next]_vars, Ranges, Running, Running'
    PROVE  /\ Op = "on" /\ at' = at + 1 => flashOn' = TRUE
           /\ Op = "off" /\ at' = at + 1 => flashOn' = FALSE
           /\ Op \notin {"on", "off"} \/ at' = at => UNCHANGED flashOn
  <1>1. at \in Nat \ {0} /\ at' # 0 /\ at # 0
    <2>1. at \in 1 .. Len(Script)
      BY HostIs
    <2> QED
      BY <2>1 DEF Running
  <1>2. ASSUME NEW left
        PROVE  ~FailParts(left) /\ ~Fail(left)
    BY <1>1 DEF FailParts, Fail
  <1>3. ASSUME NEW r, Answered(r)
        PROVE  r = "ok" /\ at' = at + 1
    <2>1. r = "ok" /\ Advance({})
      BY <1>2, <1>3 DEF Answered
    <2> QED
      BY <1>1, <2>1 DEF Advance
  <1>4. CASE SetFlashOn
    <2>1. Op = "on" /\ at' = at + 1 /\ flashOn' = TRUE
      <3>1. PICK r \in FesTransCmd : flashOn' = Arrived(r) /\ Answered(r)
        BY <1>4 DEF SetFlashOn
      <3> QED
        BY <1>3, <1>4, <3>1 DEF SetFlashOn, Doing, Op, Arrived
    <2>2. at' # at
      BY <1>1, <2>1
    <2>3. "on" # "off"
      OBVIOUS
    <2> QED
      BY <2>1, <2>2, <2>3, Zenon
  <1>5. CASE SetFlashOff
    <2>1. Op = "off" /\ at' = at + 1 /\ flashOn' = FALSE
      <3>1. PICK r \in FesTransCmd : flashOn' = (~Arrived(r)) /\ Answered(r)
        BY <1>5 DEF SetFlashOff
      <3> QED
        BY <1>3, <1>5, <3>1 DEF SetFlashOff, Doing, Op, Arrived
    <2>2. at' # at
      BY <1>1, <2>1
    <2>3. "on" # "off"
      OBVIOUS
    <2> QED
      BY <2>1, <2>2, <2>3, Zenon
  <1>6. CASE ~SetFlashOn /\ ~SetFlashOff
    <2>1. CASE Burn
      <3>1. UNCHANGED flashOn
        <4>1. PartOpen \/ PartDown \/ PartReadFails \/ PartSum \/ PartCheck \/ Query
                => UNCHANGED flashOn
          BY <1>2 DEF PartOpen, PartDown, PartReadFails, PartSum, PartCheck, Query
        <4> QED
          BY <1>6, <2>1, <4>1 DEF Burn, SetFlag, QueryStorage, SaveItem, SaveMap, SaveRaises, Down,
             Status, SetToolMode, device
      <3>2. Op \notin {"on", "off"}
        BY <1>6, <2>1 DEF Burn, SetFlag, Query, QueryStorage, SaveItem, SaveMap, SaveRaises, Down,
           Status, SetToolMode, PartOpen, PartDown, PartReadFails, PartSum, PartCheck, InPart,
           Doing, Op
      <3> QED
        BY <3>1, <3>2
    <2>2. CASE DeviceReady \/ UNCHANGED vars
      <3>1. UNCHANGED <<at, flashOn>>
        BY <2>2 DEF DeviceReady, vars, host, device
      <3>2. at' # at + 1
        BY <1>1, <3>1
      <3> QED
        BY <3>1, <3>2
    <2>3. ~InitTools /\ ~InitAgain /\ ~Enter /\ ~EnterAfterExit
      BY <1>1 DEF InitTools, InitAgain, Enter, EnterAfterExit
    <2>4. Burn \/ DeviceReady \/ UNCHANGED vars
      BY <2>3 DEF Next
    <2> QED
      BY <2>1, <2>2, <2>4
  <1> QED
    BY <1>4, <1>5, <1>6

\* The flash follows the step of the host.
LEMMA SwitchedKeeps ==
    ASSUME IInv, [Next]_vars
    PROVE  Switched'
  <1>0. Ranges /\ Switched
    BY TypeOKParts DEF IInv
  <1> SUFFICES ASSUME Running', path' = "parts"
               PROVE  flashOn' <=> Pos' \in 6 .. 9
    BY DEF Switched
  <1>1. CASE Enter
    <2>1. at' = 1 /\ path' = "parts" /\ flashOn' = FALSE
      BY <1>1 DEF Enter, Running
    <2>2. Pos' \in {1, -2}
      BY <2>1 DEF Pos, Base
    <2>3. ~(Pos' \in 6 .. 9)
      BY <2>2
    <2> QED
      BY <2>1, <2>3
  <1>2. CASE Running /\ at' = at /\ Pos' = Pos /\ UNCHANGED path
    <2>1. flashOn' = flashOn
      BY <1>0, <1>2, Switches
    <2>2. flashOn <=> Pos \in 6 .. 9
      BY <1>0, <1>2 DEF Switched
    <2> QED
      BY <1>2, <2>1, <2>2
  <1>3. CASE Running /\ at' = at + 1 /\ Pos' = Pos + 1 /\ path' \in {path, "full"}
    <2>1. path = "parts" /\ Pos \in -2 .. 20 /\ Pos \in Int
      <3>1. Pos \in -2 .. 20
        BY <1>0, <1>3, HostIs
      <3>2. Pos \in Int
        BY <3>1
      <3>3. path = "parts"
        BY <1>3
      <3> QED
        BY <3>1, <3>2, <3>3, Zenon
    <2>2. flashOn <=> Pos \in 6 .. 9
      BY <1>0, <1>3, <2>1 DEF Switched
    <2>3. CASE Pos = 5
      <3>1. Op = "on"
        BY <1>0, <1>3, <2>1, <2>3, HostIs, WhatItDoes
      <3>2. flashOn' = TRUE
        BY <1>0, <1>3, <3>1, Switches
      <3>3. Pos' \in 6 .. 9
        BY <1>3, <2>3
      <3> QED
        BY <3>2, <3>3
    <2>4. CASE Pos = 9
      <3>1. Op = "off"
        BY <1>0, <1>3, <2>1, <2>4, HostIs, WhatItDoes
      <3>2. flashOn' = FALSE
        BY <1>0, <1>3, <3>1, Switches
      <3>3. ~(Pos' \in 6 .. 9)
        BY <1>3, <2>4
      <3> QED
        BY <3>2, <3>3
    <2>5. CASE Pos # 5 /\ Pos # 9
      <3>1. Op \notin {"on", "off"}
        BY <1>0, <1>3, <2>1, <2>5, HostIs, WhereItIs
      <3>2. flashOn' = flashOn
        BY <1>0, <1>3, <3>1, Switches
      <3>3. Pos' \in 6 .. 9 <=> Pos \in 6 .. 9
        BY <1>3, <2>1, <2>5
      <3> QED
        BY <2>2, <3>2, <3>3
    <2> QED
      BY <2>3, <2>4, <2>5
  <1> QED
    BY <1>1, <1>2, <1>3, NextPlace

InLoop == PartOpen \/ PartDown \/ PartReadFails \/ PartSum \/ PartCheck

\* What a step that the host goes on after leaves in the partition under way, p.
LEMMA PartGoesOn ==
    ASSUME IInv, InLoop, Running', path = "parts", NEW p \in DOMAIN Parts, p = part, Pos = 8
    PROVE  /\ stage' = "open" => Burnt(p)'
           /\ stage' = "down" => flash'[p].n = turn'
           /\ stage' \in {"sum", "check"} => Complete(p)'
  <1>0. Ranges /\ Looping /\ Types /\ Burning /\ Running
    BY TypeOKParts, InsideLoop DEF IInv, InLoop
  <1>1. /\ Todo = Parts /\ Parts[p].bufs \in Nat \ {0} /\ turn \in Nat
        /\ flash[p] \in [n : Nat, good : BOOLEAN]
    <2>1. Todo = Parts
      BY <1>0, Work
    <2>2. turn \in Nat
      BY <1>0, <2>1, Work DEF Ranges
    <2> QED
      BY <1>0, <2>1, <2>2, Work DEF Types
  <1>2. /\ stage = "open" => flash[p] = Blank
        /\ stage \in {"sum", "check"} => Complete(p)
    BY <1>0 DEF Burning
  <1>3. ASSUME NEW left
        PROVE  ~FailParts(left) /\ ~Raise(left)
    BY DEF FailParts, Fail, Raise, Running
  <1>4. CASE PartOpen
    <2>1. flash' = flash /\ stage = "open" /\ turn' = 0
      BY <1>4 DEF PartOpen, InPart, store
    <2>2. stage' = "down" \/ (Parts[p].skipped /\ stage' \in {"open", "sum"})
      BY <1>1, <1>3, <1>4 DEF PartOpen, ToStage, PartDone
    <2>3. flash'[p].n = 0
      BY <1>2, <2>1 DEF Blank
    <2> QED
      BY <2>1, <2>2, <2>3 DEF Burnt, Complete, Programmed
  <1>5. CASE PartDown
    <2>1. \E g \in BOOLEAN : flash' = [flash EXCEPT ![part] =
                                 [n |-> turn + 1, good |-> @.good /\ g]]
      <3>1. PICK r \in FesTransCmd :
               /\ IF Arrived(r) /\ path = "parts"
                  THEN \E g \in BOOLEAN : flash' = [flash EXCEPT ![part] =
                           [n |-> turn + 1, good |-> @.good /\ g]]
                  ELSE UNCHANGED flash
               /\ r = "ok"
        BY <1>3, <1>5 DEF PartDown
      <3>2. Arrived(r)
        BY <3>1 DEF Arrived
      <3> QED
        BY <3>1, <3>2
    <2>2. flash'[p].n = turn + 1
      BY <1>0, <2>1 DEF Types
    <2>3. \/ stage' = "down" /\ turn' = turn + 1
          \/ stage' = "sum" /\ turn + 1 = Parts[p].bufs
          \/ stage' = "open" /\ turn + 1 = Parts[p].bufs /\ ~Parts[p].verify
      BY <1>1, <1>3, <1>5 DEF PartDown, ToStage, PartDone
    <2> QED
      BY <2>2, <2>3 DEF Burnt, Complete, Programmed
  <1>6. CASE PartReadFails
    BY <1>3, <1>6 DEF PartReadFails
  <1>7. CASE PartSum
    <2>1. flash' = flash /\ stage = "sum" /\ stage' = "check"
      BY <1>3, <1>7 DEF PartSum, InPart, store, ToStage
    <2> QED
      BY <1>2, <2>1 DEF Complete
  <1>8. CASE PartCheck
    <2>1. flash' = flash /\ stage = "check"
      BY <1>8 DEF PartCheck, InPart, store
    <2>2. CASE TRUE \in Compared /\ PartDone({})
      <3>1. Parts[p].skipped \/ flash[p] = [n |-> Parts[p].bufs, good |-> TRUE]
        BY <1>1, <2>2 DEF Compared
      <3>2. stage' = "open"
        BY <2>2 DEF PartDone
      <3> QED
        BY <2>1, <3>1, <3>2 DEF Burnt, Complete, Programmed
    <2>3. CASE UNCHANGED loop
      BY <1>2, <2>1, <2>3 DEF Complete, loop
    <2> QED
      BY <1>3, <1>8, <2>2, <2>3 DEF PartCheck
  <1> QED
    BY <1>4, <1>5, <1>6, <1>7, <1>8 DEF InLoop

\* Nothing else is programmed.
LEMMA OthersKeep ==
    ASSUME [Next]_vars, ~Enter, Types, NEW p \in DOMAIN Parts, p # part
    PROVE  flash'[p] = flash[p]
  BY Stores DEF Types

\* The flash follows the partition under way.
LEMMA BurningKeeps ==
    ASSUME IInv, [Next]_vars
    PROVE  Burning'
  <1>0. Ranges /\ Looping /\ Types /\ Burning
    BY TypeOKParts DEF IInv
  <1> SUFFICES ASSUME Running', path' = "parts", NEW p \in DOMAIN Parts
               PROVE  /\ Pos' <= 7 => flash'[p] = Blank
                      /\ Pos' = 8 => /\ p < part' => Burnt(p)'
                                     /\ p > part' \/ (p = part' /\ stage' = "open")
                                           => flash'[p] = Blank
                                     /\ p = part' /\ stage' = "down" => flash'[p].n = turn'
                                     /\ p = part' /\ stage' \in {"sum", "check"}
                                           => Complete(p)'
                      /\ Pos' >= 9 => Burnt(p)'
    BY DEF Burning
  <1>1. CASE Enter
    <2>1. at' = 1 /\ flash' = [q \in DOMAIN Parts |-> Blank]
      BY <1>1 DEF Enter, Running
    <2>2. Pos' \in {1, -2}
      BY <2>1 DEF Pos, Base
    <2> QED
      BY <2>1, <2>2
  <1>2. CASE Running /\ ~Enter
    <2>1. /\ path = "parts" /\ Pos \in Int /\ Pos \in -2 .. 20
          /\ \/ Pos' = Pos /\ at' = at
             \/ Pos' = Pos + 1 /\ at' = at + 1
      <3>1. path = "parts" /\ \/ Pos' = Pos /\ at' = at
                              \/ Pos' = Pos + 1 /\ at' = at + 1
        BY <1>2, NextPlace
      <3>2. Pos \in -2 .. 20
        BY <1>0, <1>2, HostIs
      <3>3. Pos \in Int
        BY <3>2
      <3> QED
        BY <3>1, <3>2, <3>3, Zenon
    <2>2. part \in Nat /\ part \in DOMAIN Parts /\ p \in Nat /\ p \in 1 .. Len(Parts)
          /\ Todo = Parts /\ Len(Parts) \in Nat
      BY <1>0, <2>1, Work DEF Ranges
    <2>3. CASE Pos # 8
      <3>1. Op # "parts"
        BY <1>0, <1>2, <2>1, <2>3, HostIs, WhereItIs
      <3>2. UNCHANGED <<loop, flash>>
        <4>1. ~InLoop
          BY <3>1 DEF InLoop, PartOpen, PartDown, PartReadFails, PartSum, PartCheck, InPart, Doing,
             Op
        <4>2. ~InitTools /\ ~InitAgain /\ ~EnterAfterExit
          BY <1>2 DEF InitTools, InitAgain, EnterAfterExit, Running
        <4>3. DeviceReady \/ UNCHANGED vars => UNCHANGED <<loop, flash>>
          BY DEF DeviceReady, vars, host, device, store, loop
        <4> QED
          BY <1>2, <4>1, <4>2, <4>3, OutsideLoop DEF Next, Burn, InLoop
      <3>3. CASE Pos' <= 7
        <4>1. Pos <= 7
          BY <2>1, <3>3
        <4>2. flash[p] = Blank /\ ~(Pos' = 8) /\ ~(Pos' >= 9)
          BY <1>0, <1>2, <2>1, <3>3, <4>1 DEF Burning
        <4> QED
          BY <3>2, <4>2
      <3>4. CASE Pos' = 8
        <4>1. Pos <= 7 /\ ~(Pos' <= 7) /\ ~(Pos' >= 9)
          BY <2>1, <2>3, <3>4
        <4>2. part = 1 /\ stage = "open" /\ flash[p] = Blank
          BY <1>0, <1>2, <2>1, <3>1, <4>1 DEF Burning, Looping
        <4>3. part' = 1 /\ stage' = "open" /\ flash'[p] = Blank
          BY <3>2, <4>2 DEF loop
        <4>4. ~(p < part')
          BY <2>2, <4>3
        <4> QED
          BY <4>1, <4>3, <4>4
      <3>5. CASE Pos' >= 9
        <4>1. Pos >= 9 /\ ~(Pos' <= 7) /\ ~(Pos' = 8)
          BY <2>1, <2>3, <3>5
        <4>2. Burnt(p)
          BY <1>0, <1>2, <2>1, <4>1 DEF Burning
        <4>3. Burnt(p)'
          BY <3>2, <4>2 DEF Burnt, Complete, Programmed
        <4> QED
          BY <4>1, <4>3
      <3>6. Pos' <= 7 \/ Pos' = 8 \/ Pos' >= 9
        BY <2>1
      <3> QED
        BY <3>3, <3>4, <3>5, <3>6
    <2>4. CASE Pos = 8
      <3>1. Op = "parts"
        BY <1>0, <1>2, <2>1, <2>4, HostIs, WhatItDoes
      <3>2. /\ p < part => Burnt(p)
            /\ p > part \/ (p = part /\ stage = "open") => flash[p] = Blank
            /\ p = part /\ stage = "down" => flash[p].n = turn
            /\ p = part /\ stage \in {"sum", "check"} => Complete(p)
        BY <1>0, <1>2, <2>1, <2>4 DEF Burning
      <3>3. ~(Pos' <= 7)
        BY <2>1, <2>4
      <3>4. CASE DeviceReady \/ UNCHANGED vars
        <4>1. UNCHANGED <<at, loop, flash>> /\ Pos' = Pos
          <5>1. UNCHANGED <<at, loop, flash, session>>
            BY <3>4 DEF DeviceReady, vars, host, device, store, loop
          <5> QED
            BY <5>1 DEF Pos, Base
        <4>2. ~(Pos' >= 9) /\ part' = part /\ stage' = stage /\ turn' = turn /\ flash' = flash
          BY <2>4, <4>1 DEF loop
        <4> QED
          BY <3>2, <3>3, <4>2 DEF Burnt, Complete, Programmed
      <3>5. CASE InLoop
        <4>1. p = part => /\ stage' = "open" => Burnt(p)'
                          /\ stage' = "down" => flash'[p].n = turn'
                          /\ stage' \in {"sum", "check"} => Complete(p)'
          BY <2>1, <2>4, <3>5, PartGoesOn
        <4>2. p # part => flash'[p] = flash[p]
          BY <1>0, <1>2, OthersKeep
        <4>3. /\ p < part => Burnt(p)'
              /\ p > part => flash'[p] = Blank
          <5>1. p < part \/ p > part => p # part
            BY <2>2
          <5> QED
            BY <3>2, <4>2, <5>1 DEF Burnt, Complete, Programmed
        <4>4. \/ at' = at /\ part' = part /\ stage' \in {"down", "sum", "check"}
              \/ at' = at /\ part' = part + 1 /\ stage' = "open"
              \/ at' = at + 1 /\ part = Len(Parts) /\ part' = part /\ stage' = "open"
          BY <1>0, <2>2, <3>5, InsideLoop DEF InLoop, Running
        <4>5. CASE at' = at /\ part' = part /\ stage' \in {"down", "sum", "check"}
          <5>1. ~(Pos' >= 9)
            <6>1. at' # at + 1
              <7>1. at \in Nat
                BY <1>0, <1>2, HostIs
              <7> QED
                BY <4>5, <7>1
            <6> QED
              BY <2>1, <2>4, <6>1
          <5> QED
            BY <3>3, <4>1, <4>3, <4>5, <5>1
        <4>6. CASE at' = at /\ part' = part + 1 /\ stage' = "open"
          <5>1. ~(Pos' >= 9)
            <6>1. at' # at + 1
              <7>1. at \in Nat
                BY <1>0, <1>2, HostIs
              <7> QED
                BY <4>6, <7>1
            <6> QED
              BY <2>1, <2>4, <6>1
          <5>2. p < part' => p < part \/ p = part
            BY <2>2, <4>6
          <5>3. p > part' \/ p = part' => p > part
            BY <2>2, <4>6
          <5> QED
            BY <3>3, <4>1, <4>3, <4>6, <5>1, <5>2, <5>3
        <4>7. CASE at' = at + 1 /\ part = Len(Parts) /\ part' = part /\ stage' = "open"
          <5>1. Pos' # 8
            <6>1. at' # at
              <7>1. at \in Nat
                BY <1>0, <1>2, HostIs
              <7> QED
                BY <4>7, <7>1
            <6> QED
              BY <2>1, <2>4, <6>1
          <5>2. p < part \/ p = part
            BY <2>2, <4>7
          <5>3. Burnt(p)'
            BY <4>1, <4>3, <4>7, <5>2
          <5> QED
            BY <3>3, <5>1, <5>3
        <4> QED
          BY <4>4, <4>5, <4>6, <4>7
      <3>6. ~InitTools /\ ~InitAgain /\ ~EnterAfterExit
        BY <1>2 DEF InitTools, InitAgain, EnterAfterExit, Running
      <3> QED
        BY <1>2, <3>1, <3>4, <3>5, <3>6, OutsideLoop DEF Next, Burn, InLoop
    <2> QED
      BY <2>3, <2>4
  <1> QED
    BY <1>1, <1>2, NextPlace

\* A burn that ends well has passed every verification.
LEMMA GoodKeeps ==
    ASSUME IInv, [Next]_vars, Burned'
    PROVE  /\ {"mbr", "uboot", "boot0"} \subseteq good'
           /\ \A p \in DOMAIN Parts : Programmed(p)'
  <1>0. Ranges /\ Types /\ Verified /\ Burning /\ VerifiedIsGood
    BY TypeOKParts DEF IInv
  <1>1. at' = 0 /\ outcome' = "true" /\ attempts' > 0 /\ path' = "parts"
    BY DEF Burned
  <1>2. CASE ~Running
    <2>1. ~Burn /\ ~InitAgain /\ ~EnterAfterExit /\ ~Enter
      BY <1>1, <1>2, Ways DEF InitAgain, EnterAfterExit, Enter
    <2>2. ~InitTools
      BY <1>0, <1>1 DEF InitTools, Types, Ranges
    <2>3. UNCHANGED <<at, outcome, attempts, path, good, flash>>
      BY <2>1, <2>2 DEF Next, DeviceReady, vars, host, device, store
    <2>4. Burned
      BY <1>1, <2>3 DEF Burned
    <2> QED
      BY <1>0, <2>3, <2>4 DEF VerifiedIsGood, Programmed
  <1>3. CASE Running
    <2>1. path = "parts" /\ at = Len(Script) /\ ~Enter
      <3>1. at \in 1 .. Len(Script)
        BY <1>0, <1>3, HostIs
      <3>2. at # 0 /\ at + 1 # 0 /\ 1 # 0
        BY <3>1
      <3>3. ~Enter /\ at' # at /\ at' # at + 1
        BY <1>1, <3>2 DEF Enter
      <3>4. path' = path /\ at = Len(Script)
        BY <1>1, <1>3, <3>3, Moves
      <3> QED
        BY <1>1, <3>3, <3>4
    <2>2. Pos = 20
      <3>1. at = Base + Pos /\ Len(Script) = Base + 20 /\ Base \in {0, 3} /\ Pos \in -2 .. 20
        BY <1>0, <1>3, <2>1, HostIs
      <3>2. Base + Pos = Base + 20
        BY <2>1, <3>1, Zenon
      <3>3. Pos \in Int /\ Base \in Int
        BY <3>1
      <3> QED
        BY <3>2, <3>3
    <2>3. Op = "mode"
      BY <1>0, <1>3, <2>1, <2>2, HostIs, WhatItDoes
    <2>4. UNCHANGED <<good, flash>>
      BY <2>1, <2>3, Stores
    <2>5. {"mbr", "uboot", "boot0"} \subseteq good /\ \A p \in DOMAIN Parts : Programmed(p)
      BY <1>0, <1>3, <2>1, <2>2 DEF Verified, Burning, Burnt
    <2> QED
      BY <2>4, <2>5 DEF Programmed
  <1> QED
    BY <1>2, <1>3

\* boot0 is received by a device that has everything else.
LEMMA BootLastKeeps ==
    ASSUME IInv, [Next]_vars
    PROVE  BootLast'
  <1>0. Ranges /\ Types /\ Verified /\ Burning /\ BootLast
    BY TypeOKParts DEF IInv
  <1> SUFFICES ASSUME got'["boot0"] # Nothing
               PROVE  /\ {"mbr", "uboot"} \subseteq verified'
                      /\ \A p \in DOMAIN Parts : Complete(p)'
    BY DEF BootLast
  <1>1. ~Enter
    BY DEF Enter, Jobs
  <1>2. verified \subseteq verified'
    BY <1>1, Stores
  <1>3. CASE got["boot0"] # Nothing
    <2>1. UNCHANGED flash
      <3>1. ~(Running /\ Op = "parts" /\ path = "parts")
        <4> SUFFICES ASSUME Running, Op = "parts", path = "parts"
                     PROVE  FALSE
          OBVIOUS
        <4>1. Pos = 8
          BY <1>0, HostIs, WhereItIs
        <4> QED
          BY <1>0, <1>3, <4>1 DEF Verified
      <3> QED
        BY <1>1, <3>1, Stores
    <2> QED
      BY <1>0, <1>2, <1>3, <2>1 DEF BootLast, Complete
  <1>4. CASE got["boot0"] = Nothing
    <2>1. Down /\ Running /\ Op = "down" /\ Job = "boot0"
      <3>1. ~(got' = got)
        BY <1>4
      <3>2. Down /\ Running /\ Op = "down" /\ got' = [got EXCEPT ![Job] = buf]
        BY <1>1, <3>1, Stores
      <3>3. Job # "boot0" => got'["boot0"] = got["boot0"]
        BY <1>0, <3>2 DEF Types, Jobs
      <3> QED
        BY <1>4, <3>2, <3>3
    <2>2. Pos = 18 /\ path = "parts"
      BY <1>0, <2>1, HostIs, WhereItIs
    <2>3. {"mbr", "uboot"} \subseteq verified /\ \A p \in DOMAIN Parts : Complete(p)
      BY <1>0, <2>1, <2>2 DEF Verified, Burning, Burnt
    <2>4. UNCHANGED flash
      BY <1>1, <2>1, Stores
    <2> QED
      BY <1>2, <2>3, <2>4 DEF Complete
  <1> QED
    BY <1>3, <1>4

------------------------------------------------------------------------------
(* The invariant, and what follows from it *)

\* The invariant holds at first.
LEMMA InitInv == Init => IInv
  <1> SUFFICES ASSUME Init
               PROVE  IInv
    OBVIOUS
  <1>1. ~Running /\ at = 0 /\ path = "parts" /\ session.mode = "update"
    BY DEF Init, Running
  <1>2. Len(Script) \in Nat
    BY <1>1, ScriptLen DEF Script
  <1>3. /\ Todo = Parts /\ part \in 1 .. Len(Todo) /\ Todo[part].bufs \in Nat
        /\ \A p \in DOMAIN Parts : Parts[p].bufs \in Nat
    BY <1>1, Work DEF Init
  <1>4. /\ flash = [p \in DOMAIN Parts |-> Blank]
        /\ Blank \in [n : Nat, good : BOOLEAN] /\ Blank.n = 0
    BY DEF Init, Blank
  <1>5. \A p \in DOMAIN Parts : flash[p].n \in 0 .. Parts[p].bufs
    BY <1>3, <1>4
  <1>6. /\ MaxTries \in Nat /\ MaxAttempts \in Nat /\ 0 \in 0 .. MaxTries /\ 0 \in 0 .. MaxAttempts
        /\ at \in 0 .. Len(Script) /\ turn \in 0 .. Todo[part].bufs
    BY <1>1, <1>2, <1>3, BurnAssumption DEF Init
  <1>7. Ranges
    <2>1. /\ session = [mapped |-> session.mapped, image |-> session.image, mode |-> session.mode]
          /\ session.image \in {"none", "open", "closed"}
          /\ session.mode \in {"product", "update"}
      BY DEF Init
    <2>2. DOMAIN got = Jobs /\ good \subseteq Jobs
      BY DEF Init
    <2> QED
      BY <1>3, <1>5, <1>6, <2>1, <2>2 DEF Init, Ranges
  <1>8. Flags
    BY DEF Init, Flags
  <1>9. Types /\ TagGetsItsItem
    <2>1. /\ buf = Nothing /\ got = [j \in Jobs |-> Nothing] /\ attempts = 0
          /\ session.image = "none"
      BY DEF Init
    <2>2. flash \in [DOMAIN Parts -> [n : Nat, good : BOOLEAN]]
      BY <1>4
    <2> QED
      BY <1>1, <2>1, <2>2 DEF Types, TagGetsItsItem, Nothing
  <1>10. Tagged /\ Verified /\ Switched /\ Looping /\ Burning
    BY <1>1 DEF Tagged, Verified, Switched, Looping, Burning
  <1>11. TypeOK
    BY <1>7, <1>8, TypeOKParts
  <1>12. VerifiedIsGood /\ BootLast
    <2>1. outcome = "nil" /\ got = [j \in Jobs |-> Nothing]
      BY DEF Init
    <2>2. got["boot0"] = Nothing /\ ~Burned
      BY <2>1 DEF Jobs, Burned
    <2> QED
      BY <1>11, <2>2 DEF VerifiedIsGood, BootLast
  <1> QED
    BY <1>9, <1>10, <1>11, <1>12 DEF IInv

\* Every step keeps the invariant.
LEMMA NextInv == IInv /\ [Next]_vars => IInv'
  <1> SUFFICES ASSUME IInv, [Next]_vars
               PROVE  IInv'
    OBVIOUS
  <1>1. Ranges'
    BY SessionKeeps, PlaceKeeps, HeldKeeps, LoopKeeps, CountsKeep, StoreKeeps DEF Ranges
  <1>2. TypeOK'
    <2>1. session' \in [mapped : BOOLEAN, image : {"none", "open", "closed"},
                        mode : {"product", "update"}]
      BY SessionKeeps, FlagsKeep DEF Flags
    <2> QED
      BY <1>1, <2>1, FlagsKeep DEF TypeOK, Ranges, Flags
  <1>3. Types'
    BY SessionKeeps, BufKeeps, StoreKeeps, CountsKeep DEF Types, Items
  <1>4. VerifiedIsGood'
    BY <1>2, GoodKeeps DEF VerifiedIsGood, Programmed
  <1> QED
    BY <1>2, <1>3, <1>4, TagsKeep, VerifiedKeeps, SwitchedKeeps, LoopKeeps, BurningKeeps,
       BootLastKeeps DEF IInv

\* The invariant holds in every state of every burn.
THEOREM Invariance == Spec => []IInv
  <1> QED
    BY InitInv, NextInv, PTL DEF Spec

\* Success means that the device stored the partition table, u-boot and boot0 without an
\* error and that every partition with a verify file is programmed with what it is the
\* sum of, whatever the device does with a buffer.
THEOREM SuccessIsVerified == Spec => []VerifiedIsGood
  <1>1. IInv => VerifiedIsGood
    BY DEF IInv
  <1> QED
    BY <1>1, Invariance, PTL

\* Wherever the burning is cut short, a device that has received boot0 has the verified
\* table and u-boot, and all of its partitions.
THEOREM BootIsLast == Spec => []BootLast
  <1>1. IInv => BootLast
    BY DEF IInv
  <1> QED
    BY <1>1, Invariance, PTL

\* What is sent with a tag is the item of that tag, though everything goes through one
\* buffer.
THEOREM TagsAreRight == Spec => []TagGetsItsItem
  <1>1. IInv => TagGetsItsItem
    BY DEF IInv
  <1> QED
    BY <1>1, Invariance, PTL

\* A partition is programmed while the flash is on, and u-boot, boot0 and the last command
\* are sent while it is off.
THEOREM FlashFollows == Spec => []FlashIsOn
  <1>1. IInv => FlashIsOn
    <2> SUFFICES ASSUME IInv, Running
                 PROVE  /\ Op = "parts" /\ path = "parts" => flashOn
                        /\ Job \in {"uboot", "boot0", "mode"} => ~flashOn
      BY DEF FlashIsOn, InPart, Doing, Op, Running
    <2>1. Ranges /\ Switched
      BY TypeOKParts DEF IInv
    <2>2. /\ Pos \in -2 .. 20 /\ Pos \in Int /\ path \in {"parts", "full"}
          /\ path = "full" => Pos <= 9
      <3>1. Pos \in -2 .. 20 /\ path \in {"parts", "full"} /\ (path = "full" => Pos <= 9)
        BY <2>1, HostIs
      <3> QED
        BY <3>1
    <2>3. Op = "parts" /\ path = "parts" => flashOn
      <3> SUFFICES ASSUME Op = "parts", path = "parts"
                   PROVE  flashOn
        OBVIOUS
      <3>1. Pos = 8
        BY <2>1, HostIs, WhereItIs
      <3>2. Pos \in 6 .. 9
        BY <3>1
      <3> QED
        BY <2>1, <3>2 DEF Switched
    <2>4. Job \in {"uboot", "boot0", "mode"} => ~flashOn
      <3> SUFFICES ASSUME Job \in {"uboot", "boot0", "mode"}
                   PROVE  ~flashOn
        OBVIOUS
      <3>1. path = "parts" /\ Pos >= 10
        <4>1. CASE Pos \in -2 .. 4
          BY <2>1, <4>1, HostIs, WhatItDoes
        <4>2. CASE Pos \in 5 .. 9
          BY <2>1, <2>2, <4>2, HostIs, WhatItDoes
        <4>3. CASE Pos >= 10
          BY <2>2, <4>3
        <4> QED
          BY <2>2, <4>1, <4>2, <4>3
      <3>2. ~(Pos \in 6 .. 9)
        BY <2>2, <3>1
      <3> QED
        BY <2>1, <3>1, <3>2 DEF Switched
    <2> QED
      BY <2>3, <2>4
  <1> QED
    BY <1>1, Invariance, PTL
==============================================================================
