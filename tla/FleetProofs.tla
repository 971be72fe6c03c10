---------------------------- MODULE FleetProofs ----------------------------
(***************************************************************************)
(* Proofs about Fleet for any number of objects, names and hosts.  The     *)
(* first part is about names: what clearString leaves of a name is found   *)
(* by induction on the length of its prefixes, as the least prefix that    *)
(* is a counterexample.  The second part shows that FleetInv is inductive. *)
(***************************************************************************)
EXTENDS Fleet, WellFoundedInduction, TLAPS

-----------------------------------------------------------------------------
(***************************************************************************)
(* Names.                                                                  *)
(***************************************************************************)

(* A set of numbers that is not empty has a least one. *)
LEMMA Least ==
    ASSUME NEW S \in SUBSET Nat, S # {}
    PROVE  \E m \in S : \A n \in S : m <= n
<1>1. IsWellFoundedOn(OpToRel(<, Nat), Nat)
  BY NatLessThanWellFounded
<1>2. PICK x \in S : \A y \in S : ~ (<<y, x>> \in OpToRel(<, Nat))
  BY <1>1, WFMin
<1>3. \A y \in S : ~ (y < x)
  BY <1>2 DEF OpToRel
<1> QED
  BY <1>3, SMT

(* The scan of the first n characters, as clearString makes it. *)
Scan(name, n, f) ==
    f = [i \in 0 .. n |->
            IF i = 0 THEN << >>
            ELSE IF name[i] \in Allowed THEN Append(f[i - 1], name[i])
            ELSE f[i - 1]]

Scanned(name, i, left) ==
    IF name[i] \in Allowed THEN Append(left, name[i]) ELSE left

(* The scan of any number of characters exists: it is extended one by one. *)
LEMMA ScanExists ==
    ASSUME NEW name, NEW n \in Nat
    PROVE  \E f : Scan(name, n, f)
<1> DEFINE Bad == {i \in Nat : ~ \E f : Scan(name, i, f)}
<1> SUFFICES ASSUME n \in Bad
             PROVE  FALSE
  OBVIOUS
<1>1. PICK m \in Bad : \A k \in Bad : m <= k
  BY Least
<1>2. m # 0
  <2>1. Scan(name, 0, [i \in 0 .. 0 |-> << >>])
    BY DEF Scan
  <2> QED
    BY <2>1
<1>3. m - 1 \in Nat /\ m - 1 \notin Bad
  BY <1>1, <1>2
<1>4. PICK f : Scan(name, m - 1, f)
  BY <1>3
<1> DEFINE g == [i \in 0 .. m |-> IF i = m THEN Scanned(name, m, f[m - 1]) ELSE f[i]]
<1>5. Scan(name, m, g)
  <2>1. \A i \in 0 .. m - 1 : g[i] = f[i]
    BY <1>2
  <2>2. \A i \in 0 .. m - 1 : f[i] = IF i = 0 THEN << >> ELSE Scanned(name, i, f[i - 1])
    BY <1>2, <1>4 DEF Scan, Scanned
  <2>3. \A i \in 0 .. m : g[i] = IF i = 0 THEN << >> ELSE Scanned(name, i, g[i - 1])
    BY <1>2, <2>1, <2>2
  <2> QED
    BY <2>3 DEF Scan, Scanned
<1> QED
  BY <1>5

(* clearString is the end of its scan. *)
LEMMA ClearIsScan ==
    ASSUME NEW name \in Seq(STRING)
    PROVE  \E f : Scan(name, Len(name), f) /\ clearString(name) = f[Len(name)]
<1> DEFINE F == CHOOSE f : Scan(name, Len(name), f)
<1>1. Scan(name, Len(name), F)
  BY ScanExists
<1>2. clearString(name) = F[Len(name)]
  BY DEF clearString, Scan
<1> QED
  BY <1>1, <1>2

(* What is left of a name has allowed characters only, and a name that      *)
(* begins with an allowed character keeps it.                              *)
LEMMA Cleared ==
    ASSUME NEW name \in Seq(STRING)
    PROVE  /\ clearString(name) \in Seq(Allowed)
           /\ name # << >> /\ name[1] \in Allowed =>
                 /\ clearString(name) # << >>
                 /\ clearString(name)[1] = name[1]
<1>1. PICK f : Scan(name, Len(name), f) /\ clearString(name) = f[Len(name)]
  BY ClearIsScan
<1> DEFINE Good(i) == /\ f[i] \in Seq(Allowed)
                      /\ i > 0 /\ name[1] \in Allowed => f[i] # << >> /\ f[i][1] = name[1]
           Bad == {i \in 0 .. Len(name) : ~ Good(i)}
<1>2. f[0] = << >> /\ \A i \in 1 .. Len(name) : f[i] = Scanned(name, i, f[i - 1])
  <2>1. Len(name) \in Nat
    OBVIOUS
  <2>2. \A i \in 0 .. Len(name) :
            f[i] = IF i = 0 THEN << >> ELSE Scanned(name, i, f[i - 1])
    <3> HIDE DEF Bad, Good
    <3> QED
      BY <1>1, <2>1 DEF Scan, Scanned
  <2> QED
    BY <2>1, <2>2
<1>3. Bad = {}
  <2> SUFFICES ASSUME Bad # {}
               PROVE  FALSE
    OBVIOUS
  <2>0. Bad \in SUBSET Nat
    OBVIOUS
  <2>1. PICK m \in Bad : \A k \in Bad : m <= k
    <3> HIDE DEF Bad
    <3> QED
      BY <2>0, Least
  <2>2. m # 0
    <3>1. << >> \in Seq(Allowed)
      OBVIOUS
    <3>2. Good(0)
      BY <1>2, <3>1
    <3> QED
      BY <3>2
  <2>3. m \in 1 .. Len(name) /\ m - 1 \in 0 .. Len(name) /\ m - 1 \notin Bad
    BY <2>1, <2>2
  <2>4. Good(m - 1) /\ f[m] = Scanned(name, m, f[m - 1])
    BY <1>2, <2>3
  <2>5. Good(m)
    <3> HIDE DEF Bad
    <3>1. CASE name[m] \notin Allowed
      <4>1. f[m] = f[m - 1]
        BY <2>4, <3>1 DEF Scanned
      <4>2. m # 1 \/ name[1] \notin Allowed
        BY <3>1
      <4> QED
        BY <2>3, <2>4, <4>1, <4>2
    <3>2. CASE name[m] \in Allowed
      <4>1. f[m] = Append(f[m - 1], name[m])
        BY <2>4, <3>2 DEF Scanned
      <4>2. CASE m = 1
        <5>0. m - 1 = 0
          BY <4>2
        <5>1. f[m] = Append(<< >>, name[1])
          BY <1>2, <4>1, <4>2, <5>0
        <5>2. Append(<< >>, name[1]) = <<name[1]>>
          OBVIOUS
        <5> QED
          BY <3>2, <4>2, <5>1, <5>2
      <4>3. CASE m # 1
        <5>1. m - 1 > 0
          BY <2>3, <4>3
        <5> QED
          BY <2>3, <2>4, <3>2, <4>1, <5>1
      <4> QED
        BY <4>2, <4>3
    <3> QED
      BY <3>1, <3>2
  <2> QED
    BY <2>1, <2>5
<1>4. Len(name) \in 0 .. Len(name) /\ Good(Len(name))
  BY <1>3
<1>5. name # << >> => Len(name) > 0
  OBVIOUS
<1> QED
  BY <1>1, <1>4, <1>5

(* Joining two names of allowed characters. *)
LEMMA Joined ==
    ASSUME NEW a \in Seq(Allowed), NEW b \in Seq(Allowed), b # << >>
    PROVE  /\ a \o b \in Seq(Allowed)
           /\ Len(a \o b) = Len(a) + Len(b)
           /\ a # << >> => (a \o b)[1] = a[1]
           /\ (a \o b)[Len(a \o b)] = b[Len(b)]
<1>1. a \o b \in Seq(Allowed) /\ Len(a \o b) = Len(a) + Len(b)
  OBVIOUS
<1>2. Len(a) \in Nat /\ Len(b) \in Nat /\ Len(b) >= 1 /\ (a # << >> => Len(a) >= 1)
  OBVIOUS
<1>3. a # << >> => (a \o b)[1] = a[1]
  BY <1>2
<1>4. (a \o b)[Len(a) + Len(b)] = b[Len(b)]
  BY <1>2
<1> QED
  BY <1>1, <1>3, <1>4

(* What makes a name of allowed characters one the cloud accepts. *)
LEMMA Fits ==
    ASSUME NEW name \in Seq(Allowed), name # << >>, name[1] \in Letters,
           name[Len(name)] # Hyphen, Len(name) <= 63
    PROVE  CloudName(name)
<1>1. \A i \in DOMAIN name : name[i] \in Allowed
  OBVIOUS
<1> QED
  BY <1>1 DEF CloudName, Matches

(* What the code appends to names, and its own part of a hashed one. *)
LEMMA Parts ==
    /\ Suffix \in Seq(Allowed) /\ Suffix # << >> /\ Len(Suffix) = 4 /\ Suffix[4] # Hyphen
    /\ <<"c", "l", "u", "s", "t", "e", "r", Hyphen>> \in Seq(Allowed)
    /\ [i \in 1 .. 16 |-> "0"] \in Seq(Allowed)
    /\ <<Hyphen, "0", "0", "0", "0", "0">> \in Seq(Allowed)
<1>1. /\ "a" \in Allowed /\ "p" \in Allowed /\ "i" \in Allowed /\ "c" \in Allowed
      /\ "l" \in Allowed /\ "u" \in Allowed /\ "s" \in Allowed /\ "t" \in Allowed
      /\ "e" \in Allowed /\ "r" \in Allowed /\ "0" \in Allowed /\ Hyphen \in Allowed
  BY DEF Allowed, Letters, Digits
<1>2. Suffix \in Seq(Allowed)
  BY <1>1 DEF Suffix
<1>3. Suffix # << >> /\ Len(Suffix) = 4 /\ Suffix[4] # Hyphen
  BY DEF Suffix, Hyphen
<1>4. <<"c", "l", "u", "s", "t", "e", "r", Hyphen>> \in Seq(Allowed)
  BY <1>1
<1>5. [i \in 1 .. 16 |-> "0"] \in Seq(Allowed)
  BY <1>1
<1>6. <<Hyphen, "0", "0", "0", "0", "0">> \in Seq(Allowed)
  BY <1>1
<1> QED
  BY <1>2, <1>3, <1>4, <1>5, <1>6

(* A clone's name is one the cloud accepts: a template's leaves room for it. *)
LEMMA CloneFits ==
    ASSUME NEW name \in Seq(STRING), nameRegex(name)
    PROVE  CloudName(CloneName(name))
<1> DEFINE end == <<Hyphen, "0", "0", "0", "0", "0">>
<1>1. /\ name # << >> /\ name[1] \in Letters /\ Len(name) <= 57
      /\ \A i \in DOMAIN name : name[i] \in Allowed
  BY DEF nameRegex, Matches
<1>2. name \in Seq(Allowed)
  BY <1>1
<1>3. end \in Seq(Allowed) /\ end # << >> /\ Len(end) = 6 /\ end[Len(end)] # Hyphen
  BY Parts DEF Hyphen
<1> HIDE DEF end
<1>4. /\ name \o end \in Seq(Allowed)
      /\ Len(name \o end) = Len(name) + 6
      /\ (name \o end)[1] = name[1]
      /\ (name \o end)[Len(name \o end)] = end[Len(end)]
  BY <1>1, <1>2, <1>3, Joined
<1>5. Len(name) \in Nat
  OBVIOUS
<1>6. name \o end # << >> /\ Len(name \o end) <= 63
  BY <1>1, <1>4, <1>5
<1>7. CloneName(name) = name \o end
  BY DEF CloneName, end
<1> QED
  BY <1>1, <1>3, <1>4, <1>6, <1>7, Fits

(* The name of a balancer that is made from what is left of a Cluster's    *)
(* name fits, when that is short enough.                                   *)
LEMMA PlainFits ==
    ASSUME NEW left \in Seq(Allowed), Len(left \o Suffix) < maxNameLength
    PROVE  /\ Len(left \o Suffix) <= 63
           /\ left # << >> /\ left[1] \in Letters => CloudName(left \o Suffix)
<1>1. Suffix \in Seq(Allowed) /\ Suffix # << >> /\ Len(Suffix) = 4 /\ Suffix[4] # Hyphen
  BY Parts
<1>2. /\ left \o Suffix \in Seq(Allowed)
      /\ Len(left \o Suffix) = Len(left) + 4
      /\ left # << >> => (left \o Suffix)[1] = left[1]
      /\ (left \o Suffix)[Len(left \o Suffix)] = Suffix[4]
  BY <1>1, Joined
<1>3. Len(left) \in Nat
  OBVIOUS
<1>4. left \o Suffix # << >> /\ Len(left \o Suffix) <= 63
  BY <1>2, <1>3 DEF maxNameLength
<1> QED
  BY <1>1, <1>2, <1>4, Fits

(* A sequence is as long as its domain. *)
LEMMA UpToSixteen ==
    ASSUME NEW n \in Nat, 1 .. n = 1 .. 16
    PROVE  n = 16
<1>1. 16 \in 1 .. n
  OBVIOUS
<1>2. n \in 1 .. 16
  BY <1>1
<1> QED
  BY <1>1, <1>2

LEMMA AsItsDomain ==
    ASSUME NEW S, NEW s \in Seq(S)
    PROVE  Len(s) \in Nat /\ DOMAIN s = 1 .. Len(s) /\ (s = << >> => Len(s) = 0)
  OBVIOUS

LEMMA SixteenLong ==
    ASSUME NEW S, NEW s \in Seq(S), DOMAIN s = 1 .. 16
    PROVE  Len(s) = 16 /\ s # << >>
<1>1. Len(s) \in Nat /\ 1 .. Len(s) = 1 .. 16 /\ (s = << >> => Len(s) = 0)
  BY AsItsDomain, Zenon
<1>2. Len(s) = 16
  BY <1>1, UpToSixteen, Zenon
<1>3. 16 # 0
  OBVIOUS
<1> QED
  BY <1>1, <1>2, <1>3, Zenon

(* The name of a balancer that is made from a hash fits. *)
LEMMA HashedFits == Len(Hashed) <= 63 /\ CloudName(Hashed)
<1> DEFINE sum == [i \in 1 .. 16 |-> "0"]
           front == <<"c", "l", "u", "s", "t", "e", "r", Hyphen>>
<1>1. front \in Seq(Allowed) /\ Len(front) = 8 /\ front[1] = "c" /\ front # << >>
  BY Parts
<1>2. sum \in Seq(Allowed) /\ Len(sum) = 16 /\ sum # << >>
  <2>1. sum \in Seq(Allowed)
    BY Parts
  <2>2. DOMAIN sum = 1 .. 16
    OBVIOUS
  <2> HIDE DEF sum
  <2> QED
    BY <2>1, <2>2, SixteenLong
<1>3. Suffix \in Seq(Allowed) /\ Len(Suffix) = 4 /\ Suffix[4] # Hyphen /\ Suffix # << >>
  BY Parts
<1>4. Hashed = (front \o sum) \o Suffix
  BY DEF Hashed
<1> HIDE DEF sum, front
<1>5. /\ front \o sum \in Seq(Allowed)
      /\ Len(front \o sum) = Len(front) + Len(sum)
      /\ (front \o sum)[1] = front[1]
  BY <1>1, <1>2, Joined
<1>6. front \o sum # << >> /\ Len(front \o sum) = 24
  BY <1>1, <1>2, <1>5
<1>7. /\ Hashed \in Seq(Allowed)
      /\ Len(Hashed) = Len(front \o sum) + Len(Suffix)
      /\ Hashed[1] = (front \o sum)[1]
      /\ Hashed[Len(Hashed)] = Suffix[Len(Suffix)]
  BY <1>3, <1>4, <1>5, <1>6, Joined
<1>8. Hashed # << >> /\ Len(Hashed) = 28
  BY <1>3, <1>6, <1>7
<1>9. Hashed[1] \in Letters
  BY <1>1, <1>5, <1>7 DEF Letters
<1>10. Hashed[Len(Hashed)] # Hyphen
  BY <1>3, <1>7, Zenon
<1>11. Len(Hashed) <= 63
  BY <1>8
<1> QED
  BY <1>7, <1>8, <1>9, <1>10, <1>11, Fits

(* A generated name fits the cloud's limit, and the cloud accepts it when  *)
(* the name of the Cluster starts with a letter.                           *)
LEMMA GeneratedFits ==
    ASSUME NEW name \in Seq(STRING) \ {<< >>}
    PROVE  /\ Len(generateName(name).text) <= 63
           /\ name[1] \in Letters => CloudName(generateName(name).text)
<1>1. CASE Len(clearString(name) \o Suffix) < maxNameLength
  <2>1. generateName(name).text = clearString(name) \o Suffix
    BY <1>1 DEF generateName, Plain
  <2>2. name[1] \in Letters => /\ clearString(name) # << >>
                               /\ clearString(name)[1] \in Letters
    BY Cleared DEF Allowed
  <2>3. clearString(name) \in Seq(Allowed)
    BY Cleared
  <2> QED
    BY <1>1, <2>1, <2>2, <2>3, PlainFits
<1>2. CASE ~ (Len(clearString(name) \o Suffix) < maxNameLength)
  <2>1. generateName(name).text = Hashed
    BY <1>2 DEF generateName
  <2> QED
    BY <2>1, HashedFits
<1> QED
  BY <1>1, <1>2

(* Names that end alike are equal when the rest is. *)
LEMMA SameFront ==
    ASSUME NEW a \in Seq(Allowed), NEW b \in Seq(Allowed), a \o Suffix = b \o Suffix
    PROVE  a = b
<1>1. Suffix \in Seq(Allowed) /\ Len(Suffix) = 4
  BY Parts
<1>2. Len(a) = Len(b)
  BY <1>1
<1>3. \A i \in 1 .. Len(a) : a[i] = b[i]
  <2> TAKE i \in 1 .. Len(a)
  <2>1. (a \o Suffix)[i] = a[i] /\ (b \o Suffix)[i] = b[i]
    BY <1>1, <1>2
  <2> QED
    BY <2>1
<1> QED
  BY <1>2, <1>3

(* Two generated names are equal only when what is left of the names of    *)
(* their Clusters is: a hash meets neither another one nor a plain name.   *)
LEMMA GeneratedApart ==
    ASSUME NEW a \in Seq(STRING) \ {<< >>}, NEW b \in Seq(STRING) \ {<< >>},
           generateName(a) = generateName(b)
    PROVE  clearString(a) = clearString(b)
<1> DEFINE Short(n) == Len(clearString(n) \o Suffix) < maxNameLength
<1>1. \A n \in {a, b} : /\ Short(n) => /\ generateName(n).text = clearString(n) \o Suffix
                                       /\ generateName(n).sum = << >>
                        /\ ~ Short(n) => generateName(n).sum = n
  BY DEF generateName, Plain
<1> HIDE DEF Short
<1>2. CASE Short(a) /\ Short(b)
  <2>1. clearString(a) \o Suffix = clearString(b) \o Suffix
    BY <1>1, <1>2
  <2>2. clearString(a) \in Seq(Allowed) /\ clearString(b) \in Seq(Allowed)
    BY Cleared
  <2> QED
    BY <2>1, <2>2, SameFront
<1>3. CASE ~ Short(a) /\ ~ Short(b)
  BY <1>1, <1>3
<1>4. CASE Short(a) /\ ~ Short(b)
  BY <1>1, <1>4
<1>5. CASE ~ Short(a) /\ Short(b)
  BY <1>1, <1>5
<1> QED
  BY <1>2, <1>3, <1>4, <1>5

-----------------------------------------------------------------------------
(***************************************************************************)
(* Objects and their specs.                                                *)
(***************************************************************************)

(* The fields of a spec. *)
LEMMA SpecFields ==
    ASSUME NEW spec \in ClusterSpec(Hosts)
    PROVE  /\ spec.folder \in Folders
           /\ spec.name \in ClusterNames
           /\ spec.lb \in Balancers
           /\ spec.lb.name \in GivenNames
           /\ spec.ep \in Endpoints(Hosts)
  BY DEF ClusterSpec, Balancers

(* Every spec has an identity. *)
LEMMA IdentityTyped ==
    ASSUME NEW spec \in ClusterSpec(Hosts)
    PROVE  Identity(spec) \in Identities
<1>1. LBName[spec.lb.name][spec.name] = GetLBName(spec.lb.name, spec.name)
  BY SpecFields DEF LBName
<1> QED
  BY <1>1, SpecFields DEF Identity, Identities

(* What users write is a spec, and what the reconciler publishes is an     *)
(* endpoint.                                                               *)
LEMMA WrittenTyped ==
    /\ Admitted \subseteq ClusterSpec(Hosts)
    /\ Endpoints(Written) \subseteq Endpoints(Hosts)
<1>1. Written \subseteq Hosts
  BY FleetAssumption
<1>2. Endpoints(Written) \subseteq Endpoints(Hosts)
  BY <1>1 DEF Endpoints
<1>3. ClusterSpec(Written) \subseteq ClusterSpec(Hosts)
  BY <1>2 DEF ClusterSpec
<1> QED
  BY <1>2, <1>3 DEF Admitted

(* An admitted update of a spec keeps its names and its balancer, and sets *)
(* an endpoint once.                                                       *)
Updated(new, old) ==
    /\ new \in ClusterSpec(Hosts)
    /\ new.lb = old.lb
    /\ new.name = old.name
    /\ new.ep = old.ep \/ (old.ep = NoEndpoint /\ isControlPlaneEndpointValid(new.ep))
    /\ new.folder = old.folder => Identity(new) = Identity(old)

LEMMA EditUpdates ==
    ASSUME NEW old \in ClusterSpec(Hosts), NEW new \in Edits(old),
           ValidateUpdateCluster(new, old)
    PROVE  Updated(new, old)
<1>1. new \in ClusterSpec(Hosts) /\ new.name = old.name
  <2>1. CASE \E f \in Folders : new = [old EXCEPT !.folder = f]
    BY <2>1 DEF ClusterSpec
  <2>2. CASE \E lb \in Balancers : new = [old EXCEPT !.lb = lb]
    BY <2>2 DEF ClusterSpec
  <2>3. CASE \E ep \in Endpoints(Written) : new = [old EXCEPT !.ep = ep]
    BY <2>3, WrittenTyped DEF ClusterSpec
  <2> QED
    BY <2>1, <2>2, <2>3 DEF Edits
<1>2. new.lb = old.lb
  BY DEF ValidateUpdateCluster
<1>3. new.ep = old.ep \/ (old.ep = NoEndpoint /\ isControlPlaneEndpointValid(new.ep))
  BY DEF ValidateUpdateCluster
<1>4. new.folder = old.folder => Identity(new) = Identity(old)
  BY <1>1, <1>2 DEF Identity
<1> QED
  BY <1>1, <1>2, <1>3, <1>4 DEF Updated

LEMMA PublishUpdates ==
    ASSUME NEW old \in ClusterSpec(Hosts), NEW ep \in Endpoints(Hosts),
           ValidateUpdateCluster([old EXCEPT !.ep = ep], old)
    PROVE  /\ Updated([old EXCEPT !.ep = ep], old)
           /\ Identity([old EXCEPT !.ep = ep]) = Identity(old)
<1> DEFINE new == [old EXCEPT !.ep = ep]
<1>1. /\ new \in ClusterSpec(Hosts)
      /\ new.lb = old.lb /\ new.name = old.name /\ new.folder = old.folder
  BY DEF ClusterSpec
<1>2. Identity(new) = Identity(old)
  <2> HIDE DEF new
  <2> QED
    BY <1>1 DEF Identity
<1>3. new.ep = old.ep \/ (old.ep = NoEndpoint /\ isControlPlaneEndpointValid(new.ep))
  BY DEF ValidateUpdateCluster
<1> HIDE DEF new
<1>4. Updated(new, old)
  BY <1>1, <1>2, <1>3 DEF Updated
<1> QED
  BY <1>2, <1>4 DEF new

(* A published endpoint is no empty one: a listener has a port. *)
LEMMA ListenerSet ==
    ASSUME NEW b
    PROVE  ListenerEndpoint(b) # NoEndpoint
<1>1. ListenerEndpoint(b).port = ListenerPort /\ NoEndpoint.port = 0
  BY DEF ListenerEndpoint, NoEndpoint
<1>2. ListenerPort # 0
  BY FleetAssumption
<1> QED
  BY <1>1, <1>2

(* A move is counted within its bound. *)
LEMMA OneMove ==
    ASSUME NEW m \in 0 .. MaxMoves, NEW n, n = m \/ n = m + 1, n <= MaxMoves
    PROVE  n \in 0 .. MaxMoves
  BY FleetAssumption

(* A stored object, and what follows of it when another is written. *)
LEMMA StoredTyped ==
    ASSUME TypeOK, NEW c \in Clusters, store[c] # Nil
    PROVE  /\ store[c] \in Object
           /\ store[c].spec \in ClusterSpec(Hosts)
           /\ Identity(store[c].spec) \in Identities
<1>1. store[c] \in Object
  BY DEF TypeOK
<1>2. store[c].spec \in ClusterSpec(Hosts)
  BY <1>1 DEF Object
<1> QED
  BY <1>1, <1>2, IdentityTyped

-----------------------------------------------------------------------------
(***************************************************************************)
(* Types.                                                                  *)
(***************************************************************************)

(* The identities that a write adds to the history are identities. *)
LEMMA TangleTyped ==
    ASSUME TypeOK, NEW c \in Clusters, NEW spec \in ClusterSpec(Hosts), Tangle(c, spec)
    PROVE  /\ tangled' \subseteq Identities
           /\ tangled \subseteq tangled'
           /\ Others(c, spec) # {} => Identity(spec) \in tangled'
           /\ store[c] # Nil /\ spec.folder # store[c].spec.folder
                 => Identity(store[c].spec) \in tangled' /\ Identity(spec) \in tangled'
<1>1. tangled \subseteq Identities
  BY DEF TypeOK
<1>2. Identity(spec) \in Identities
  BY IdentityTyped
<1>3. store[c] # Nil => Identity(store[c].spec) \in Identities
  BY StoredTyped
<1> QED
  BY <1>1, <1>2, <1>3 DEF Tangle

(* The counters stay within their bounds. *)
LEMMA CountTyped ==
    ASSUME TypeOK, Created
    PROVE  created' \in 0 .. MaxObjects /\ moves' \in 0 .. MaxMoves
<1>1. created \in 0 .. MaxObjects /\ moves \in 0 .. MaxMoves
  BY DEF TypeOK
<1> QED
  BY <1>1, FleetAssumption DEF Created

(* The actions on YandexClusters keep every variable's type. *)
LEMMA ClusterTypes ==
    ASSUME TypeOK, NEW c \in Clusters,
           \/ CreateCluster(c) \/ UpdateCluster(c) \/ DeleteCluster(c)
           \/ Reconcile(c) \/ ReconcileDelete(c)
    PROVE  TypeOK'
<1> USE DEF TypeOK
<1>1. CASE CreateCluster(c)
  <2>1. PICK spec \in Admitted :
            /\ store' = [store EXCEPT ![c] = [spec |-> spec, fin |-> FALSE,
                                              deleting |-> FALSE, ready |-> FALSE]]
            /\ Tangle(c, spec)
    BY <1>1 DEF CreateCluster
  <2>2. spec \in ClusterSpec(Hosts)
    BY WrittenTyped
  <2>3. [spec |-> spec, fin |-> FALSE, deleting |-> FALSE, ready |-> FALSE] \in Object
    BY <2>2 DEF Object
  <2>4. store' \in [Clusters -> Object \cup {Nil}]
    BY <2>1, <2>3
  <2>5. tangled' \subseteq Identities
    BY <2>1, <2>2, TangleTyped
  <2>6. created' \in 0 .. MaxObjects /\ moves' \in 0 .. MaxMoves
    BY <1>1, CountTyped DEF CreateCluster
  <2> QED
    BY <1>1, <2>4, <2>5, <2>6 DEF CreateCluster
<1>2. CASE UpdateCluster(c)
  <2>1. PICK spec \in Edits(store[c].spec) :
            /\ ValidateUpdateCluster(spec, store[c].spec)
            /\ store' = [store EXCEPT ![c].spec = spec]
            /\ Tangle(c, spec)
            /\ moves' = IF spec.folder = store[c].spec.folder THEN moves ELSE moves + 1
    BY <1>2 DEF UpdateCluster
  <2>2. store[c] \in Object /\ store[c].spec \in ClusterSpec(Hosts)
    BY <1>2, StoredTyped DEF UpdateCluster
  <2>3. spec \in ClusterSpec(Hosts)
    BY <2>1, <2>2, EditUpdates DEF Updated
  <2>4. [store[c] EXCEPT !.spec = spec] \in Object
    BY <2>2, <2>3 DEF Object
  <2>5. store' \in [Clusters -> Object \cup {Nil}]
    BY <2>1, <2>4
  <2>6. tangled' \subseteq Identities
    BY <2>1, <2>3, TangleTyped
  <2>7. moves' \in 0 .. MaxMoves
    <3>1. moves' <= MaxMoves
      BY <1>2 DEF UpdateCluster
    <3>2. moves' = moves \/ moves' = moves + 1
      BY <2>1
    <3>3. moves \in 0 .. MaxMoves
      OBVIOUS
    <3> QED
      BY <3>1, <3>2, <3>3, OneMove, Zenon
  <2> QED
    BY <1>2, <2>5, <2>6, <2>7 DEF UpdateCluster
<1>3. CASE DeleteCluster(c)
  <2>1. store[c] \in Object
    BY <1>3, StoredTyped DEF DeleteCluster
  <2>2. [store[c] EXCEPT !.deleting = TRUE] \in Object
    BY <2>1 DEF Object
  <2>3. store' \in [Clusters -> Object \cup {Nil}]
    BY <1>3, <2>2 DEF DeleteCluster
  <2> QED
    BY <1>3, <2>3 DEF DeleteCluster
<1>4. CASE Reconcile(c)
  <2>1. /\ store[c] \in Object /\ store[c].spec \in ClusterSpec(Hosts)
        /\ Identity(store[c].spec) \in Identities
    BY <1>4, StoredTyped DEF Reconcile
  <2>2. UNCHANGED <<template, machine, tangled, created, moves>>
    BY <1>4 DEF Reconcile
  <2>3. CASE AddFinalizer(c)
    <3>1. [store[c] EXCEPT !.fin = TRUE] \in Object
      BY <2>1 DEF Object
    <3>2. store' \in [Clusters -> Object \cup {Nil}]
      BY <2>3, <3>1 DEF AddFinalizer
    <3> QED
      BY <2>2, <2>3, <3>2 DEF AddFinalizer
  <2>4. CASE ~ AddFinalizer(c)
    <3>1. /\ groups' = groups \cup {Identity(store[c].spec)}
          /\ UNCHANGED <<store, balancers>> \/ CreateBalancer(c) \/ Publish(c)
      BY <1>4, <2>4 DEF Reconcile
    <3>2. groups' \subseteq Identities
      BY <2>1, <3>1
    <3>3. CASE UNCHANGED <<store, balancers>>
      BY <2>2, <3>2, <3>3
    <3>4. CASE CreateBalancer(c)
      <4>1. PICK a \in Hosts :
                balancers' = balancers \cup {[id |-> Identity(store[c].spec), addr |-> a]}
        BY <3>4 DEF CreateBalancer
      <4>2. balancers' \subseteq [id : Identities, addr : Hosts]
        BY <2>1, <4>1
      <4> QED
        BY <2>2, <3>2, <3>4, <4>2 DEF CreateBalancer
    <3>5. CASE Publish(c)
      <4>1. PICK b \in Found(c) :
                LET spec == [store[c].spec EXCEPT !.ep = ListenerEndpoint(b)] IN
                /\ ValidateUpdateCluster(spec, store[c].spec)
                /\ store' = [store EXCEPT ![c].spec = spec, ![c].ready = TRUE]
        BY <3>5 DEF Publish
      <4>2. ListenerEndpoint(b) \in Endpoints(Hosts)
        BY DEF Found, ListenerEndpoint, Endpoints
      <4>3. [store[c].spec EXCEPT !.ep = ListenerEndpoint(b)] \in ClusterSpec(Hosts)
        BY <2>1, <4>1, <4>2, PublishUpdates DEF Updated
      <4>4. [store[c] EXCEPT !.spec = [store[c].spec EXCEPT !.ep = ListenerEndpoint(b)],
                             !.ready = TRUE] \in Object
        BY <2>1, <4>3 DEF Object
      <4>5. store' = [store EXCEPT ![c] =
                [store[c] EXCEPT !.spec = [store[c].spec EXCEPT !.ep = ListenerEndpoint(b)],
                                 !.ready = TRUE]]
        BY <4>1
      <4>6. store' \in [Clusters -> Object \cup {Nil}]
        BY <4>4, <4>5
      <4> QED
        BY <2>2, <3>2, <3>5, <4>6 DEF Publish
    <3> QED
      BY <3>1, <3>3, <3>4, <3>5
  <2> QED
    BY <2>3, <2>4
<1>5. CASE ReconcileDelete(c)
  <2>1. UNCHANGED <<template, machine, tangled, created, moves>>
    BY <1>5 DEF ReconcileDelete
  <2>2. groups' \subseteq groups /\ balancers' \subseteq balancers
    BY <1>5 DEF ReconcileDelete
  <2>3. store' = store \/ store' = [store EXCEPT ![c] = Nil]
    BY <1>5 DEF ReconcileDelete
  <2>4. store' \in [Clusters -> Object \cup {Nil}]
    BY <2>3
  <2> QED
    BY <2>1, <2>2, <2>4
<1> QED
  BY <1>1, <1>2, <1>3, <1>4, <1>5

(* So do the actions on templates and machines. *)
LEMMA MachineTypes ==
    ASSUME TypeOK,
           \/ CreateTemplate \/ UpdateTemplate \/ DeleteTemplate
           \/ CreateMachine \/ UpdateMachine \/ Deploy \/ DeleteMachine
    PROVE  TypeOK'
<1> USE DEF TypeOK
<1>1. CASE CreateTemplate \/ CreateMachine
  <2>1. created' \in 0 .. MaxObjects /\ moves' \in 0 .. MaxMoves
    BY <1>1, CountTyped DEF CreateTemplate, CreateMachine
  <2> QED
    BY <1>1, <2>1 DEF CreateTemplate, CreateMachine
<1>2. CASE UpdateTemplate \/ DeleteTemplate \/ DeleteMachine
  BY <1>2 DEF UpdateTemplate, DeleteTemplate, DeleteMachine
<1>3. CASE UpdateMachine
  <2>1. machine \in Machine
    BY <1>3 DEF UpdateMachine
  <2>2. PICK spec \in MachineSpecs, pid \in {Nil, "id"} :
            machine' = [machine EXCEPT !.spec = spec, !.pid = pid]
    BY <1>3 DEF UpdateMachine
  <2>3. machine' \in Machine
    BY <2>1, <2>2 DEF Machine
  <2> QED
    BY <1>3, <2>3 DEF UpdateMachine
<1>4. CASE Deploy
  <2>1. machine \in Machine
    BY <1>4 DEF Deploy
  <2>2. machine' \in Machine
    BY <1>4, <2>1 DEF Deploy, Machine
  <2> QED
    BY <1>4, <2>2 DEF Deploy
<1> QED
  BY <1>1, <1>2, <1>3, <1>4

-----------------------------------------------------------------------------
(***************************************************************************)
(* YandexClusters and what the cloud holds for them.                       *)
(***************************************************************************)

CloudInv == Servable /\ SharingKnown /\ EndpointBacked /\ NothingLeftBehind

(* What Servable and EndpointBacked say of one object. *)
Serves(spec) ==
    /\ spec.lb.type = "ALB"
    /\ spec.lb.addr = NoHost \/ isIPv4(spec.lb.addr)
    /\ spec.ep = NoEndpoint \/ isControlPlaneEndpointValid(spec.ep)

Backed(c) ==
    store[c].ready /\ ~ store[c].deleting =>
        \/ Identity(store[c].spec) \in tangled
        \/ \E b \in Found(c) : store[c].spec.ep = ListenerEndpoint(b)

LEMMA ByObject ==
    /\ Servable <=> \A c \in Stored : Serves(store[c].spec)
    /\ EndpointBacked <=> \A c \in Stored : Backed(c)
  BY DEF Servable, Serves, EndpointBacked, Backed, ListenerEndpoint

LEMMA ByObjectNext ==
    /\ Servable' <=> \A c \in Stored' : Serves(store'[c].spec)
    /\ EndpointBacked' <=> \A c \in Stored' : Backed(c)'
  BY DEF Servable, Serves, EndpointBacked, Backed, ListenerEndpoint

(* An admitted update leaves a spec servable. *)
LEMMA StillServes ==
    ASSUME NEW old, NEW new, Updated(new, old), Serves(old)
    PROVE  Serves(new)
  BY DEF Updated, Serves

(* An endpoint keeps its balancer while nobody else has its identity. *)
LEMMA StillBacked ==
    ASSUME NEW c, Backed(c),
           Identity(store'[c].spec) = Identity(store[c].spec),
           store'[c].spec.ep = store[c].spec.ep,
           store'[c].ready /\ ~ store'[c].deleting => store[c].ready /\ ~ store[c].deleting,
           tangled \subseteq tangled',
           Identity(store[c].spec) \in tangled' \/ Found(c) \subseteq balancers'
    PROVE  Backed(c)'
<1> SUFFICES ASSUME store'[c].ready, ~ store'[c].deleting,
                    Identity(store'[c].spec) \notin tangled'
             PROVE  \E b \in Found(c)' : store'[c].spec.ep = ListenerEndpoint(b)
  BY DEF Backed
<1>1. PICK b \in Found(c) : store[c].spec.ep = ListenerEndpoint(b)
  BY DEF Backed
<1>2. b \in Found(c)'
  BY DEF Found
<1> QED
  BY <1>1, <1>2

(* Objects that are not written stay as they are. *)
LEMMA OtherObjects ==
    ASSUME TypeOK, NEW c \in Clusters, NEW obj, store' = [store EXCEPT ![c] = obj]
    PROVE  /\ store'[c] = obj
           /\ \A d \in Clusters \ {c} : store'[d] = store[d]
           /\ \A d \in Clusters \ {c} : d \in Stored' <=> d \in Stored
           /\ c \in Stored' <=> obj # Nil
           /\ Stored \subseteq Clusters /\ Stored' \subseteq Clusters
  BY DEF TypeOK, Stored

(* A write that leaves an object its identity makes no objects meet. *)
LEMMA SameIdentity ==
    ASSUME TypeOK, SharingKnown, NEW c \in Stored, NEW obj \in Object,
           store' = [store EXCEPT ![c] = obj],
           Identity(obj.spec) = Identity(store[c].spec),
           tangled \subseteq tangled'
    PROVE  /\ Stored' = Stored
           /\ \A d \in Stored : Identity(store'[d].spec) = Identity(store[d].spec)
           /\ SharingKnown'
<1>0. c \in Clusters /\ obj # Nil
  BY NilAssumption DEF Stored
<1>1. Stored' = Stored
  <2>1. /\ \A d \in Clusters \ {c} : d \in Stored' <=> d \in Stored
        /\ c \in Stored'
        /\ Stored \subseteq Clusters /\ Stored' \subseteq Clusters
    BY <1>0, OtherObjects
  <2> QED
    BY <2>1
<1>2. \A d \in Stored : Identity(store'[d].spec) = Identity(store[d].spec)
  BY <1>0, OtherObjects
<1>3. SharingKnown'
  BY <1>1, <1>2 DEF SharingKnown
<1> QED
  BY <1>1, <1>2, <1>3

(* What the cloud holds stays known when objects keep their identities and *)
(* finalizers.                                                             *)
LEMMA StillKnown ==
    ASSUME NothingLeftBehind, tangled \subseteq tangled',
           groups' \subseteq groups, balancers' \subseteq balancers,
           \A d \in Stored : store[d].fin =>
               \/ Identity(store[d].spec) \in tangled'
               \/ /\ d \in Stored' /\ store'[d].fin
                  /\ Identity(store'[d].spec) = Identity(store[d].spec)
    PROVE  NothingLeftBehind'
<1> SUFFICES ASSUME NEW id \in groups' \cup {b.id : b \in balancers'}, id \notin tangled'
             PROVE  \E d \in Stored' : store'[d].fin /\ id = Identity(store'[d].spec)
  BY DEF NothingLeftBehind
<1>1. id \in groups \cup {b.id : b \in balancers}
  OBVIOUS
<1>2. PICK d \in Stored : store[d].fin /\ id = Identity(store[d].spec)
  BY <1>1 DEF NothingLeftBehind
<1> QED
  BY <1>2

LEMMA CreateClusterStep ==
    ASSUME TypeOK, CloudInv, NEW c \in Clusters, CreateCluster(c)
    PROVE  CloudInv'
<1>1. PICK spec \in Admitted :
          /\ store' = [store EXCEPT ![c] = [spec |-> spec, fin |-> FALSE,
                                            deleting |-> FALSE, ready |-> FALSE]]
          /\ Tangle(c, spec)
  BY DEF CreateCluster
<1>2. /\ store[c] = Nil
      /\ UNCHANGED <<groups, balancers>>
      /\ spec \in ClusterSpec(Hosts) /\ ValidateCreateCluster(spec)
  BY WrittenTyped DEF CreateCluster, Admitted
<1> DEFINE obj == [spec |-> spec, fin |-> FALSE, deleting |-> FALSE, ready |-> FALSE]
<1>3. obj.spec = spec /\ ~ obj.ready
  OBVIOUS
<1>4. store' = [store EXCEPT ![c] = obj]
  BY <1>1
<1> HIDE DEF obj
<1>5. /\ store'[c] = obj
      /\ \A d \in Stored' \ {c} : d \in Stored /\ store'[d] = store[d]
      /\ \A d \in Stored : d \in Stored' /\ store'[d] = store[d]
  <2>1. c \notin Stored
    BY <1>2 DEF Stored
  <2>2. /\ store'[c] = obj
        /\ \A d \in Clusters \ {c} : store'[d] = store[d]
        /\ \A d \in Clusters \ {c} : d \in Stored' <=> d \in Stored
        /\ Stored \subseteq Clusters /\ Stored' \subseteq Clusters
    BY <1>4, OtherObjects
  <2> QED
    BY <2>1, <2>2
<1>6. tangled \subseteq tangled' /\ (Others(c, spec) # {} => Identity(spec) \in tangled')
  BY <1>1, <1>2, TangleTyped
<1>7. Servable'
  <2>1. Serves(spec)
    BY <1>2 DEF ValidateCreateCluster, Serves, ClusterSpec, Balancers, LBTypes
  <2> QED
    BY <1>3, <1>5, <2>1, ByObject, ByObjectNext DEF CloudInv
<1>8. SharingKnown'
  <2> SUFFICES ASSUME NEW d \in Stored', NEW e \in Stored', d # e,
                      Identity(store'[d].spec) = Identity(store'[e].spec)
               PROVE  Identity(store'[d].spec) \in tangled'
    BY DEF SharingKnown
  <2>1. CASE d # c /\ e # c
    BY <1>5, <1>6, <2>1 DEF CloudInv, SharingKnown
  <2>2. CASE d = c \/ e = c
    <3>1. PICK f \in Stored : f # c /\ Identity(store[f].spec) = Identity(spec)
      BY <1>3, <1>5, <2>2
    <3>2. f \in Others(c, spec)
      BY <3>1 DEF Others
    <3> QED
      BY <1>3, <1>5, <1>6, <2>2, <3>2
  <2> QED
    BY <2>1, <2>2
<1>9. EndpointBacked'
  <2> SUFFICES ASSUME NEW d \in Stored'
               PROVE  Backed(d)'
    BY ByObjectNext
  <2>1. CASE d = c
    BY <1>3, <1>5, <2>1 DEF Backed
  <2>2. CASE d # c
    <3>1. d \in Stored /\ store'[d] = store[d]
      BY <1>5, <2>2
    <3>2. Backed(d)
      BY <3>1, ByObject DEF CloudInv
    <3>3. Found(d) \subseteq balancers'
      BY <1>2 DEF Found
    <3> QED
      BY <1>6, <3>1, <3>2, <3>3, StillBacked
  <2> QED
    BY <2>1, <2>2
<1>10. NothingLeftBehind'
  BY <1>2, <1>5, <1>6, StillKnown DEF CloudInv
<1> QED
  BY <1>7, <1>8, <1>9, <1>10 DEF CloudInv

LEMMA UpdateClusterStep ==
    ASSUME TypeOK, CloudInv, NEW c \in Clusters, UpdateCluster(c)
    PROVE  CloudInv'
<1>1. PICK spec \in Edits(store[c].spec) :
          /\ ValidateUpdateCluster(spec, store[c].spec)
          /\ store' = [store EXCEPT ![c].spec = spec]
          /\ Tangle(c, spec)
  BY DEF UpdateCluster
<1>2. /\ store[c] # Nil /\ c \in Stored
      /\ UNCHANGED <<groups, balancers>>
      /\ store[c] \in Object /\ store[c].spec \in ClusterSpec(Hosts)
  BY StoredTyped DEF UpdateCluster, Stored
<1>3. Updated(spec, store[c].spec)
  BY <1>1, <1>2, EditUpdates
<1>4. spec \in ClusterSpec(Hosts)
  BY <1>3 DEF Updated
<1> DEFINE obj == [store[c] EXCEPT !.spec = spec]
<1>5. /\ obj \in Object /\ obj.spec = spec /\ obj.fin = store[c].fin
      /\ obj.ready = store[c].ready /\ obj.deleting = store[c].deleting
  BY <1>2, <1>4 DEF Object
<1>6. store' = [store EXCEPT ![c] = obj]
  BY <1>1
<1> HIDE DEF obj
<1>7. /\ store'[c] = obj
      /\ Stored' = Stored
      /\ \A d \in Stored \ {c} : store'[d] = store[d]
  <2>1. obj # Nil
    BY <1>5, NilAssumption
  <2>2. /\ store'[c] = obj /\ c \in Stored'
        /\ \A d \in Clusters \ {c} : store'[d] = store[d]
        /\ \A d \in Clusters \ {c} : d \in Stored' <=> d \in Stored
        /\ Stored \subseteq Clusters /\ Stored' \subseteq Clusters
    BY <1>6, <2>1, OtherObjects
  <2> QED
    BY <1>2, <2>2
<1>8. /\ tangled \subseteq tangled'
      /\ Others(c, spec) # {} => Identity(spec) \in tangled'
      /\ spec.folder # store[c].spec.folder
            => Identity(store[c].spec) \in tangled' /\ Identity(spec) \in tangled'
  BY <1>1, <1>2, <1>4, TangleTyped
<1>9. \/ Identity(store[c].spec) \in tangled' /\ Identity(spec) \in tangled'
      \/ Identity(spec) = Identity(store[c].spec)
  BY <1>3, <1>8 DEF Updated
<1>10. Servable'
  <2>1. Serves(store[c].spec)
    BY <1>2, ByObject DEF CloudInv
  <2>2. Serves(spec)
    BY <1>3, <2>1, StillServes
  <2> QED
    BY <1>5, <1>7, <2>2, ByObject, ByObjectNext DEF CloudInv
<1>11. SharingKnown'
  <2> SUFFICES ASSUME NEW d \in Stored', NEW e \in Stored', d # e,
                      Identity(store'[d].spec) = Identity(store'[e].spec)
               PROVE  Identity(store'[d].spec) \in tangled'
    BY DEF SharingKnown
  <2>1. CASE d # c /\ e # c
    BY <1>7, <1>8, <2>1 DEF CloudInv, SharingKnown
  <2>2. CASE d = c \/ e = c
    <3>1. PICK f \in Stored : f # c /\ Identity(store[f].spec) = Identity(spec)
      BY <1>5, <1>7, <2>2
    <3>2. f \in Others(c, spec)
      BY <3>1 DEF Others
    <3> QED
      BY <1>5, <1>7, <1>8, <2>2, <3>2
  <2> QED
    BY <2>1, <2>2
<1>12. EndpointBacked'
  <2> SUFFICES ASSUME NEW d \in Stored'
               PROVE  Backed(d)'
    BY ByObjectNext
  <2>1. d \in Stored /\ Backed(d)
    BY <1>7, ByObject DEF CloudInv
  <2>2. Found(d) \subseteq balancers'
    BY <1>2 DEF Found
  <2>3. CASE d # c
    BY <1>7, <1>8, <2>1, <2>2, <2>3, StillBacked
  <2>4. CASE d = c /\ Identity(spec) \in tangled'
    BY <1>5, <1>7, <2>4 DEF Backed
  <2>5. CASE d = c /\ Identity(spec) \notin tangled'
    <3> SUFFICES ASSUME store[c].ready, ~ store[c].deleting
                 PROVE  Backed(d)'
      BY <1>5, <1>7, <2>5 DEF Backed
    <3>1. Identity(spec) = Identity(store[c].spec) /\ Identity(spec) \notin tangled
      BY <1>8, <1>9, <2>5
    <3>2. PICK b \in Found(c) : store[c].spec.ep = ListenerEndpoint(b)
      BY <2>1, <2>5, <3>1 DEF Backed
    <3>3. store[c].spec.ep # NoEndpoint
      BY <3>2, ListenerSet
    <3>4. spec.ep = store[c].spec.ep
      BY <1>3, <3>3 DEF Updated
    <3> QED
      BY <1>5, <1>7, <1>8, <2>1, <2>2, <2>5, <3>1, <3>4, StillBacked
  <2> QED
    BY <2>3, <2>4, <2>5
<1>13. NothingLeftBehind'
  <2>1. \A d \in Stored : store[d].fin =>
            \/ Identity(store[d].spec) \in tangled'
            \/ /\ d \in Stored' /\ store'[d].fin
               /\ Identity(store'[d].spec) = Identity(store[d].spec)
    BY <1>5, <1>7, <1>9
  <2> QED
    BY <1>2, <1>8, <2>1, StillKnown DEF CloudInv
<1> QED
  BY <1>10, <1>11, <1>12, <1>13 DEF CloudInv

(* An object that keeps its spec, or goes while the cloud holds nothing    *)
(* that only it accounts for.                                              *)
LEMMA RemoveStep ==
    ASSUME TypeOK, CloudInv, NEW c \in Clusters, store[c] # Nil,
           store' = [store EXCEPT ![c] = Nil],
           UNCHANGED <<groups, balancers, tangled>>,
           \/ ~ store[c].fin
           \/ Identity(store[c].spec) \notin groups \cup {b.id : b \in balancers}
    PROVE  CloudInv'
<1>1. /\ Stored' \subseteq Stored
      /\ \A d \in Stored' : store'[d] = store[d]
      /\ \A d \in Stored \ {c} : d \in Stored' /\ store'[d] = store[d]
  <2>1. /\ \A d \in Clusters \ {c} : store'[d] = store[d]
        /\ \A d \in Clusters \ {c} : d \in Stored' <=> d \in Stored
        /\ c \notin Stored'
        /\ Stored \subseteq Clusters /\ Stored' \subseteq Clusters
    BY OtherObjects
  <2> QED
    BY <2>1
<1>2. Servable'
  BY <1>1, ByObject, ByObjectNext DEF CloudInv
<1>3. SharingKnown'
  BY <1>1 DEF CloudInv, SharingKnown
<1>4. EndpointBacked'
  <2> SUFFICES ASSUME NEW d \in Stored'
               PROVE  Backed(d)'
    BY ByObjectNext
  <2>1. Backed(d)
    BY <1>1, ByObject DEF CloudInv
  <2>2. Found(d) \subseteq balancers'
    BY DEF Found
  <2> QED
    BY <1>1, <2>1, <2>2, StillBacked
<1>5. NothingLeftBehind'
  <2> SUFFICES ASSUME NEW id \in groups \cup {b.id : b \in balancers}, id \notin tangled
               PROVE  \E d \in Stored' : store'[d].fin /\ id = Identity(store'[d].spec)
    BY DEF NothingLeftBehind
  <2>1. PICK d \in Stored : store[d].fin /\ id = Identity(store[d].spec)
    BY DEF NothingLeftBehind, CloudInv
  <2>2. d # c
    BY <2>1
  <2> QED
    BY <1>1, <2>1, <2>2
<1> QED
  BY <1>2, <1>3, <1>4, <1>5 DEF CloudInv

(* An object's finalizer or deletion timestamp is set. *)
LEMMA MarkStep ==
    ASSUME TypeOK, CloudInv, NEW c \in Clusters, store[c] # Nil, NEW obj \in Object,
           store' = [store EXCEPT ![c] = obj],
           obj.spec = store[c].spec,
           obj.ready = store[c].ready,
           store[c].deleting => obj.deleting,
           store[c].fin => obj.fin,
           UNCHANGED <<groups, balancers, tangled>>
    PROVE  CloudInv'
<1>1. c \in Stored
  BY DEF Stored
<1>2. /\ Stored' = Stored /\ SharingKnown'
      /\ \A d \in Stored : Identity(store'[d].spec) = Identity(store[d].spec)
  BY <1>1, SameIdentity DEF CloudInv
<1>3. store'[c] = obj /\ \A d \in Stored \ {c} : store'[d] = store[d]
  BY OtherObjects
<1>4. Servable'
  BY <1>2, <1>3, ByObject, ByObjectNext DEF CloudInv
<1>5. EndpointBacked'
  <2> SUFFICES ASSUME NEW d \in Stored
               PROVE  Backed(d)'
    BY <1>2, ByObjectNext
  <2>1. Backed(d)
    BY ByObject DEF CloudInv
  <2>2. Found(d) \subseteq balancers'
    BY DEF Found
  <2>3. /\ store'[d].spec = store[d].spec
        /\ store'[d].ready /\ ~ store'[d].deleting => store[d].ready /\ ~ store[d].deleting
    BY <1>3
  <2> QED
    BY <2>1, <2>2, <2>3, StillBacked
<1>6. NothingLeftBehind'
  BY <1>2, <1>3, StillKnown DEF CloudInv
<1> QED
  BY <1>2, <1>4, <1>5, <1>6 DEF CloudInv

LEMMA DeleteClusterStep ==
    ASSUME TypeOK, CloudInv, NEW c \in Clusters, DeleteCluster(c)
    PROVE  CloudInv'
<1>1. /\ store[c] # Nil
      /\ UNCHANGED <<groups, balancers, tangled>>
      /\ store[c] \in Object
  BY StoredTyped DEF DeleteCluster
<1>2. CASE store[c].fin
  <2> DEFINE obj == [store[c] EXCEPT !.deleting = TRUE]
  <2>1. /\ obj \in Object /\ obj.spec = store[c].spec /\ obj.ready = store[c].ready
        /\ obj.deleting /\ obj.fin = store[c].fin
    BY <1>1 DEF Object
  <2>2. store' = [store EXCEPT ![c] = obj]
    BY <1>2 DEF DeleteCluster
  <2> HIDE DEF obj
  <2> QED
    BY <1>1, <2>1, <2>2, MarkStep
<1>3. CASE ~ store[c].fin
  <2>1. store' = [store EXCEPT ![c] = Nil]
    BY <1>3 DEF DeleteCluster
  <2> QED
    BY <1>1, <1>3, <2>1, RemoveStep
<1> QED
  BY <1>2, <1>3

(* A pass of an object with the finalizer adds to the cloud only what that *)
(* object accounts for.                                                    *)
LEMMA MakeStep ==
    ASSUME TypeOK, CloudInv, NEW c \in Clusters, store[c] # Nil, store[c].fin,
           UNCHANGED <<store, tangled>>,
           groups' \subseteq groups \cup {Identity(store[c].spec)},
           balancers \subseteq balancers',
           \A b \in balancers' : b \in balancers \/ b.id = Identity(store[c].spec)
    PROVE  CloudInv'
<1>1. Stored' = Stored /\ c \in Stored
  BY DEF Stored
<1>2. Servable'
  BY <1>1, ByObject, ByObjectNext DEF CloudInv
<1>3. SharingKnown'
  BY <1>1 DEF CloudInv, SharingKnown
<1>4. EndpointBacked'
  <2> SUFFICES ASSUME NEW d \in Stored
               PROVE  Backed(d)'
    BY <1>1, ByObjectNext
  <2>1. Backed(d)
    BY ByObject DEF CloudInv
  <2>2. Found(d) \subseteq balancers'
    BY DEF Found
  <2> QED
    BY <2>1, <2>2, StillBacked
<1>5. NothingLeftBehind'
  <2> SUFFICES ASSUME NEW id \in groups' \cup {b.id : b \in balancers'}, id \notin tangled
               PROVE  \E d \in Stored : store[d].fin /\ id = Identity(store[d].spec)
    BY <1>1 DEF NothingLeftBehind
  <2>1. CASE id = Identity(store[c].spec)
    BY <1>1, <2>1
  <2>2. CASE id # Identity(store[c].spec)
    <3>1. id \in groups \cup {b.id : b \in balancers}
      BY <2>2
    <3> QED
      BY <3>1 DEF NothingLeftBehind, CloudInv
  <2> QED
    BY <2>1, <2>2
<1> QED
  BY <1>2, <1>3, <1>4, <1>5 DEF CloudInv

LEMMA PublishStep ==
    ASSUME TypeOK, CloudInv, NEW c \in Clusters, store[c] # Nil, store[c].fin, Publish(c),
           tangled' = tangled, groups' = groups \cup {Identity(store[c].spec)}
    PROVE  CloudInv'
<1>1. PICK b \in Found(c) :
          LET spec == [store[c].spec EXCEPT !.ep = ListenerEndpoint(b)] IN
          /\ ValidateUpdateCluster(spec, store[c].spec)
          /\ store' = [store EXCEPT ![c].spec = spec, ![c].ready = TRUE]
  BY DEF Publish
<1> DEFINE spec == [store[c].spec EXCEPT !.ep = ListenerEndpoint(b)]
           obj  == [store[c] EXCEPT !.spec = spec, !.ready = TRUE]
<1>2. c \in Stored /\ store[c] \in Object /\ store[c].spec \in ClusterSpec(Hosts)
  BY StoredTyped DEF Stored
<1>3. ListenerEndpoint(b) \in Endpoints(Hosts)
  BY DEF TypeOK, Found, ListenerEndpoint, Endpoints
<1>4. Updated(spec, store[c].spec) /\ Identity(spec) = Identity(store[c].spec)
  BY <1>1, <1>2, <1>3, PublishUpdates
<1>5. spec.ep = ListenerEndpoint(b)
  BY <1>2 DEF ClusterSpec
<1>6. spec \in ClusterSpec(Hosts)
  BY <1>4 DEF Updated
<1>7. store' = [store EXCEPT ![c] = obj]
  BY <1>1
<1> HIDE DEF spec
<1>8. /\ obj \in Object /\ obj.spec = spec /\ obj.fin = store[c].fin
      /\ obj.deleting = store[c].deleting
  BY <1>2, <1>6 DEF Object
<1> HIDE DEF obj
<1>9. /\ Stored' = Stored /\ SharingKnown'
      /\ \A d \in Stored : Identity(store'[d].spec) = Identity(store[d].spec)
  BY <1>2, <1>4, <1>7, <1>8, SameIdentity DEF CloudInv
<1>10. store'[c] = obj /\ \A d \in Stored \ {c} : store'[d] = store[d]
  BY <1>7, OtherObjects
<1>11. balancers' = balancers
  BY DEF Publish
<1>12. Servable'
  <2>1. Serves(spec)
    BY <1>2, <1>4, StillServes, ByObject DEF CloudInv
  <2> QED
    BY <1>8, <1>9, <1>10, <2>1, ByObject, ByObjectNext DEF CloudInv
<1>13. EndpointBacked'
  <2> SUFFICES ASSUME NEW d \in Stored
               PROVE  Backed(d)'
    BY <1>9, ByObjectNext
  <2>1. CASE d = c
    <3>1. b \in Found(c)'
      BY <1>2, <1>9, <1>11 DEF Found
    <3>2. store'[c].spec.ep = ListenerEndpoint(b)
      BY <1>5, <1>8, <1>10
    <3> QED
      BY <2>1, <3>1, <3>2 DEF Backed
  <2>2. CASE d # c
    <3>1. Backed(d)
      BY ByObject DEF CloudInv
    <3>2. Found(d) \subseteq balancers'
      BY <1>11 DEF Found
    <3> QED
      BY <1>10, <2>2, <3>1, <3>2, StillBacked
  <2> QED
    BY <2>1, <2>2
<1>14. NothingLeftBehind'
  <2> SUFFICES ASSUME NEW id \in groups' \cup {a.id : a \in balancers}, id \notin tangled
               PROVE  \E d \in Stored : store'[d].fin /\ id = Identity(store'[d].spec)
    BY <1>9, <1>11 DEF NothingLeftBehind
  <2>1. CASE id = Identity(store[c].spec)
    BY <1>2, <1>8, <1>9, <1>10, <2>1
  <2>2. CASE id # Identity(store[c].spec)
    <3>1. id \in groups \cup {a.id : a \in balancers}
      BY <2>2
    <3>2. PICK d \in Stored : store[d].fin /\ id = Identity(store[d].spec)
      BY <3>1 DEF NothingLeftBehind, CloudInv
    <3>3. store'[d].fin
      BY <1>8, <1>10, <3>2
    <3> QED
      BY <1>9, <3>2, <3>3
  <2> QED
    BY <2>1, <2>2
<1> QED
  BY <1>9, <1>12, <1>13, <1>14 DEF CloudInv

LEMMA ReconcileStep ==
    ASSUME TypeOK, CloudInv, NEW c \in Clusters, Reconcile(c)
    PROVE  CloudInv'
<1>1. store[c] # Nil /\ tangled' = tangled /\ store[c] \in Object
  BY StoredTyped DEF Reconcile
<1>2. CASE AddFinalizer(c)
  <2> DEFINE obj == [store[c] EXCEPT !.fin = TRUE]
  <2>1. /\ obj \in Object /\ obj.spec = store[c].spec /\ obj.ready = store[c].ready
        /\ obj.deleting = store[c].deleting /\ obj.fin
    BY <1>1 DEF Object
  <2>2. store' = [store EXCEPT ![c] = obj] /\ UNCHANGED <<groups, balancers>>
    BY <1>2 DEF AddFinalizer
  <2> HIDE DEF obj
  <2> QED
    BY <1>1, <2>1, <2>2, MarkStep
<1>3. CASE ~ AddFinalizer(c)
  <2>1. /\ store[c].fin
        /\ groups' = groups \cup {Identity(store[c].spec)}
        /\ UNCHANGED <<store, balancers>> \/ CreateBalancer(c) \/ Publish(c)
    BY <1>3 DEF Reconcile
  <2>2. CASE UNCHANGED <<store, balancers>>
    BY <1>1, <2>1, <2>2, MakeStep
  <2>3. CASE CreateBalancer(c)
    <3>1. PICK a : balancers' = balancers \cup {[id |-> Identity(store[c].spec), addr |-> a]}
      BY <2>3 DEF CreateBalancer
    <3>2. \A b \in balancers' : b \in balancers \/ b.id = Identity(store[c].spec)
      BY <3>1
    <3>3. balancers \subseteq balancers' /\ store' = store
      BY <2>3, <3>1 DEF CreateBalancer
    <3> QED
      BY <1>1, <2>1, <3>2, <3>3, MakeStep
  <2>4. CASE Publish(c)
    BY <1>1, <2>1, <2>4, PublishStep
  <2> QED
    BY <2>1, <2>2, <2>3, <2>4
<1> QED
  BY <1>2, <1>3

LEMMA ReconcileDeleteStep ==
    ASSUME TypeOK, CloudInv, NEW c \in Clusters, ReconcileDelete(c)
    PROVE  CloudInv'
<1>1. /\ store[c] # Nil /\ store[c].deleting /\ c \in Stored
      /\ tangled' = tangled
  BY DEF ReconcileDelete, Stored
<1>2. CASE store' # store
  <2>1. /\ store' = [store EXCEPT ![c] = Nil]
        /\ UNCHANGED <<groups, balancers>>
        /\ Found(c) = {} /\ Identity(store[c].spec) \notin groups
    BY <1>2 DEF ReconcileDelete
  <2>2. Identity(store[c].spec) \notin {b.id : b \in balancers}
    BY <2>1 DEF Found
  <2> QED
    BY <1>1, <2>1, <2>2, RemoveStep
<1>3. CASE store' = store
  <2>1. /\ groups' \subseteq groups
        /\ balancers' = balancers \/ balancers' = balancers \ Found(c)
    BY <1>3 DEF ReconcileDelete
  <2>2. Stored' = Stored
    BY <1>3 DEF Stored
  <2>3. Servable'
    BY <1>3, <2>2, ByObject, ByObjectNext DEF CloudInv
  <2>4. SharingKnown'
    BY <1>1, <1>3, <2>2 DEF CloudInv, SharingKnown
  <2>5. EndpointBacked'
    <3> SUFFICES ASSUME NEW d \in Stored
                 PROVE  Backed(d)'
      BY <2>2, ByObjectNext
    <3>1. CASE d = c
      BY <1>1, <1>3, <3>1 DEF Backed
    <3>2. CASE d # c
      <4>1. Backed(d)
        BY ByObject DEF CloudInv
      <4>2. CASE Identity(store[d].spec) = Identity(store[c].spec)
        <5>1. Identity(store[d].spec) \in tangled
          BY <1>1, <3>2, <4>2 DEF CloudInv, SharingKnown
        <5> QED
          BY <1>1, <1>3, <4>1, <5>1, StillBacked
      <4>3. CASE Identity(store[d].spec) # Identity(store[c].spec)
        <5>1. Found(d) \subseteq balancers'
          BY <2>1, <4>3 DEF Found
        <5> QED
          BY <1>1, <1>3, <4>1, <5>1, StillBacked
      <4> QED
        BY <4>2, <4>3
    <3> QED
      BY <3>1, <3>2
  <2>6. NothingLeftBehind'
    <3>1. balancers' \subseteq balancers
      BY <2>1
    <3> QED
      BY <1>1, <1>3, <2>1, <2>2, <3>1, StillKnown DEF CloudInv
  <2> QED
    BY <2>3, <2>4, <2>5, <2>6 DEF CloudInv
<1> QED
  BY <1>2, <1>3

-----------------------------------------------------------------------------
(***************************************************************************)
(* Templates and machines.                                                 *)
(***************************************************************************)

CloneInv == TemplateNamed /\ ClonesDeployable

LEMMA TemplateStep ==
    ASSUME TypeOK, CloneInv, CreateTemplate \/ UpdateTemplate \/ DeleteTemplate
    PROVE  CloneInv'
<1>1. machine' = machine
  BY DEF CreateTemplate, UpdateTemplate, DeleteTemplate
<1>2. template' # Nil => nameRegex(template'.name) /\ template'.pid = Nil
  <2>1. CASE CreateTemplate
    BY <2>1 DEF CreateTemplate, ValidateCreateTemplate
  <2>2. CASE UpdateTemplate
    BY <2>2 DEF UpdateTemplate, ValidateUpdateTemplate, CloneInv, TemplateNamed,
                ClonesDeployable
  <2>3. CASE DeleteTemplate
    BY <2>3 DEF DeleteTemplate
  <2> QED
    BY <2>1, <2>2, <2>3
<1> QED
  BY <1>1, <1>2 DEF CloneInv, TemplateNamed, ClonesDeployable

LEMMA MachineStep ==
    ASSUME TypeOK, CloneInv, CreateMachine \/ UpdateMachine \/ Deploy \/ DeleteMachine
    PROVE  CloneInv'
<1>1. template' = template
  BY DEF CreateMachine, UpdateMachine, Deploy, DeleteMachine
<1>2. TemplateNamed' /\ (template' # Nil => template'.pid = Nil)
  BY <1>1 DEF CloneInv, TemplateNamed, ClonesDeployable
<1>3. machine' # Nil /\ machine'.cloned => CloudName(machine'.name)
  <2>1. CASE CreateMachine
    <3>1. machine'.cloned => template # Nil /\ machine'.name = CloneName(template.name)
      BY <2>1 DEF CreateMachine
    <3>2. template # Nil => template.name \in Seq(STRING) /\ nameRegex(template.name)
      BY NamesAssumption DEF TypeOK, Template, CloneInv, TemplateNamed
    <3> QED
      BY <3>1, <3>2, CloneFits
  <2>2. CASE UpdateMachine
    <3>1. machine \in Machine
      BY <2>2 DEF UpdateMachine, TypeOK
    <3>2. PICK spec \in MachineSpecs, pid \in {Nil, "id"} :
              LET m == [machine EXCEPT !.spec = spec, !.pid = pid] IN
              ValidateUpdateMachine(m, machine) /\ machine' = m
      BY <2>2 DEF UpdateMachine
    <3>3. machine'.name = machine.name /\ machine'.cloned = machine.cloned
      BY <3>1, <3>2 DEF Machine
    <3> QED
      BY <2>2, <3>3 DEF UpdateMachine, CloneInv, ClonesDeployable
  <2>3. CASE Deploy
    <3>1. machine \in Machine
      BY <2>3 DEF Deploy, TypeOK
    <3>2. machine'.name = machine.name
      BY <2>3, <3>1 DEF Deploy, Machine
    <3> QED
      BY <2>3, <3>2 DEF Deploy
  <2>4. CASE DeleteMachine
    BY <2>4 DEF DeleteMachine
  <2> QED
    BY <2>1, <2>2, <2>3, <2>4
<1> QED
  BY <1>2, <1>3 DEF CloneInv, ClonesDeployable

-----------------------------------------------------------------------------
(***************************************************************************)
(* The theorems.                                                           *)
(***************************************************************************)
LEMMA Split == FleetInv <=> TypeOK /\ CloudInv /\ CloneInv
  BY DEF FleetInv, CloudInv, CloneInv

LEMMA SplitNext == FleetInv' <=> TypeOK' /\ CloudInv' /\ CloneInv'
  BY DEF FleetInv, CloudInv, CloneInv

LEMMA InitStep == Init => FleetInv
<1> SUFFICES ASSUME Init PROVE FleetInv
  OBVIOUS
<1>1. TypeOK
  BY FleetAssumption DEF Init, TypeOK
<1>2. Stored = {}
  BY DEF Init, Stored
<1>3. CloudInv
  BY <1>2 DEF Init, CloudInv, Servable, SharingKnown, EndpointBacked, NothingLeftBehind
<1>4. CloneInv
  BY DEF Init, CloneInv, TemplateNamed, ClonesDeployable
<1> QED
  BY <1>1, <1>3, <1>4, Split

(* What an action does not touch keeps its invariant. *)
LEMMA CloudStays ==
    ASSUME CloudInv, UNCHANGED <<store, groups, balancers, tangled>>
    PROVE  CloudInv'
  BY DEF CloudInv, Servable, SharingKnown, EndpointBacked, NothingLeftBehind, Stored, Found

LEMMA ClonesStay ==
    ASSUME CloneInv, UNCHANGED <<template, machine>>
    PROVE  CloneInv'
  BY DEF CloneInv, TemplateNamed, ClonesDeployable

LEMMA NextStep == FleetInv /\ [Next]_vars => FleetInv'
<1> SUFFICES ASSUME FleetInv, [Next]_vars
             PROVE  FleetInv'
  OBVIOUS
<1>0. TypeOK /\ CloudInv /\ CloneInv
  BY Split
<1>1. ASSUME NEW c \in Clusters,
             \/ CreateCluster(c) \/ UpdateCluster(c) \/ DeleteCluster(c)
             \/ Reconcile(c) \/ ReconcileDelete(c)
      PROVE  FleetInv'
  <2>1. TypeOK'
    BY <1>0, <1>1, ClusterTypes
  <2>2. CloudInv'
    BY <1>0, <1>1, CreateClusterStep, UpdateClusterStep, DeleteClusterStep,
       ReconcileStep, ReconcileDeleteStep
  <2>3. UNCHANGED <<template, machine>>
    BY <1>1 DEF CreateCluster, UpdateCluster, DeleteCluster, Reconcile, ReconcileDelete
  <2>4. CloneInv'
    BY <1>0, <2>3, ClonesStay
  <2> QED
    BY <2>1, <2>2, <2>4, SplitNext
<1>2. CASE \/ CreateTemplate \/ UpdateTemplate \/ DeleteTemplate
           \/ CreateMachine \/ UpdateMachine \/ Deploy \/ DeleteMachine
  <2>1. TypeOK'
    BY <1>0, <1>2, MachineTypes
  <2>2. UNCHANGED <<store, groups, balancers, tangled>>
    BY <1>2 DEF CreateTemplate, UpdateTemplate, DeleteTemplate, CreateMachine,
                UpdateMachine, Deploy, DeleteMachine
  <2>3. CloudInv'
    BY <1>0, <2>2, CloudStays
  <2>4. CloneInv'
    BY <1>0, <1>2, TemplateStep, MachineStep
  <2> QED
    BY <2>1, <2>3, <2>4, SplitNext
<1>3. CASE UNCHANGED vars
  <2>1. TypeOK'
    BY <1>0, <1>3 DEF TypeOK, vars
  <2>2. CloudInv' /\ CloneInv'
    BY <1>0, <1>3, CloudStays, ClonesStay DEF vars
  <2> QED
    BY <2>1, <2>2, SplitNext
<1> QED
  BY <1>1, <1>2, <1>3 DEF Next

(* What the store, the cloud and the users' objects always have in common. *)
THEOREM Invariance == Spec => []FleetInv
<1> QED
  BY InitStep, NextStep, PTL DEF Spec

(* Objects, groups, balancers and the history have their types.            *)
THEOREM TypeCorrect == Spec => []TypeOK
<1>1. FleetInv => TypeOK
  BY DEF FleetInv
<1> QED
  BY <1>1, Invariance, PTL

(* The create and update webhooks together let through only YandexClusters *)
(* that the reconciler can serve, although updates check neither the type  *)
(* of the balancer nor its listener.                                       *)
THEOREM AlwaysServable == Spec => []Servable
<1>1. FleetInv => Servable
  BY DEF FleetInv
<1> QED
  BY <1>1, Invariance, PTL

(* GetLBName: a generated name fits the cloud's limit, whether the name of *)
(* the Cluster is kept or hashed, and is accepted after a first letter.    *)
THEOREM NamesFit == Spec => []BalancerNameFits
<1>1. TypeOK => BalancerNameFits
  <2> SUFFICES ASSUME TypeOK, NEW c \in Stored, store[c].spec.lb.name = << >>
               PROVE  LET name == Identity(store[c].spec).name IN
                      /\ Len(name.text) <= 63
                      /\ store[c].spec.name[1] \in Letters => CloudName(name.text)
    BY DEF BalancerNameFits
  <2> DEFINE spec == store[c].spec
  <2>1. spec \in ClusterSpec(Hosts)
    BY StoredTyped DEF Stored
  <2>2. spec.name \in Seq(STRING) \ {<< >>}
    BY <2>1, SpecFields, NamesAssumption
  <2>3. Identity(spec).name = generateName(spec.name)
    BY <2>1, SpecFields DEF Identity, LBName, GetLBName
  <2> QED
    BY <2>2, <2>3, GeneratedFits
<1> QED
  BY <1>1, TypeCorrect, PTL

(* Two YandexClusters of one folder get one generated balancer name only   *)
(* when their Clusters' names are the same once cleared.                   *)
THEOREM NamesApart == Spec => []DistinctClustersApart
<1>1. TypeOK => DistinctClustersApart
  <2> SUFFICES ASSUME TypeOK, NEW c \in Stored, NEW d \in Stored,
                      store[c].spec.lb.name = << >>, store[d].spec.lb.name = << >>,
                      Identity(store[c].spec) = Identity(store[d].spec)
               PROVE  clearString(store[c].spec.name) = clearString(store[d].spec.name)
    BY DEF DistinctClustersApart
  <2>1. store[c].spec \in ClusterSpec(Hosts) /\ store[d].spec \in ClusterSpec(Hosts)
    BY StoredTyped DEF Stored
  <2>2. /\ store[c].spec.name \in Seq(STRING) \ {<< >>}
        /\ store[d].spec.name \in Seq(STRING) \ {<< >>}
    BY <2>1, SpecFields, NamesAssumption
  <2>3. /\ Identity(store[c].spec).name = generateName(store[c].spec.name)
        /\ Identity(store[d].spec).name = generateName(store[d].spec.name)
    BY <2>1, SpecFields DEF Identity, LBName, GetLBName
  <2> QED
    BY <2>2, <2>3, GeneratedApart
<1> QED
  BY <1>1, TypeCorrect, PTL

(* A ready YandexCluster keeps the balancer that its endpoint names: no    *)
(* other object's deletion takes it away unless they shared an identity.   *)
THEOREM AlwaysBacked == Spec => []EndpointBacked
<1>1. FleetInv => EndpointBacked
  BY DEF FleetInv
<1> QED
  BY <1>1, Invariance, PTL

(* Deletion leaves nothing of a YandexCluster in the cloud, unless its     *)
(* identity was shared or left by a change of folder.                      *)
THEOREM CloudAccounted == Spec => []NothingLeftBehind
<1>1. FleetInv => NothingLeftBehind
  BY DEF FleetInv
<1> QED
  BY <1>1, Invariance, PTL

(* The machine template webhook admits only templates whose clones can be  *)
(* deployed.                                                               *)
THEOREM ClonesFit == Spec => []ClonesDeployable
<1>1. FleetInv => ClonesDeployable
  BY DEF FleetInv
<1> QED
  BY <1>1, Invariance, PTL
=============================================================================
