------------------------------- MODULE Names -------------------------------
(***************************************************************************)
(* The names of cloud resources.  A name is a sequence of characters.  The *)
(* 16 hexadecimal digits of a hash are 16 zeros in the text and the hashed *)
(* name in the field sum: two hashes are equal when the names are.         *)
(***************************************************************************)
EXTENDS Naturals, Sequences

Letters == {"a", "b", "c", "e", "i", "l", "p", "r", "s", "t", "u"}
Digits  == {"0", "1"}
Hyphen  == "-"
Allowed == Letters \cup Digits \cup {Hyphen}

(* The regular expression [a-z]([-a-z0-9]{0,inner}[a-z0-9])? *)
Matches(name, inner) ==
    /\ name # << >>
    /\ name[1] \in Letters
    /\ \A i \in DOMAIN name : name[i] \in Allowed
    /\ name[Len(name)] # Hyphen
    /\ Len(name) <= inner + 2

(* What the cloud accepts as the name of an instance or a balancer. *)
CloudName(name) == Matches(name, 61)

(* Mutant: the limit of the cloud, without room for what a clone adds. *)
NameRegexLoose(name) == Matches(name, 61)

nameRegex(name) == Matches(name, 55)

(* The Cluster API names a clone after its template and 5 characters. *)
CloneName(template) == template \o <<Hyphen, "0", "0", "0", "0", "0">>

-----------------------------------------------------------------------------
maxNameLength == 64

Suffix == <<Hyphen, "a", "p", "i">>
Hashed == <<"c", "l", "u", "s", "t", "e", "r", Hyphen>> \o [i \in 1 .. 16 |-> "0"]
              \o Suffix

Plain(text) == [text |-> text, sum |-> << >>]

(* cleared[i] is what remains of the first i characters. *)
clearString(name) ==
    LET cleared[i \in 0 .. Len(name)] ==
            IF i = 0 THEN << >>
            ELSE IF name[i] \in Allowed THEN Append(cleared[i - 1], name[i])
            ELSE cleared[i - 1]
    IN  cleared[Len(name)]

(* Mutants: one character too many; a long name is cut, not hashed. *)
OneTooLong(cluster) ==
    LET name == clearString(cluster) \o Suffix IN
    IF Len(name) <= maxNameLength
    THEN Plain(name)
    ELSE [text |-> Hashed, sum |-> cluster]

CutShort(cluster) ==
    LET name == clearString(cluster) \o Suffix IN
    IF Len(name) < maxNameLength
    THEN Plain(name)
    ELSE Plain(SubSeq(clearString(cluster), 1, 59) \o Suffix)

generateName(cluster) ==
    LET name == clearString(cluster) \o Suffix IN
    IF Len(name) < maxNameLength
    THEN Plain(name)
    ELSE [text |-> Hashed, sum |-> cluster]

(* The name the user gave, or one made from the name of the Cluster. *)
GetLBName(given, cluster) ==
    IF given = << >> THEN generateName(cluster) ELSE Plain(given)
=============================================================================
