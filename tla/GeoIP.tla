-------------------------------- MODULE GeoIP --------------------------------
(***************************************************************************)
(* tools/gen-geodata and internal/geoip: the records of the registries'     *)
(* delegation files become a sorted, merged table of address ranges, and    *)
(* Country finds the range of an address by a binary search.  An address of *)
(* family typ is a number of Width[typ] bits (32, or the upper 64 of an     *)
(* IPv6 address); the packed bytes of the table are abstracted to its       *)
(* records.                                                                 *)
(***************************************************************************)
EXTENDS Integers, Sequences, FiniteSets

Families == {"ipv4", "ipv6"}

CONSTANT Width      \* width of the addresses of each family

ASSUME GeoAssumption == Width \in [Families -> Nat]

\* 1 << w.
Power(w) ==
    LET p[n \in 0 .. w] == IF n = 0 THEN 1 ELSE 2 * p[n - 1]
    IN  p[w]

Space(typ) == Power(Width[typ])
Addresses(typ) == 0 .. Space(typ) - 1
NoCountry == ""

\* A line of a delegation file.  The value is a number of addresses for IPv4,
\* and the length of a prefix for IPv6.
RecordType == [cc : STRING, typ : Families \union {"asn"}, start : Nat, value : Nat,
               status : STRING]

Kept(rec, typ) ==
    /\ rec.typ = typ
    /\ rec.status \in {"allocated", "assigned"}
    /\ rec.start \in Addresses(typ)
    /\ rec.value > 0
    /\ typ = "ipv4" => rec.value < Space(typ)
    /\ typ = "ipv6" => rec.value <= Width[typ]

Count(rec) == IF rec.typ = "ipv6" THEN Power(Width["ipv6"] - rec.value) ELSE rec.value

\* The sum wraps like the code's unsigned integer.
RangeOf(rec) ==
    [start |-> rec.start, end |-> (rec.start + Count(rec) - 1) % Space(rec.typ), cc |-> rec.cc]

\* Each range once, by the start; sort.Slice leaves equal starts in any order.
Sorted(ranges) ==
    CHOOSE s \in [1 .. Cardinality(ranges) -> ranges] :
        /\ \A i, j \in DOMAIN s : i < j => s[i].start <= s[j].start
        /\ \A r \in ranges : \E i \in DOMAIN s : s[i] = r

\* mergeV4, mergeV6: a range that continues the last one of the same country.
Absorbs(typ, last, r) == r.cc = last.cc /\ r.start <= (last.end + 1) % Space(typ)
\* Mutant: the later range always decides the end.
ExtendedAlways(last, r) == [last EXCEPT !.end = r.end]
Extended(last, r) == [last EXCEPT !.end = IF r.end > last.end THEN r.end ELSE last.end]
Merged(typ, out, r) ==
    IF out # <<>> /\ Absorbs(typ, out[Len(out)], r)
    THEN [out EXCEPT ![Len(out)] = Extended(@, r)]
    ELSE Append(out, r)
Merge(typ, ranges) ==
    LET out[n \in 0 .. Len(ranges)] ==
            IF n = 0 THEN <<>> ELSE Merged(typ, out[n - 1], ranges[n])
    IN  out[Len(ranges)]

\* Country codes are numbered in the order of their first use.
Interned(codes, cc) ==
    IF \E k \in DOMAIN codes : codes[k] = cc THEN codes ELSE Append(codes, cc)
Intern(codes, ranges) ==
    LET known[n \in 0 .. Len(ranges)] ==
            IF n = 0 THEN codes ELSE Interned(known[n - 1], ranges[n].cc)
    IN  known[Len(ranges)]
Coded(codes, ranges) ==
    [i \in DOMAIN ranges |-> [start |-> ranges[i].start, end |-> ranges[i].end,
        cc |-> (CHOOSE k \in DOMAIN codes : codes[k] = ranges[i].cc) - 1]]

\* The ranges of a family as they enter the table.
Ranges(records, typ) == Merge(typ, Sorted({RangeOf(rec) : rec \in {q \in records : Kept(q, typ)}}))
buildGeoIP(records) ==
    LET v4 == Ranges(records, "ipv4")
        v6 == Ranges(records, "ipv6")
        codes == Intern(Intern(<<>>, v4), v6)
    IN  [codes |-> codes, v4 |-> Coded(codes, v4), v6 |-> Coded(codes, v6)]

\* sort.Search: the smallest index whose range ends at or after the address,
\* if the ends ascend; counted from 1.
Search(ranges, addr) ==
    LET find[span \in (0 .. Len(ranges)) \X (0 .. Len(ranges))] ==
            LET i == span[1]
                j == span[2]
                h == (i + j) \div 2
            IN  IF i >= j THEN i
                ELSE IF ranges[h + 1].end >= addr THEN find[<<i, h>>] ELSE find[<<h + 1, j>>]
    IN  find[<<0, Len(ranges)>>] + 1

Country(table, typ, addr) ==
    LET ranges == IF typ = "ipv4" THEN table.v4 ELSE table.v6
        i == Search(ranges, addr)
    IN  IF i <= Len(ranges) /\ ranges[i].start <= addr THEN table.codes[ranges[i].cc + 1]
        ELSE NoCountry
=============================================================================
