----------------------------- MODULE ScsiProofs -----------------------------
(***************************************************************************)
(* Scsibench's searches (MinSearch), for any size of a track, any number   *)
(* of tracks and cylinders, and its trace player (ScsiTrace), for any      *)
(* trace and any failures of the device.                                   *)
(***************************************************************************)
EXTENDS MinSearch, ScsiTrace, TLAPS

(***************************************************************************)
(* Revolutions                                                             *)
(***************************************************************************)
(* Division by L, and that it is the only one. *)
LEMMA Division ==
    ASSUME NEW L \in Nat \ {0}, NEW x \in Int
    PROVE  x \div L \in Int /\ x % L \in 0..L - 1 /\ x = L * (x \div L) + (x % L)
  OBVIOUS

LEMMA DivisionUnique ==
    ASSUME NEW L \in Nat \ {0}, NEW q \in Int, NEW s \in 0..L - 1
    PROVE  (L * q + s) % L = s /\ (L * q + s) \div L = q
<1> DEFINE y == L * q + s
<1>0. y \in Int /\ y = L * q + s
  OBVIOUS
<1> HIDE DEF y
<1>1. y \div L \in Int /\ y % L \in 0..L - 1 /\ y = L * (y \div L) + (y % L)
  BY <1>0, Division
<1> DEFINE k == q - y \div L
<1>2. L * k = (y % L) - s
  BY <1>0, <1>1
<1>3. k \in Int
  BY <1>1
<1> HIDE DEF k
<1>4. k >= 1 => L * k >= L
  <2>1. k >= 1 => L * (k - 1) >= 0
    BY <1>3
  <2>2. L * (k - 1) = L * k - L
    BY <1>3
  <2>3. L * k \in Int
    BY <1>3
  <2> QED BY <2>1, <2>2, <2>3
<1>5. k <= -1 => L * k <= -L
  <2>1. k <= -1 => L * (-1 - k) >= 0
    BY <1>3
  <2>2. L * (-1 - k) = -L - L * k
    BY <1>3
  <2>3. L * k \in Int
    BY <1>3
  <2> QED BY <2>1, <2>2, <2>3
<1>6. k = 0
  BY <1>1, <1>2, <1>3, <1>4, <1>5
<1> QED BY <1>0, <1>1, <1>2, <1>3, <1>6 DEF k, y

(* On from a block whose rotation is known. *)
LEMMA RotatesOn ==
    ASSUME NEW L \in Nat \ {0}, NEW x \in Int, NEW d \in Nat
    PROVE  /\ d < L - (x % L) => (x + d) % L = (x % L) + d
           /\ (x + (L - (x % L))) % L = 0
<1> DEFINE r == x % L
           k == x \div L
<1>1. k \in Int /\ r \in 0..L - 1 /\ x = L * k + r
  BY Division
<1> HIDE DEF r, k
<1>2. d < L - r => (L * k + (r + d)) % L = r + d
  BY <1>1, DivisionUnique
<1>3. x + d = L * k + (r + d)
  <2>1. L * k \in Int
    BY <1>1
  <2> QED BY <1>1, <2>1
<1>4. x + (L - r) = L * (k + 1) + 0
  <2>1. L * (k + 1) = L * k + L /\ L * k \in Int
    BY <1>1
  <2> QED BY <1>1, <2>1
<1>5. (L * (k + 1) + 0) % L = 0
  BY <1>1, DivisionUnique
<1> QED BY <1>2, <1>3, <1>4, <1>5 DEF r

(* If the rotation does not grow from a block to a later one, it is 0      *)
(* somewhere between.                                                      *)
LEMMA Falls ==
    ASSUME NEW L \in Nat \ {0}, NEW x \in Int, NEW d \in Nat \ {0}, (x + d) % L <= x % L
    PROVE  \E e \in 0..d : (x + e) % L = 0
<1> DEFINE r == x % L
           f == (x + d) % L
<1>1. r \in 0..L - 1 /\ f \in 0..L - 1 /\ f <= r
  BY Division
<1>2. (d < L - r => f = r + d) /\ (x + (L - r)) % L = 0
  BY RotatesOn
<1> HIDE DEF r, f
<1>3. L - r \in 0..d
  BY <1>1, <1>2
<1> QED BY <1>2, <1>3

(* k revolutions later, but for one block. *)
LEMMA WholeRevolutions ==
    ASSUME NEW L \in Nat \ {0}, NEW k \in Nat \ {0}, NEW x \in Int, x % L # 0
    PROVE  /\ k * L \in Nat /\ k * L >= L
           /\ L > 1
           /\ (x + (k * L - 1)) % L = (x % L) - 1
<1> DEFINE r == x % L
           j == x \div L
<1>1. j \in Int /\ r \in 0..L - 1 /\ x = L * j + r /\ r # 0
  BY Division
<1> HIDE DEF r, j
<1>2. k * L \in Nat /\ k * L >= L
  <2>1. (k - 1) * L >= 0
    OBVIOUS
  <2>2. (k - 1) * L = k * L - L
    OBVIOUS
  <2> QED BY <2>1, <2>2
<1>3. (L * (j + k) + (r - 1)) % L = r - 1
  BY <1>1, DivisionUnique
<1>4. x + (k * L - 1) = L * (j + k) + (r - 1)
  <2>1. L * (j + k) = L * j + k * L /\ L * j \in Int
    BY <1>1
  <2> QED BY <1>1, <1>2, <2>1
<1> QED BY <1>1, <1>2, <1>3, <1>4 DEF r

(***************************************************************************)
(* The halving of MinSearch never loses a block reached soonest.           *)
(*                                                                         *)
(* BestBracketed alone is not inductive: of the half that is kept nothing  *)
(* says that it holds such a block.  What the code keeps up (Bracket) is   *)
(* that the end of the range is not later than its start: between the two  *)
(* the times, which only rise along a track, have to fall, and they fall   *)
(* to a block reached soonest.  It holds for any number of tracks.         *)
(***************************************************************************)
SearchTypes ==
    /\ track \in Nat \ {0} /\ tracks \in Nat \ {0}
    /\ best \in [Cylinders -> 0..(track - 1)]
    /\ cyl_size \in [Cylinders -> Int]
    /\ logical_size \in {cyl_num * cylinder, (cyl_num - 1) * cylinder}
    /\ 2 * (cyl_num * cylinder) < UINT
    /\ prec \in Nat
    /\ cyl \in Nat
    /\ first \in Nat /\ size \in Int
    /\ pos0 \in Int /\ pos1 \in Int /\ pos2 \in Int
    /\ at = "search" => cyl \in Cylinders

Bracket ==
    at = "search" /\ method # "wr" /\ WholeTracks =>
        /\ 0 <= pos0 /\ pos0 <= pos1 /\ pos1 <= pos2 /\ pos2 < size
        /\ time1 = access_time(cyl, first + pos1)
        /\ time2 = access_time(cyl, first + pos2)
        /\ \/ access_time(cyl, first + pos0) = Seek
           \/ pos0 < pos2 /\ time2 <= access_time(cyl, first + pos0)

SearchInv == SearchTypes /\ Bracket

LEMMA DiskFacts ==
    ASSUME SearchTypes
    PROVE  /\ UINT \in Nat \ {0} /\ cylinder \in Nat \ {0} /\ track <= cylinder
           /\ logical_size \in Nat /\ 2 * logical_size < UINT /\ 2 * cylinder < UINT
           /\ \A c \in Cylinders : start_of(c) \in Nat
<1>1. /\ cyl_num \in Nat \ {0} /\ UINT \in Nat /\ track \in Nat \ {0} /\ tracks \in Nat \ {0}
      /\ 2 * (cyl_num * cylinder) < UINT
  BY SearchAssumption DEF SearchTypes
<1>2. cylinder \in Nat \ {0} /\ track <= cylinder
  <2>1. (tracks - 1) * track >= 0 /\ (tracks - 1) * track = tracks * track - track
    BY <1>1
  <2>2. tracks * track \in Int
    BY <1>1
  <2> QED BY <1>1, <2>1, <2>2 DEF cylinder
<1> HIDE DEF cylinder
<1>3. /\ (cyl_num - 1) * cylinder \in Nat
      /\ cyl_num * cylinder = (cyl_num - 1) * cylinder + cylinder
  BY <1>1, <1>2
<1>4. logical_size \in Nat /\ 2 * logical_size < UINT /\ 2 * cylinder < UINT
  BY <1>1, <1>2, <1>3 DEF SearchTypes
<1>5. \A c \in Cylinders : start_of(c) \in Nat
  BY <1>1, <1>2 DEF start_of, Cylinders
<1> QED BY <1>1, <1>2, <1>4, <1>5

(* A number that fits is an unsigned int as it is.                         *)
LEMMA Fits ==
    ASSUME NEW b \in Nat, b < UINT
    PROVE  b % UINT = b
<1>1. UINT \in Nat \ {0} /\ b \in 0..UINT - 1
  BY SearchAssumption
<1>2. (UINT * 0 + b) % UINT = b
  BY <1>1, DivisionUnique
<1> QED BY <1>1, <1>2

LEMMA OnDisk ==
    ASSUME SearchTypes, NEW c \in Cylinders, NEW b \in Nat, b < logical_size
    PROVE  access_time(c, b) = Seek + rotation(c, b) /\ rotation(c, b) \in 0..track - 1
<1>1. /\ b < UINT /\ track \in Nat \ {0} /\ start_of(c) \in Int /\ best[c] \in Int
  BY DiskFacts DEF SearchTypes
<1>2. b % UINT = b
  BY <1>1, Fits
<1>3. rotation(c, b) \in 0..track - 1
  <2> DEFINE x == b - start_of(c) - best[c]
  <2>1. x \in Int
    BY <1>1
  <2> HIDE DEF x
  <2>2. x % track \in 0..track - 1
    BY <1>1, <2>1, Division
  <2> QED BY <2>2 DEF x, rotation
<1>4. access_time(c, b) = IF b % UINT < logical_size THEN Seek + rotation(c, b % UINT) ELSE Refused
  BY Zenon DEF access_time
<1>5. access_time(c, b) = IF b < logical_size THEN Seek + rotation(c, b) ELSE Refused
  BY <1>2, <1>4, Zenon
<1> QED BY <1>3, <1>5

LEMMA BracketHoldsBest ==
    ASSUME SearchInv
    PROVE  BestBracketed
<1> SUFFICES ASSUME at = "search", method # "wr", WholeTracks
             PROVE  \E p \in pos0..pos2 : access_time(cyl, first + p) = Seek
  BY DEF BestBracketed, SearchInv, Bracket
<1>1. /\ pos0 \in Nat /\ pos2 \in Nat /\ pos0 <= pos2 /\ pos2 < size /\ first \in Nat /\ size \in Int
      /\ first + size <= logical_size /\ cyl \in Cylinders /\ logical_size \in Nat
      /\ track \in Nat \ {0} /\ Seek \in Nat
      /\ start_of(cyl) \in Int /\ best[cyl] \in Int
  BY DiskFacts, SearchAssumption DEF SearchInv, SearchTypes, Bracket, WholeTracks
<1>2. CASE access_time(cyl, first + pos0) = Seek
  BY <1>1, <1>2
<1>3. CASE pos0 < pos2 /\ access_time(cyl, first + pos2) <= access_time(cyl, first + pos0)
  <2> DEFINE x == first + pos0 - start_of(cyl) - best[cyl]
             d == pos2 - pos0
  <2>1. x \in Int /\ d \in Nat \ {0}
    BY <1>1, <1>3
  <2>2. \A e \in 0..d : /\ first + (pos0 + e) \in Nat /\ first + (pos0 + e) < logical_size
                        /\ rotation(cyl, first + (pos0 + e)) = (x + e) % track
    <3> SUFFICES ASSUME NEW e \in 0..d
                 PROVE  /\ first + (pos0 + e) \in Nat /\ first + (pos0 + e) < logical_size
                        /\ rotation(cyl, first + (pos0 + e)) = (x + e) % track
      OBVIOUS
    <3>1. first + (pos0 + e) - start_of(cyl) - best[cyl] = x + e
      BY <1>1
    <3> QED BY <1>1, <3>1 DEF rotation
  <2>3. \A e \in 0..d : access_time(cyl, first + (pos0 + e)) = Seek + ((x + e) % track)
    BY <1>1, <2>2, OnDisk DEF SearchInv
  <2>4. pos0 + 0 = pos0 /\ pos0 + d = pos2 /\ x + 0 = x /\ 0 \in 0..d /\ d \in 0..d
    BY <1>1, <2>1
  <2>5. Seek + ((x + d) % track) <= Seek + (x % track)
    BY <1>3, <2>3, <2>4
  <2> HIDE DEF x, d
  <2>6. (x + d) % track \in Int /\ x % track \in Int
    BY <1>1, <2>1, Division
  <2>7. (x + d) % track <= x % track
    BY <1>1, <2>5, <2>6
  <2>8. PICK e \in 0..d : (x + e) % track = 0
    BY <1>1, <2>1, <2>7, Falls
  <2>9. access_time(cyl, first + (pos0 + e)) = Seek
    BY <1>1, <2>3, <2>8
  <2>10. pos0 + e \in pos0..pos2
    BY <1>1, <2>1, <2>4
  <2> QED BY <2>9, <2>10
<1> QED BY <1>2, <1>3 DEF SearchInv, Bracket

(* The first two measurements.  If the range does not start with a block   *)
(* reached soonest, its last block is reached a block's time before the    *)
(* first one, whole revolutions later.                                     *)
LEMMA MeasureBrackets ==
    ASSUME SearchTypes, cyl' \in Cylinders, UNCHANGED disk_vars, at' = "search",
           NEW from \in Nat, NEW blocks \in Int, NEW middle \in {blocks \div 2, (blocks - 1) \div 2},
           Measure(from, blocks, middle)
    PROVE  SearchInv'
<1>1. /\ first' = from /\ size' = blocks /\ pos0' = 0 /\ pos1' = middle
      /\ pos2' = (blocks - 1) % UINT
      /\ UINT \in Nat \ {0} /\ middle \in Int
  BY DiskFacts DEF Measure
<1>2. pos2' \in Int
  <2> DEFINE x == blocks - 1
  <2>1. x \in Int
    OBVIOUS
  <2> HIDE DEF x
  <2>2. x % UINT \in Int
    BY <1>1, <2>1, Division
  <2> QED BY <1>1, <2>2 DEF x
<1>3. SearchTypes'
  BY <1>1, <1>2, SearchAssumption DEF SearchTypes, disk_vars, Cylinders, cylinder
<1> SUFFICES ASSUME method # "wr", WholeTracks' PROVE Bracket'
  BY <1>3 DEF SearchInv, Bracket, disk_vars
<1>4. /\ track \in Nat \ {0} /\ tracks \in Nat \ {0} /\ cylinder \in Nat \ {0}
      /\ logical_size \in Nat /\ 2 * logical_size < UINT /\ start_of(cyl') \in Int
      /\ best[cyl'] \in Int /\ Seek \in Nat
  BY DiskFacts, SearchAssumption DEF SearchTypes
<1>5. blocks \in {track, cylinder} /\ from + blocks <= logical_size
  BY <1>1 DEF WholeTracks, cylinder, disk_vars
<1>6. PICK k \in Nat \ {0} : blocks = k * track
  <2>1. CASE blocks = track
    <3>1. blocks = 1 * track
      BY <1>4, <2>1
    <3> QED BY <3>1
  <2>2. CASE blocks = cylinder
    BY <1>4, <2>2 DEF cylinder
  <2> QED BY <1>5, <2>1, <2>2
<1>7. blocks \in Nat \ {0} /\ pos2' = blocks - 1 /\ 0 <= middle /\ middle <= blocks - 1
  <2>1. blocks \in Nat \ {0} /\ blocks - 1 \in Nat /\ blocks - 1 < UINT
    BY <1>1, <1>4, <1>5
  <2>2. (blocks - 1) % UINT = blocks - 1
    BY <2>1, Fits
  <2> QED BY <1>1, <2>1, <2>2
<1>8. /\ time1' = access_time(cyl', from + middle)
      /\ time2' = access_time(cyl', from + (blocks - 1))
  BY <1>1, <1>7 DEF Measure
<1>9. /\ (access_time(cyl, first + pos0))' = access_time(cyl', from)
      /\ (access_time(cyl, first + pos1))' = access_time(cyl', from + middle)
      /\ (access_time(cyl, first + pos2))' = access_time(cyl', from + (blocks - 1))
  <2>1. first' + pos0' = from /\ first' + pos1' = from + middle
        /\ first' + pos2' = from + (blocks - 1)
    BY <1>1, <1>7
  <2> QED BY <2>1 DEF access_time, rotation, start_of, cylinder, disk_vars
<1>10. \/ access_time(cyl', from) = Seek
       \/ 0 < blocks - 1 /\ access_time(cyl', from + (blocks - 1)) <= access_time(cyl', from)
  <2> DEFINE x == from - start_of(cyl') - best[cyl']
  <2>1. x \in Int /\ from + (blocks - 1) - start_of(cyl') - best[cyl'] = x + (blocks - 1)
    BY <1>4
  <2>2. /\ from < logical_size /\ from + (blocks - 1) \in Nat /\ from + (blocks - 1) < logical_size
    BY <1>4, <1>5, <1>7
  <2>3. access_time(cyl', from) = Seek + (x % track)
    BY <2>2, OnDisk DEF rotation
  <2> HIDE DEF x
  <2>4. access_time(cyl', from + (blocks - 1)) = Seek + ((x + (blocks - 1)) % track)
    <3>1. rotation(cyl', from + (blocks - 1)) = (x + (blocks - 1)) % track
      BY <1>4, <2>1, SMT DEF rotation, x
    <3> DEFINE e == from + (blocks - 1)
    <3>2. e \in Nat /\ e < logical_size
      BY <2>2
    <3> HIDE DEF e
    <3>3. access_time(cyl', e) = Seek + rotation(cyl', e)
      BY <3>2, OnDisk
    <3> QED BY <3>1, <3>3, Zenon DEF e
  <2>5. x % track \in Nat
    BY <1>4, <2>1, Division
  <2>6. CASE x % track = 0
    BY <1>4, <2>3, <2>6
  <2>7. CASE x % track # 0
    <3>1. /\ blocks >= track /\ track > 1 /\ (x + (blocks - 1)) % track = (x % track) - 1
      BY <1>4, <1>6, <2>1, <2>7, WholeRevolutions
    <3> QED BY <1>4, <1>7, <2>3, <2>4, <2>5, <3>1
  <2> QED BY <2>6, <2>7
<1> QED BY <1>1, <1>7, <1>8, <1>9, <1>10 DEF Bracket

(* One halving: the half that is kept ends no later than it starts.        *)
LEMMA NarrowKeepsBest ==
    ASSUME SearchInv, Narrow
    PROVE  SearchInv'
<1>1. SearchTypes'
  BY DEF SearchInv, SearchTypes, Narrow, lower_half, upper_half, disk_vars, Cylinders, cylinder
<1> SUFFICES ASSUME method # "wr", WholeTracks PROVE Bracket'
  BY <1>1 DEF SearchInv, Bracket, Narrow, disk_vars, WholeTracks, cylinder
<1>2. /\ pos0 \in Int /\ pos1 \in Int /\ pos2 \in Int /\ size \in Int /\ Seek \in Nat
      /\ 0 <= pos0 /\ pos0 < pos1 /\ pos1 < pos2 /\ pos2 < size
      /\ time1 = access_time(cyl, first + pos1) /\ time2 = access_time(cyl, first + pos2)
      /\ \/ access_time(cyl, first + pos0) = Seek
         \/ pos0 < pos2 /\ time2 <= access_time(cyl, first + pos0)
  BY SearchAssumption DEF SearchInv, SearchTypes, Bracket, Narrow, searching
<1>3. \A p \in 0..size - 1 : access_time(cyl, first + p) \in Int
  <2> SUFFICES ASSUME NEW p \in 0..size - 1 PROVE access_time(cyl, first + p) \in Int
    OBVIOUS
  <2>1. first + p \in Nat /\ first + p < logical_size /\ cyl \in Cylinders
    BY <1>2, DiskFacts DEF SearchInv, SearchTypes, WholeTracks, Narrow
  <2>2. track \in Nat
    BY DEF SearchInv, SearchTypes
  <2> QED BY <1>2, <2>1, <2>2, OnDisk DEF SearchInv
<1>4. /\ (access_time(cyl, first + pos0))' = access_time(cyl, first + pos0')
      /\ (access_time(cyl, first + pos1))' = access_time(cyl, first + pos1')
      /\ (access_time(cyl, first + pos2))' = access_time(cyl, first + pos2')
      /\ time1' = access_time(cyl, first + pos1') /\ size' = size
  BY DEF access_time, rotation, start_of, cylinder, disk_vars, Narrow
<1>5. CASE sooner
  <2>1. /\ pos0' = pos0 /\ pos1' = pos0 + (pos1 - pos0) \div 2 /\ pos2' = pos1 /\ time2' = time1
    BY <1>5 DEF Narrow, lower_half
  <2>2. 0 <= pos0' /\ pos0' <= pos1' /\ pos1' <= pos2' /\ pos2' < size' /\ pos0' < pos2'
    BY <1>2, <1>4, <2>1
  <2>3. time2' = (access_time(cyl, first + pos2))'
    BY <1>2, <1>4, <2>1
  <2>4. \/ access_time(cyl, first + pos0') = Seek
        \/ time2' <= access_time(cyl, first + pos0')
    <3>1. time1 \in Int /\ time2 \in Int /\ access_time(cyl, first + pos0) \in Int
      BY <1>2, <1>3
    <3> QED BY <1>2, <1>5, <2>1, <3>1 DEF sooner
  <2> QED BY <1>4, <2>2, <2>3, <2>4 DEF Bracket
<1>6. CASE ~sooner
  <2>1. /\ pos0' = pos1 /\ pos1' = pos1 + (pos2 - pos1) \div 2 /\ pos2' = pos2 /\ time2' = time2
    BY <1>6 DEF Narrow, upper_half
  <2>2. 0 <= pos0' /\ pos0' <= pos1' /\ pos1' <= pos2' /\ pos2' < size' /\ pos0' < pos2'
    BY <1>2, <1>4, <2>1
  <2>3. time2' = (access_time(cyl, first + pos2))'
    BY <1>2, <1>4, <2>1
  <2>4. time2' <= access_time(cyl, first + pos0')
    <3>1. time1 \in Int /\ time2 \in Int
      BY <1>2, <1>3
    <3> QED BY <1>2, <1>6, <2>1, <3>1 DEF sooner
  <2> QED BY <1>4, <2>2, <2>3, <2>4 DEF Bracket
<1> QED BY <1>5, <1>6

LEMMA SearchBegins ==
    ASSUME SearchInit(Sizes, Methods)
    PROVE  SearchInv
<1>1. /\ track \in Nat \ {0} /\ tracks \in Nat \ {0} /\ prec \in Nat /\ at # "search"
      /\ 2 * (cyl_num * cylinder) < UINT
  BY SearchAssumption DEF SearchInit, cylinder
<1>2. cylinder \in Int
  BY <1>1 DEF cylinder
<1>3. cyl_size \in [Cylinders -> Int]
  <2>1. PICK u \in Int : cyl_size \in {findMappingCommand(bad, u), loadMapping(bad)}
    <3>1. CASE cyl_size = loadMapping(bad)
      BY <3>1
    <3> QED BY <3>1, SearchAssumption DEF SearchInit
  <2> QED BY <1>2, <2>1 DEF findMappingCommand, loadMapping
<1>4. /\ best \in [Cylinders -> 0..(track - 1)] /\ cyl = 0 /\ first = 0 /\ size = 0
      /\ pos0 = 0 /\ pos1 = 0 /\ pos2 = 0
      /\ logical_size \in {cyl_num * cylinder, (cyl_num - 1) * cylinder}
  BY DEF SearchInit
<1> QED BY <1>1, <1>3, <1>4 DEF SearchInv, SearchTypes, Bracket

(* The blocks a cylinder's track seems to have.                            *)
LEMMA TrackSize ==
    ASSUME SearchTypes, NEW c \in Cylinders
    PROVE  quotient(cyl_size[c], tracks) \in Int /\ track_size(c) \in 0..UINT - 1
<1>1. cyl_size[c] \in Int /\ -cyl_size[c] \in Int /\ tracks \in Nat \ {0} /\ UINT \in Nat \ {0}
  BY DiskFacts DEF SearchTypes
<1>2. cyl_size[c] \div tracks \in Int /\ (-cyl_size[c]) \div tracks \in Int
  BY <1>1, Division
<1>3. quotient(cyl_size[c], tracks) \in Int
  BY <1>2 DEF quotient
<1>4. quotient(cyl_size[c], tracks) % UINT \in 0..UINT - 1
  BY <1>1, <1>3, Division
<1> QED BY <1>3, <1>4 DEF track_size

(* A search measures the middle and the end of a range.                    *)
Begins(from, blocks) ==
    \E middle \in {blocks \div 2, (blocks - 1) \div 2} : Measure(from, blocks, middle)

LEMMA SearchStarts ==
    ASSUME SearchTypes, MTBRCrr \/ MTBRCww \/ MTBRCrw \/ MTBRCwr \/ seekToMin
    PROVE  /\ cyl' \in Cylinders /\ UNCHANGED <<disk_vars, curve>> /\ at = "start"
           /\ \/ at' = "search" /\ \E from \in Nat, blocks \in Int : Begins(from, blocks)
              \/ at' = "refused" /\ UNCHANGED search
<1>1. ASSUME NEW m, MTBRC(m)
      PROVE  /\ cyl' \in Cylinders /\ UNCHANGED <<disk_vars, curve>> /\ at = "start"
             /\ at' = "search" /\ \E from \in Nat, blocks \in Int : Begins(from, blocks)
  <2>1. /\ cyl' \in Cylinders /\ UNCHANGED <<disk_vars, curve>> /\ at = "start" /\ at' = "search"
        /\ Measure(start_of(cyl'), cylinder, (cylinder - 1) \div 2)
    BY <1>1 DEF MTBRC
  <2>2. start_of(cyl') \in Nat /\ cylinder \in Int
    BY <2>1, DiskFacts
  <2>3. Begins(start_of(cyl'), cylinder)
    BY <2>1 DEF Begins
  <2> QED BY <2>1, <2>2, <2>3
<1>2. CASE seekToMin
  <2>1. /\ cyl' \in Cylinders /\ UNCHANGED <<disk_vars, curve>> /\ at = "start"
    BY <1>2 DEF seekToMin
  <2> DEFINE blocks == cyl_size[cyl'] % UINT
  <2>2. PICK dest_track \in 0..tracks - 1 :
          \/ at' = "refused" /\ UNCHANGED search
          \/ /\ at' = "search"
             /\ Measure(start_of(cyl') + dest_track * track, blocks, blocks \div 2)
    BY <1>2 DEF seekToMin
  <2>3. blocks \in Int
    <3>1. cyl_size[cyl'] \in Int /\ UINT \in Nat \ {0}
      BY <2>1, DiskFacts DEF SearchTypes
    <3> QED BY <3>1, Division
  <2> HIDE DEF blocks
  <2>4. start_of(cyl') + dest_track * track \in Nat
    <3>1. start_of(cyl') \in Nat /\ track \in Nat /\ tracks \in Nat /\ dest_track \in Nat
      BY <2>1, DiskFacts DEF SearchTypes
    <3>2. dest_track * track \in Nat
      BY <3>1
    <3> QED BY <3>1, <3>2
  <2>5. CASE at' = "refused" /\ UNCHANGED search
    BY <2>1, <2>5
  <2>6. CASE at' = "search" /\ Measure(start_of(cyl') + dest_track * track, blocks, blocks \div 2)
    <3>1. Begins(start_of(cyl') + dest_track * track, blocks)
      BY <2>6 DEF Begins
    <3> QED BY <2>1, <2>3, <2>4, <2>6, <3>1
  <2> QED BY <2>2, <2>5, <2>6
<1> QED BY <1>1, <1>2 DEF MTBRCrr, MTBRCww, MTBRCrw, MTBRCwr

LEMMA SearchGoesOn ==
    ASSUME SearchInv, [SearchNext]_searchVars
    PROVE  SearchInv'
<1>0. SearchTypes
  BY DEF SearchInv
<1>1. CASE MTBRCrr \/ MTBRCww \/ MTBRCrw \/ MTBRCwr \/ seekToMin
  <2>1. CASE at' = "search" /\ \E from \in Nat, blocks \in Int : Begins(from, blocks)
    BY <1>0, <1>1, <2>1, SearchStarts, MeasureBrackets DEF Begins
  <2>2. CASE at' = "refused" /\ UNCHANGED search
    <3>1. cyl' \in Cylinders /\ UNCHANGED disk_vars
      BY <1>0, <1>1, SearchStarts
    <3>2. cyl' \in Nat
      BY <3>1, SearchAssumption DEF Cylinders
    <3> QED BY <1>0, <2>2, <3>1, <3>2
            DEF SearchInv, SearchTypes, Bracket, search, disk_vars, Cylinders, cylinder
  <2> QED BY <1>0, <1>1, <2>1, <2>2, SearchStarts
<1>2. CASE Narrow
  BY <1>2, NarrowKeepsBest
<1>3. CASE SeekCurveSearch
  <2>1. /\ cyl' = cyl /\ cyl \in Cylinders /\ UNCHANGED <<disk_vars, curve>> /\ at' = "search"
        /\ Measure(start_of(cyl), track_size(cyl), track_size(cyl) \div 2)
    BY <1>0, <1>3, SearchAssumption DEF SeekCurveSearch, SearchTypes, Cylinders
  <2>2. start_of(cyl) \in Nat /\ track_size(cyl) \in Int
    BY <1>0, <2>1, DiskFacts, TrackSize
  <2> QED BY <1>0, <2>1, <2>2, MeasureBrackets
<1>4. CASE Found \/ SeekCurveSkip \/ SeekCurvePoint \/ SeekCurveEnd \/ SeekCurveSeek
  <2>1. at' # "search" /\ UNCHANGED <<disk_vars, search>> /\ (cyl' = cyl \/ cyl' = cyl + prec)
    BY <1>4 DEF Found, SeekCurveSkip, SeekCurvePoint, SeekCurveEnd, SeekCurveSeek
  <2> QED BY <1>0, <2>1 DEF SearchInv, SearchTypes, Bracket, search, disk_vars, Cylinders, cylinder
<1>5. CASE UNCHANGED searchVars
  BY <1>5 DEF searchVars, disk_vars, search, SearchInv, SearchTypes, Bracket, WholeTracks,
              access_time, rotation, start_of, cylinder, Cylinders
<1> QED
  BY <1>1, <1>2, <1>3, <1>4, <1>5 DEF SearchNext

(* At every step of every search but MTBRCwr's, over a track or over a     *)
(* cylinder of any number of tracks, a block reached soonest is between    *)
(* pos0 and pos2, and the code holds the times of pos1 and pos2.           *)
THEOREM SearchKeepsBest == SearchSpec => []BestBracketed
<1>1. SearchInit(Sizes, Methods) => SearchInv
  BY SearchBegins
<1>2. SearchInv /\ [SearchNext]_searchVars => SearchInv'
  BY SearchGoesOn
<1>3. SearchInv => BestBracketed
  BY BracketHoldsBest
<1>4. QED BY <1>1, <1>2, <1>3, PTL DEF SearchSpec

(***************************************************************************)
(* What the search reports                                                 *)
(*                                                                         *)
(* Each halving leaves at most half of the blocks, rounded up: 20 of them  *)
(* bring a range of at most 2^20 blocks down to two neighbours.  mintime   *)
(* is the time of the upper one, and one of the two is reached soonest.    *)
(***************************************************************************)
MaxRange == 1048576

(* Distance of pos0 and pos2 after 0, 1, 2 ... halvings, at most. *)
Room ==
    <<1048576, 524288, 262144, 131072, 65536, 32768, 16384, 8192, 4096, 2048, 1024, 512, 256,
      128, 64, 32, 16, 8, 4, 2, 1>>

SearchSteps ==
    at = "search" /\ method # "wr" /\ WholeTracks =>
        /\ n \in 0..20
        /\ pos2 - pos0 <= Room[n + 1]
        /\ 2 * (pos1 - pos0) <= pos2 - pos0 + 1 /\ 2 * (pos2 - pos1) <= pos2 - pos0 + 1
        /\ IF n = 0 THEN size > 2 => pos0 < pos1 /\ pos1 < pos2
           ELSE pos1 = pos0 + (pos2 - pos0) \div 2 /\ mintime = time2

Times == time1 \in Int /\ time2 \in Int /\ mintime \in Int

LEMMA AccessTimes ==
    ASSUME SearchTypes, NEW c \in Cylinders, NEW b \in Int
    PROVE  access_time(c, b) \in Int
<1>1. /\ track \in Nat \ {0} /\ start_of(c) \in Int /\ best[c] \in Int /\ UINT \in Nat \ {0}
      /\ Seek \in Int /\ Refused \in Int
  BY DiskFacts, SearchAssumption DEF SearchTypes
<1> DEFINE u == b % UINT
<1>2. u \in Int
  BY <1>1, Division
<1> HIDE DEF u
<1>3. rotation(c, u) \in Int
  <2> DEFINE x == u - start_of(c) - best[c]
  <2>1. x \in Int
    BY <1>1, <1>2
  <2> HIDE DEF x
  <2>2. x % track \in Int
    BY <1>1, <2>1, Division
  <2> QED BY <2>2 DEF x, rotation
<1>4. access_time(c, b) = IF u < logical_size THEN Seek + rotation(c, u) ELSE Refused
  BY Zenon DEF access_time, u
<1> QED BY <1>1, <1>3, <1>4

(* The first two measurements: in a range of more than two blocks the      *)
(* middle is neither end.                                                  *)
LEMMA MeasureSteps ==
    ASSUME SearchTypes, cylinder <= MaxRange, cyl' \in Cylinders, UNCHANGED disk_vars,
           NEW from \in Nat, NEW blocks \in Int, Begins(from, blocks)
    PROVE  SearchSteps' /\ Times'
<1> PICK middle \in {blocks \div 2, (blocks - 1) \div 2} : Measure(from, blocks, middle)
  BY DEF Begins
<1>1. /\ n' = 0 /\ pos0' = 0 /\ pos1' = middle /\ pos2' = (blocks - 1) % UINT
      /\ first' = from /\ size' = blocks /\ mintime' = Infinite /\ middle \in Int
  BY DEF Measure
<1>2. pos2' \in Int
  <2> DEFINE x == blocks - 1
  <2>1. x \in Int /\ UINT \in Nat \ {0}
    BY DiskFacts
  <2> HIDE DEF x
  <2>2. x % UINT \in Int
    BY <2>1, Division
  <2> QED BY <1>1, <2>2 DEF x
<1>3. Times'
  <2>1. from + pos1' \in Int /\ from + pos2' \in Int
    BY <1>1, <1>2
  <2>2. access_time(cyl', from + pos1') \in Int /\ access_time(cyl', from + pos2') \in Int
    BY <2>1, AccessTimes
  <2>3. Seek + track - 1 \in Int /\ Seek \in Int /\ Infinite \in Int
    BY SearchAssumption DEF SearchTypes
  <2> QED BY <1>1, <2>2, <2>3 DEF Measure, Times
<1>4. ASSUME WholeTracks' PROVE SearchSteps'
  <2>1. blocks \in {track, cylinder} /\ from + blocks <= logical_size
    BY <1>1, <1>4 DEF WholeTracks, cylinder, disk_vars
  <2>2. blocks \in Nat \ {0} /\ blocks <= MaxRange /\ blocks - 1 \in Nat /\ blocks - 1 < UINT
    BY <2>1, DiskFacts DEF SearchTypes, MaxRange
  <2>3. pos2' = blocks - 1
    BY <1>1, <2>2, Fits
  <2>4. Room[1] = MaxRange
    BY DEF Room, MaxRange
  <2>5. /\ blocks > 2 => 0 < middle /\ middle < blocks - 1
        /\ 2 * middle <= blocks /\ 2 * (blocks - 1 - middle) <= blocks
    BY <2>2
  <2> QED BY <1>1, <2>2, <2>3, <2>4, <2>5 DEF SearchSteps, MaxRange
<1> QED BY <1>3, <1>4 DEF SearchSteps

(* Half of the room after k halvings is the room after one more.           *)
LEMMA RoomHalves ==
    ASSUME NEW k \in 0..19
    PROVE  Room[k + 1] \in Nat /\ Room[k + 2] \in Nat /\ Room[k + 1] = 2 * Room[k + 2]
<1>1. k \in {0, 1, 2, 3, 4, 5, 6, 7, 8, 9, 10, 11, 12, 13, 14, 15, 16, 17, 18, 19}
  OBVIOUS
<1> QED BY <1>1 DEF Room

LEMMA NarrowSteps ==
    ASSUME SearchInv, SearchSteps, Times, Narrow
    PROVE  SearchSteps' /\ Times'
<1>1. /\ pos0 \in Int /\ pos1 \in Int /\ pos2 \in Int /\ cyl \in Cylinders /\ first \in Nat
      /\ time1 \in Int /\ time2 \in Int /\ at = "search"
  BY DEF SearchInv, SearchTypes, Narrow, Times
<1>2. pos1' \in Int
  BY <1>1 DEF Narrow, lower_half, upper_half
<1>3. Times'
  <2>1. time1' = access_time(cyl, first + pos1') /\ first + pos1' \in Int
    BY <1>1, <1>2 DEF Narrow
  <2>2. time1' \in Int
    BY <1>1, <2>1, AccessTimes DEF SearchInv
  <2> QED BY <1>1, <2>2 DEF Narrow, lower_half, upper_half, Times
<1>4. ASSUME method # "wr", WholeTracks PROVE SearchSteps'
  <2>1. /\ n \in 0..19 /\ pos2 - pos0 <= Room[n + 1] /\ n' = n + 1
        /\ 2 * (pos1 - pos0) <= pos2 - pos0 + 1 /\ 2 * (pos2 - pos1) <= pos2 - pos0 + 1
        /\ pos0 <= pos1 /\ pos1 <= pos2
    BY <1>1, <1>4 DEF SearchSteps, SearchInv, Bracket, Narrow, searching
  <2>2. \/ /\ mintime' = time1 /\ pos2' = pos1 /\ pos0' = pos0 /\ time2' = time1
           /\ pos1' = pos0 + (pos1 - pos0) \div 2
        \/ /\ mintime' = time2 /\ pos0' = pos1 /\ pos2' = pos2 /\ time2' = time2
           /\ pos1' = pos1 + (pos2 - pos1) \div 2
    BY DEF Narrow, lower_half, upper_half
  <2>3. pos2' - pos0' <= Room[n' + 1]
    <3>1. Room[n + 1] \in Nat /\ Room[n + 2] \in Nat /\ Room[n + 1] = 2 * Room[n + 2]
      BY <2>1, RoomHalves
    <3>2. n' + 1 = n + 2
      BY <2>1
    <3> QED BY <1>1, <2>1, <2>2, <3>1, <3>2
  <2>4. mintime' = time2' /\ pos1' = pos0' + (pos2' - pos0') \div 2
    BY <2>2
  <2>5. pos0' \in Int /\ pos2' \in Int
    BY <1>1, <2>2
  <2>6. 2 * (pos1' - pos0') <= pos2' - pos0' + 1 /\ 2 * (pos2' - pos1') <= pos2' - pos0' + 1
    BY <2>4, <2>5
  <2> QED BY <2>1, <2>3, <2>4, <2>6 DEF SearchSteps
<1>5. method' = method /\ (WholeTracks' <=> WholeTracks)
  BY DEF Narrow, disk_vars, WholeTracks, cylinder
<1> QED BY <1>3, <1>4, <1>5 DEF SearchSteps

(* The end of a search: pos0 and pos2 are neighbours, or the same block.   *)
LEMMA SearchReports ==
    ASSUME SearchInv, SearchSteps, at = "search", method # "wr", ~searching, WholeTracks, size > 2
    PROVE  Shortest(mintime)
<1>1. /\ pos0 \in Nat /\ pos1 \in Nat /\ pos2 \in Nat /\ pos2 < size /\ first \in Nat
      /\ cyl \in Cylinders /\ time2 = access_time(cyl, first + pos2) /\ size \in Int
      /\ first + size <= logical_size /\ logical_size \in Nat /\ Seek \in Nat
      /\ track \in Nat \ {0} /\ start_of(cyl) \in Int /\ best[cyl] \in Int
  BY DiskFacts, SearchAssumption DEF SearchInv, SearchTypes, Bracket, WholeTracks
<1>2. n # 0 /\ mintime = time2 /\ pos1 = pos0 + (pos2 - pos0) \div 2
  BY <1>1 DEF SearchSteps, searching
<1>3. pos2 - pos0 <= 1
  <2>1. CASE n = 20
    <3>1. Room[n + 1] = 1
      BY <2>1 DEF Room
    <3> QED BY <3>1 DEF SearchSteps
  <2>2. CASE n # 20
    <3>1. pos1 = pos2 \/ pos0 = pos1
      BY <2>2 DEF SearchSteps, searching
    <3> QED BY <1>1, <1>2, <3>1
  <2> QED BY <2>1, <2>2
<1>4. PICK p \in pos0..pos2 : access_time(cyl, first + p) = Seek
  BY BracketHoldsBest DEF BestBracketed
<1>5. CASE p = pos2
  BY <1>1, <1>2, <1>4, <1>5 DEF Shortest
<1>6. CASE p # pos2
  <2> DEFINE b == first + p
             x == b - start_of(cyl) - best[cyl]
  <2>1. /\ p + 1 = pos2 /\ b \in Nat /\ b + 1 \in Nat /\ b + 1 < logical_size /\ b < logical_size
        /\ first + pos2 = b + 1 /\ x \in Int
    BY <1>1, <1>3, <1>6
  <2>2. b + 1 - start_of(cyl) - best[cyl] = x + 1
    BY <1>1, <2>1
  <2>3. rotation(cyl, b) = x % track
    BY DEF rotation
  <2> HIDE DEF x
  <2>4. rotation(cyl, b + 1) = (x + 1) % track
    BY <1>1, <2>1, <2>2 DEF rotation, x
  <2> HIDE DEF b
  <2>5. access_time(cyl, b) = Seek + (x % track) /\ x % track \in 0..track - 1
    BY <1>1, <2>1, <2>3, OnDisk DEF SearchInv
  <2>6. access_time(cyl, b + 1) = Seek + ((x + 1) % track) /\ (x + 1) % track \in 0..track - 1
    <3> DEFINE e == b + 1
    <3>1. e \in Nat /\ e < logical_size
      BY <2>1
    <3> HIDE DEF e
    <3>2. access_time(cyl, e) = Seek + rotation(cyl, e) /\ rotation(cyl, e) \in 0..track - 1
      BY <1>1, <3>1, OnDisk DEF SearchInv
    <3> QED BY <2>4, <3>2, Zenon DEF e
  <2>7. x % track = 0
    BY <1>1, <1>4, <2>5 DEF b
  <2>8. (x + 1) % track \in 0..1
    <3>1. 1 < track - (x % track) => (x + 1) % track = (x % track) + 1
      BY <1>1, <2>1, RotatesOn
    <3> QED BY <1>1, <2>6, <2>7, <3>1
  <2> QED BY <1>1, <1>2, <2>1, <2>6, <2>8 DEF Shortest
<1> QED BY <1>5, <1>6

(***************************************************************************)
(* The curve                                                               *)
(***************************************************************************)
(* What the size of a cylinder is worth: of all but the last it is right   *)
(* or -1.                                                                  *)
SizesKnown == \A c \in Cylinders : c # cyl_num - 1 => cyl_size[c] \in {cylinder, -1}

LEMMA MappedTrack ==
    ASSUME SearchTypes, NEW c \in Cylinders, cyl_size[c] = cylinder
    PROVE  track_size(c) = track
<1>1. /\ track \in Nat \ {0} /\ tracks \in Nat \ {0} /\ cylinder \in Nat /\ track < UINT
  BY DiskFacts DEF SearchTypes
<1>2. (tracks * track + 0) \div tracks = track
  BY <1>1, DivisionUnique
<1>3. tracks * track + 0 = cylinder
  BY <1>1 DEF cylinder
<1>4. quotient(cyl_size[c], tracks) = track
  BY <1>1, <1>2, <1>3 DEF quotient
<1>5. track % UINT = track
  BY <1>1, Fits
<1> QED BY <1>4, <1>5 DEF track_size

(* A cylinder in front of the last one has its first track on the disk.    *)
LEMMA TrackOnDisk ==
    ASSUME SearchTypes, NEW c \in Cylinders, c # cyl_num - 1
    PROVE  start_of(c) + track <= logical_size
<1>1. /\ track \in Nat \ {0} /\ cylinder \in Nat \ {0} /\ track <= cylinder
      /\ c \in Nat /\ cyl_num \in Nat \ {0} /\ c + 1 <= cyl_num - 1
  BY DiskFacts, SearchAssumption DEF SearchTypes, Cylinders
<1>2. c * cylinder + cylinder <= (cyl_num - 1) * cylinder
  <2>1. (cyl_num - 1 - (c + 1)) * cylinder >= 0
    BY <1>1
  <2>2. (cyl_num - 1 - (c + 1)) * cylinder = (cyl_num - 1) * cylinder - c * cylinder - cylinder
    BY <1>1
  <2>3. (cyl_num - 1) * cylinder \in Int /\ c * cylinder \in Int
    BY <1>1
  <2> QED BY <1>1, <2>1, <2>2, <2>3
<1>3. /\ cyl_num * cylinder = (cyl_num - 1) * cylinder + cylinder
      /\ (cyl_num - 1) * cylinder \in Int /\ c * cylinder \in Int
  BY <1>1
<1>4. logical_size >= (cyl_num - 1) * cylinder /\ logical_size \in Int
  BY <1>1, <1>3 DEF SearchTypes
<1> QED BY <1>1, <1>2, <1>3, <1>4 DEF start_of

(* One in front of a bad one: no blocks, or more than the disk has.        *)
LEMMA UnmappedTrack ==
    ASSUME SearchTypes, NEW c \in Cylinders, cyl_size[c] = -1
    PROVE  track_size(c) = 0 \/ past_end(c)
<1>1. /\ tracks \in Nat \ {0} /\ UINT \in Nat \ {0} /\ cylinder \in Nat \ {0}
      /\ cyl_num \in Nat \ {0} /\ c \in 0..cyl_num - 1 /\ 2 * (cyl_num * cylinder) < UINT
  BY DiskFacts, SearchAssumption DEF SearchTypes, Cylinders
<1>2. quotient(cyl_size[c], tracks) = -(1 \div tracks)
  BY DEF quotient
<1>3. CASE tracks > 1
  <2>1. (tracks * 0 + 1) \div tracks = 0
    BY <1>1, <1>3, DivisionUnique
  <2>2. 1 \div tracks = 0
    BY <1>1, <2>1
  <2>3. 0 % UINT = 0
    BY <1>1, Fits
  <2> QED BY <1>2, <2>2, <2>3 DEF track_size
<1>4. CASE tracks = 1
  <2>1. quotient(cyl_size[c], tracks) = -1
    BY <1>2, <1>4
  <2>2. (UINT * (-1) + (UINT - 1)) % UINT = UINT - 1
    BY <1>1, DivisionUnique
  <2>3. UINT * (-1) + (UINT - 1) = -1
    BY <1>1
  <2>4. track_size(c) = UINT - 1
    BY <2>1, <2>2, <2>3 DEF track_size
  <2> DEFINE N == cyl_num * cylinder
  <2>5. N \in Nat /\ logical_size \in Nat /\ logical_size <= N
    <3>1. (cyl_num - 1) * cylinder = cyl_num * cylinder - cylinder /\ cyl_num * cylinder \in Int
      BY <1>1
    <3> QED BY <1>1, <3>1, DiskFacts DEF SearchTypes
  <2>6. start_of(c) \in Nat /\ start_of(c) <= N
    <3>1. (cyl_num - c) * cylinder >= 0
      BY <1>1
    <3>2. (cyl_num - c) * cylinder = cyl_num * cylinder - c * cylinder
      BY <1>1
    <3>3. cyl_num * cylinder \in Int /\ c * cylinder \in Nat
      BY <1>1
    <3> QED BY <3>1, <3>2, <3>3 DEF start_of
  <2> HIDE DEF N
  <2> DEFINE b == start_of(c) + track_size(c) \div 2
  <2>7. b \in Nat /\ b < UINT /\ b >= N
    BY <1>1, <2>4, <2>5, <2>6 DEF N
  <2> HIDE DEF b
  <2>8. b % UINT = b
    BY <2>7, Fits
  <2> QED BY <2>5, <2>7, <2>8 DEF past_end, b
<1> QED BY <1>1, <1>3, <1>4

(* What the curve tells of cylinder c, on tracks of more than two blocks.  *)
Right(c, t) ==
    track > 2 => /\ Mapped(c) => Shortest(t)
                 /\ c # cyl_num - 1 => Shortest(t) \/ t = Infinite

(* The cylinders on the curve, and those it has a point for. *)
Points == {curve[k][1] : k \in DOMAIN curve}
CurveMethods == {"seekCurve", "seekCurve2"}

CurveInv ==
    /\ curve \in Seq(Nat \X Int)
    /\ Times
    /\ \A k \in DOMAIN curve : Right(curve[k][1], curve[k][2])
    /\ at \in {"start", "curve", "search", "found", "refused"}
    /\ cylinder <= MaxRange
    /\ start_cyl \in Int /\ maxdistance \in Int
    /\ prec \in 1..2 /\ (method \in CurveMethods => cyl % prec = 0)
    /\ SizesKnown
    /\ at = "curve" => method \in CurveMethods
    /\ at \in {"start", "refused"} => method \notin CurveMethods
    /\ at = "search" => method # "seekCurve2"
    /\ at = "search" /\ method = "seekCurve" =>
         /\ OnCurve(cyl) /\ first = start_of(cyl) /\ size = track_size(cyl)
         /\ size = 0 => pos0 = pos1 /\ mintime = Infinite
    /\ at = "curve" /\ method = "seekCurve" =>
         \A b \in Nat : b < cyl /\ Asked(b) => ~past_end(b)
    /\ method \in CurveMethods =>
         /\ \A k, l \in DOMAIN curve : k < l => curve[k][1] < curve[l][1]
         /\ at # "found" => Points = {c \in Cylinders : OnCurve(c) /\ c < cyl}
         /\ at = "found" => Points = {c \in Cylinders : OnCurve(c)}

ReportInv ==
    /\ SearchInv /\ SearchSteps /\ CurveInv
    /\ WholeTracks /\ size > 2 /\ at = "found" /\ method \in {"rr", "ww", "rw", "seekToMin"}
         => Shortest(mintime)

(* The disk's definitions change only when the disk does.                  *)
LEMMA SameDisk ==
    ASSUME UNCHANGED disk_vars
    PROVE  /\ \A c : /\ Asked(c)' <=> Asked(c)
                     /\ past_end(c)' <=> past_end(c)
                     /\ OnCurve(c)' <=> OnCurve(c)
                     /\ start_of(c)' = start_of(c) /\ track_size(c)' = track_size(c)
           /\ \A c, t : Right(c, t)' <=> Right(c, t)
           /\ SizesKnown' <=> SizesKnown
           /\ cylinder' = cylinder
<1>1. cylinder' = cylinder
  BY DEF disk_vars, cylinder
<1>2. \A c : start_of(c)' = start_of(c) /\ track_size(c)' = track_size(c)
  BY <1>1 DEF start_of, track_size, quotient, disk_vars
<1>3. \A c : (past_end(c)' <=> past_end(c)) /\ (Asked(c)' <=> Asked(c))
  BY <1>2 DEF past_end, Asked, disk_vars
<1>4. \A c : OnCurve(c)' <=> OnCurve(c)
  BY <1>3 DEF OnCurve, disk_vars
<1>5. \A c, t : Right(c, t)' <=> Right(c, t)
  BY <1>1, <1>2 DEF Right, Mapped, Shortest, disk_vars
<1>6. SizesKnown' <=> SizesKnown
  BY <1>1 DEF SizesKnown, Cylinders, disk_vars
<1> QED BY <1>1, <1>2, <1>3, <1>4, <1>5, <1>6

(* From a cylinder to the next one of the curve.                           *)
LEMMA NextCylinder ==
    ASSUME SearchTypes, CurveInv, method \in CurveMethods, cyl' = cyl + prec
    PROVE  /\ cyl' \in Nat /\ cyl' % prec = 0 /\ cyl < cyl'
           /\ \A c \in Nat : Asked(c) => (c < cyl' <=> c < cyl \/ c = cyl)
<1>1. prec \in {1, 2} /\ cyl \in Nat /\ cyl % prec = 0
  BY DEF CurveInv, SearchTypes
<1>2. cyl' \in Nat /\ cyl' % prec = 0 /\ cyl < cyl'
  BY <1>1
<1>3. \A c \in Nat : Asked(c) => (c < cyl' <=> c < cyl \/ c = cyl)
  <2> SUFFICES ASSUME NEW c \in Nat, c % prec = 0
               PROVE  c < cyl' <=> c < cyl \/ c = cyl
    BY DEF Asked
  <2> QED BY <1>1
<1> QED BY <1>2, <1>3

LEMMA CylinderFacts ==
    /\ cyl_num \in Nat \ {0}
    /\ \A c \in Cylinders : c \in Nat
    /\ \A c : OnCurve(c) => Asked(c)
  BY SearchAssumption DEF Cylinders, OnCurve

(* The cylinders passed so far that break nothing off, once past cyl.      *)
LEMMA NoneBreaksOff ==
    ASSUME SearchTypes, CurveInv, method \in CurveMethods, UNCHANGED disk_vars, cyl' = cyl + prec,
           method = "seekCurve" => \A b \in Nat : (b < cyl \/ b = cyl) /\ Asked(b) => ~past_end(b)
    PROVE  method' = "seekCurve" => \A b \in Nat : b < cyl' /\ Asked(b)' => ~past_end(b)'
<1>1. \A c \in Nat : Asked(c) => (c < cyl' <=> c < cyl \/ c = cyl)
  BY NextCylinder
<1>2. \A b : (Asked(b)' <=> Asked(b)) /\ (past_end(b)' <=> past_end(b))
  BY SameDisk
<1> QED BY <1>1, <1>2 DEF disk_vars

(* A cylinder the curve leaves out. *)
LEMMA PassedOver ==
    ASSUME SearchTypes, CurveInv, method \in CurveMethods, UNCHANGED <<disk_vars, curve>>,
           at = "curve", at' = "curve", cyl' = cyl + prec, ~Asked(cyl), UNCHANGED search
    PROVE  CurveInv'
<1>1. cyl \in Nat /\ cyl' \in Nat /\ cyl' % prec = 0
  BY NextCylinder DEF SearchTypes
<1>2. Points' = {c \in Cylinders : OnCurve(c)' /\ c < cyl'}
  <2>1. Points = {c \in Cylinders : OnCurve(c) /\ c < cyl}
    BY DEF CurveInv
  <2>2. Points' = Points
    BY DEF Points
  <2>3. \A c \in Cylinders : OnCurve(c)' /\ c < cyl' <=> OnCurve(c) /\ c < cyl
    BY CylinderFacts, NextCylinder, SameDisk
  <2> QED BY <2>1, <2>2, <2>3
<1>3. method' = "seekCurve" => \A b \in Nat : b < cyl' /\ Asked(b)' => ~past_end(b)'
  BY NoneBreaksOff DEF CurveInv
<1>4. SizesKnown' /\ cylinder' = cylinder /\ Times'
  BY SameDisk DEF CurveInv, Times, search
<1>6. /\ curve' = curve /\ method' = method /\ prec' = prec /\ start_cyl' = start_cyl
      /\ maxdistance' = maxdistance
  BY DEF disk_vars
<1>7. (\A k \in DOMAIN curve : Right(curve[k][1], curve[k][2]))'
  <2>1. \A c, t : Right(c, t)' <=> Right(c, t)
    BY SameDisk
  <2>2. \A k \in DOMAIN curve : Right(curve[k][1], curve[k][2])
    BY DEF CurveInv
  <2> QED BY <1>6, <2>1, <2>2
<1>8. Points' = {c \in Cylinders : OnCurve(c) /\ c < cyl}'
  BY <1>2 DEF Cylinders
<1> QED BY <1>1, <1>3, <1>4, <1>6, <1>7, <1>8 DEF CurveInv

(* A cylinder the curve has a point for: Added is an append, element by    *)
(* element.                                                                *)
Added(t) ==
    /\ curve' \in Seq(Nat \X Int) /\ DOMAIN curve' = 1..Len(curve) + 1
    /\ \A k \in 1..Len(curve) : curve'[k] = curve[k]
    /\ curve'[Len(curve) + 1] = <<cyl, t>>

LEMMA PointAdded ==
    ASSUME SearchTypes, CurveInv, method \in CurveMethods, UNCHANGED disk_vars,
           at \in {"curve", "search"}, at' = "curve", cyl' = cyl + prec, OnCurve(cyl),
           cyl \in Cylinders,
           UNCHANGED search, NEW t \in Int, Added(t), Right(cyl, t),
           at = "curve" => method = "seekCurve2"
    PROVE  CurveInv'
<1> DEFINE L == Len(curve)
<1>1. /\ curve \in Seq(Nat \X Int) /\ cyl \in Nat /\ L \in Nat /\ DOMAIN curve = 1..L
      /\ Points = {c \in Cylinders : OnCurve(c) /\ c < cyl}
  BY DEF CurveInv, SearchTypes
<1>2. /\ curve' \in Seq(Nat \X Int) /\ DOMAIN curve' = 1..L + 1
      /\ \A k \in 1..L : curve'[k] = curve[k]
      /\ curve'[L + 1] = <<cyl, t>>
  BY <1>1 DEF Added
<1>3. \A k \in 1..L : curve[k][1] < cyl
  BY <1>1 DEF Points
<1> HIDE DEF L
<1>4. \A x : x \in Points' <=> x \in Points \/ x = cyl
  <2>1. \A x : x \in Points <=> \E k \in 1..L : x = curve[k][1]
    BY <1>1 DEF Points
  <2>2. \A x : x \in Points' <=> \E k \in 1..L + 1 : x = curve'[k][1]
    BY <1>2 DEF Points
  <2>3. curve'[L + 1][1] = cyl
    BY <1>2
  <2>4. \A k : k \in 1..L + 1 <=> k \in 1..L \/ k = L + 1
    BY <1>1
  <2>5. \A k \in 1..L : curve'[k][1] = curve[k][1]
    BY <1>2
  <2>6. L + 1 \in 1..L + 1
    BY <1>1
  <2>7. ASSUME NEW k \in 1..L + 1 PROVE curve'[k][1] \in Points \/ curve'[k][1] = cyl
    BY <2>1, <2>3, <2>4, <2>5
  <2>8. ASSUME NEW x \in Points PROVE x \in Points'
    <3>1. PICK k \in 1..L : x = curve[k][1]
      BY <2>1, <2>8
    <3> QED BY <2>2, <2>4, <2>5, <3>1
  <2> QED BY <2>2, <2>3, <2>6, <2>7, <2>8
<1>5. Points' = {c \in Cylinders : OnCurve(c) /\ c < cyl}'
  <2>1. \A c \in Cylinders : OnCurve(c)' /\ c < cyl' <=> c \in Points \/ c = cyl
    BY <1>1, NextCylinder, CylinderFacts, SameDisk
  <2>2. Points' \subseteq Cylinders
    BY <1>1, <1>4
  <2>3. Cylinders' = Cylinders
    BY DEF Cylinders
  <2> QED BY <1>4, <2>1, <2>2, <2>3
<1>6. \A k, l \in 1..L + 1 : k < l => curve'[k][1] < curve'[l][1]
  <2> SUFFICES ASSUME NEW k \in 1..L + 1, NEW l \in 1..L + 1, k < l
               PROVE  curve'[k][1] < curve'[l][1]
    OBVIOUS
  <2>0. L \in Nat
    BY <1>1
  <2>1. CASE l \in 1..L
    <3>0. k \in 1..L
      BY <2>0, <2>1
    <3>1. k \in 1..L /\ curve'[k] = curve[k] /\ curve'[l] = curve[l]
      BY <1>2, <2>1, <3>0
    <3> QED BY <1>1, <2>1, <3>1 DEF CurveInv
  <2>2. CASE l = L + 1
    <3>0. k \in 1..L
      BY <2>0, <2>2
    <3>1. k \in 1..L /\ curve'[l][1] = cyl /\ curve'[k] = curve[k]
      BY <1>2, <2>2, <3>0
    <3> QED BY <1>3, <3>1
  <2> QED BY <2>0, <2>1, <2>2
<1>7. (\A k \in DOMAIN curve : Right(curve[k][1], curve[k][2]))'
  <2>1. \A c, r : Right(c, r)' <=> Right(c, r)
    BY SameDisk
  <2> SUFFICES ASSUME NEW k \in 1..L + 1 PROVE Right(curve'[k][1], curve'[k][2])
    BY <1>2, <2>1
  <2>2. CASE k \in 1..L
    BY <1>1, <1>2, <2>2 DEF CurveInv
  <2>3. CASE k = L + 1
    <3>1. curve'[k][1] = cyl /\ curve'[k][2] = t
      BY <1>2, <2>3
    <3> QED BY <3>1
  <2> QED BY <1>1, <2>2, <2>3
<1>8. method' = "seekCurve" => \A b \in Nat : b < cyl' /\ Asked(b)' => ~past_end(b)'
  <2>1. method = "seekCurve" => \A b \in Nat : (b < cyl \/ b = cyl) /\ Asked(b) => ~past_end(b)
    <3>1. \A b \in Nat : b < cyl \/ b = cyl => b \in 0..cyl
      BY <1>1
    <3> QED BY <3>1 DEF OnCurve
  <2> QED BY <2>1, NoneBreaksOff
<1>9. /\ SizesKnown' /\ cylinder' = cylinder /\ Times'
      /\ start_cyl' = start_cyl /\ maxdistance' = maxdistance /\ prec' = prec /\ method' = method
      /\ cyl' % prec = 0
  BY SameDisk, NextCylinder DEF CurveInv, Times, search, disk_vars
<1> QED BY <1>2, <1>5, <1>6, <1>7, <1>8, <1>9 DEF CurveInv

(* Every step but those of the search itself, and the search's beginning.  *)
LEMMA CurveSteps ==
    ASSUME ReportInv, \/ SeekCurveSkip \/ SeekCurveSearch \/ SeekCurvePoint \/ SeekCurveSeek
                      \/ SeekCurveEnd
    PROVE  SearchSteps' /\ CurveInv'
<1>1. SearchTypes /\ CurveInv /\ SearchSteps /\ SearchInv
  BY DEF ReportInv, SearchInv
<1>2. cyl \in Nat /\ prec \in {1, 2} /\ cyl_num \in Nat /\ start_cyl \in Int /\ maxdistance \in Int
  BY <1>1, SearchAssumption DEF SearchTypes, CurveInv
<1>3. method = "seekCurve" => (Asked(cyl) <=> ~skipped(cyl))
  BY <1>1, <1>2 DEF skipped, Asked, distance, CurveInv, CurveMethods
<1>4. CASE SeekCurveSkip
  <2>1. /\ method = "seekCurve" /\ at = "curve" /\ at' = "curve" /\ cyl' = cyl + prec
        /\ UNCHANGED <<disk_vars, search, curve>> /\ ~Asked(cyl)
    BY <1>3, <1>4 DEF SeekCurveSkip
  <2> QED BY <1>1, <2>1, PassedOver DEF SearchSteps, CurveMethods
<1>5. CASE SeekCurveSearch
  <2>1. /\ method = "seekCurve" /\ at = "curve" /\ at' = "search" /\ cyl' = cyl /\ cyl \in Cylinders
        /\ UNCHANGED <<disk_vars, curve>> /\ Asked(cyl) /\ ~past_end(cyl)
        /\ Measure(start_of(cyl), track_size(cyl), track_size(cyl) \div 2)
    BY <1>2, <1>3, <1>5 DEF SeekCurveSearch, Cylinders
  <2>2. OnCurve(cyl)
    <3>1. \A b \in 0..cyl : b \in Nat /\ (b < cyl \/ b = cyl)
      BY <1>2
    <3> QED BY <1>1, <2>1, <3>1 DEF OnCurve, CurveInv
  <2>3. /\ start_of(cyl) \in Nat /\ track_size(cyl) \in Int
        /\ Begins(start_of(cyl), track_size(cyl))
    BY <1>1, <2>1, DiskFacts, TrackSize DEF Begins
  <2>4. SearchSteps' /\ Times'
    BY <1>1, <2>1, <2>3, MeasureSteps DEF CurveInv
  <2>5. /\ OnCurve(cyl)' /\ first' = start_of(cyl)' /\ size' = track_size(cyl)'
        /\ size' = 0 => pos0' = pos1' /\ mintime' = Infinite
    <3>1. /\ \A c : OnCurve(c)' <=> OnCurve(c)
          /\ \A c : start_of(c)' = start_of(c) /\ track_size(c)' = track_size(c)
      BY <2>1, SameDisk
    <3>2. OnCurve(cyl') /\ start_of(cyl') = start_of(cyl) /\ track_size(cyl') = track_size(cyl)
      BY <2>1, <2>2
    <3>3. size' = 0 => pos0' = pos1' /\ mintime' = Infinite
      BY <2>1 DEF Measure
    <3> QED BY <2>1, <3>1, <3>2, <3>3 DEF Measure
  <2>6. (Points = {c \in Cylinders : OnCurve(c) /\ c < cyl})'
    <3>1. Points = {c \in Cylinders : OnCurve(c) /\ c < cyl}
      BY <1>1, <2>1 DEF CurveInv, CurveMethods
    <3>2. Points' = Points /\ Cylinders' = Cylinders
      BY <2>1 DEF Points, Cylinders
    <3>3. \A c : OnCurve(c)' <=> OnCurve(c)
      BY <2>1, SameDisk
    <3> QED BY <2>1, <3>1, <3>2, <3>3
  <2>7. /\ (\A k \in DOMAIN curve : Right(curve[k][1], curve[k][2]))'
        /\ SizesKnown' /\ cylinder' = cylinder
    <3>1. \A c, t : Right(c, t)' <=> Right(c, t)
      BY <2>1, SameDisk
    <3> QED BY <1>1, <2>1, <3>1, SameDisk DEF CurveInv
  <2> QED BY <1>1, <2>1, <2>4, <2>5, <2>6, <2>7 DEF CurveInv, CurveMethods, disk_vars
<1>6. CASE SeekCurvePoint
  <2>1. /\ method = "seekCurve" /\ at = "search" /\ at' = "curve" /\ cyl' = cyl + prec
        /\ UNCHANGED <<disk_vars, search>> /\ ~searching /\ curve' = Append(curve, <<cyl, mintime>>)
        /\ cyl \in Cylinders /\ mintime \in Int
    BY <1>1, <1>6 DEF SeekCurvePoint, SearchTypes, CurveInv, Times
  <2>2. /\ OnCurve(cyl) /\ first = start_of(cyl) /\ size = track_size(cyl)
        /\ size = 0 => mintime = Infinite
    BY <1>1, <2>1 DEF CurveInv
  <2>3. Mapped(cyl) /\ track > 2 => Shortest(mintime)
    <3> SUFFICES ASSUME Mapped(cyl), track > 2 PROVE Shortest(mintime)
      OBVIOUS
    <3>1. size = track
      BY <1>1, <2>1, <2>2, MappedTrack DEF Mapped
    <3>2. WholeTracks
      BY <2>2, <3>1 DEF WholeTracks, Mapped
    <3> QED BY <1>1, <2>1, <3>1, <3>2, SearchReports
  <2>4. cyl # cyl_num - 1 => Mapped(cyl) \/ mintime = Infinite
    <3> SUFFICES ASSUME cyl # cyl_num - 1, cyl_size[cyl] = -1 PROVE mintime = Infinite
      BY <1>1, <2>1, TrackOnDisk DEF CurveInv, SizesKnown, Mapped
    <3>1. ~past_end(cyl)
      <4>1. Asked(cyl) /\ cyl \in 0..cyl
        BY <1>2, <2>2 DEF OnCurve
      <4> QED BY <2>1, <2>2, <4>1 DEF OnCurve
    <3> QED BY <1>1, <2>1, <2>2, <3>1, UnmappedTrack
  <2>5. Right(cyl, mintime)
    BY <2>3, <2>4 DEF Right
  <2>6. Added(mintime)
    BY <1>1, <1>2, <2>1 DEF Added, CurveInv
  <2> QED BY <1>1, <2>1, <2>2, <2>5, <2>6, PointAdded DEF SearchSteps, CurveMethods
<1>7. CASE SeekCurveSeek
  <2>1. /\ method = "seekCurve2" /\ at = "curve" /\ at' = "curve" /\ cyl' = cyl + prec
        /\ UNCHANGED <<disk_vars, search>> /\ cyl \in Cylinders
        /\ curve' = IF cyl \in bad THEN curve ELSE Append(curve, <<cyl, Seek>>)
    BY <1>2, <1>7 DEF SeekCurveSeek, Cylinders
  <2>2. CASE cyl \in bad
    <3>1. curve' = curve /\ ~Asked(cyl)
      BY <2>1, <2>2 DEF Asked
    <3> QED BY <1>1, <2>1, <3>1, PassedOver DEF SearchSteps, CurveMethods
  <2>3. CASE cyl \notin bad
    <3>1. OnCurve(cyl)
      BY <1>1, <2>1, <2>3 DEF OnCurve, Asked, CurveInv, CurveMethods
    <3>2. Seek \in Int /\ Right(cyl, Seek)
      BY SearchAssumption DEF Right, Shortest
    <3>3. Added(Seek)
      BY <1>1, <1>2, <2>1, <2>3, <3>2 DEF Added, CurveInv
    <3> QED BY <1>1, <2>1, <3>1, <3>2, <3>3, PointAdded DEF SearchSteps, CurveMethods
  <2> QED BY <2>2, <2>3
<1>8. CASE SeekCurveEnd
  <2>1. /\ at = "curve" /\ at' = "found" /\ UNCHANGED <<disk_vars, cyl, search, curve>>
        /\ method \in CurveMethods
    BY <1>1, <1>8 DEF SeekCurveEnd, CurveInv
  <2>2. \A c \in Cylinders : OnCurve(c) => c < cyl
    <3> SUFFICES ASSUME NEW c \in Nat, c < cyl_num, OnCurve(c), c >= cyl PROVE FALSE
      BY <1>2 DEF Cylinders
    <3>1. method = "seekCurve" /\ ~skipped(cyl) /\ past_end(cyl)
      BY <1>2, <1>8 DEF SeekCurveEnd
    <3>2. Asked(cyl) /\ cyl \in 0..c
      BY <1>2, <1>3, <3>1
    <3> QED BY <3>1, <3>2 DEF OnCurve
  <2>3. Points = {c \in Cylinders : OnCurve(c)}
    BY <1>1, <2>1, <2>2 DEF CurveInv
  <2>4. (Points = {c \in Cylinders : OnCurve(c)})'
    <3>1. \A c : OnCurve(c)' <=> OnCurve(c)
      BY <2>1, SameDisk
    <3>2. Points' = Points /\ Cylinders' = Cylinders
      BY <2>1 DEF Points, Cylinders
    <3> QED BY <2>3, <3>1, <3>2
  <2>5. /\ (\A k \in DOMAIN curve : Right(curve[k][1], curve[k][2]))'
        /\ SizesKnown' /\ cylinder' = cylinder
    <3>1. \A c, t : Right(c, t)' <=> Right(c, t)
      BY <2>1, SameDisk
    <3> QED BY <1>1, <2>1, <3>1, SameDisk DEF CurveInv
  <2>6. Times' /\ SearchSteps'
    BY <1>1, <2>1 DEF CurveInv, Times, SearchSteps, search
  <2> QED BY <1>1, <2>1, <2>4, <2>5, <2>6 DEF CurveInv, disk_vars
<1> QED BY <1>4, <1>5, <1>6, <1>7, <1>8

LEMMA ReportStep ==
    ASSUME ReportInv, [SearchNext]_searchVars
    PROVE  ReportInv'
<1>1. SearchInv /\ SearchInv' /\ SearchTypes /\ CurveInv /\ SearchSteps
  BY SearchGoesOn DEF ReportInv, SearchInv
<1>2. ASSUME UNCHANGED <<disk_vars, curve>>
      PROVE  /\ (\A k \in DOMAIN curve : Right(curve[k][1], curve[k][2]))'
             /\ SizesKnown' /\ cylinder' = cylinder /\ Points' = Points /\ Cylinders' = Cylinders
             /\ \A c : /\ OnCurve(c)' <=> OnCurve(c)
                       /\ Asked(c)' <=> Asked(c)
                       /\ past_end(c)' <=> past_end(c)
                       /\ start_of(c)' = start_of(c) /\ track_size(c)' = track_size(c)
  <2>1. \A c, t : Right(c, t)' <=> Right(c, t)
    BY <1>2, SameDisk
  <2>2. (\A k \in DOMAIN curve : Right(curve[k][1], curve[k][2]))'
    BY <1>1, <1>2, <2>1 DEF CurveInv
  <2> QED BY <1>1, <1>2, <2>2, SameDisk DEF CurveInv, Points, Cylinders
<1>3. CASE MTBRCrr \/ MTBRCww \/ MTBRCrw \/ MTBRCwr \/ seekToMin
  <2>1. /\ cyl' \in Cylinders /\ UNCHANGED <<disk_vars, curve>> /\ at = "start"
        /\ \/ at' = "search" /\ \E from \in Nat, blocks \in Int : Begins(from, blocks)
           \/ at' = "refused" /\ UNCHANGED search
    BY <1>1, <1>3, SearchStarts
  <2>2. SearchSteps' /\ Times'
    <3>1. CASE at' = "search" /\ \E from \in Nat, blocks \in Int : Begins(from, blocks)
      BY <1>1, <2>1, <3>1, MeasureSteps DEF CurveInv
    <3>2. CASE at' = "refused" /\ UNCHANGED search
      BY <1>1, <3>2 DEF SearchSteps, Times, CurveInv, search
    <3> QED BY <2>1, <3>1, <3>2
  <2>3. method \notin CurveMethods /\ method' = method
    BY <1>1, <2>1 DEF CurveInv, disk_vars
  <2>4. CurveInv'
    BY <1>1, <1>2, <2>1, <2>2, <2>3 DEF CurveInv, CurveMethods, disk_vars
  <2> QED BY <1>1, <2>1, <2>2, <2>4 DEF ReportInv
<1>4. CASE Narrow
  <2>1. SearchSteps' /\ Times'
    BY <1>1, <1>4, NarrowSteps DEF CurveInv
  <2>2. /\ at = "search" /\ at' = "search" /\ UNCHANGED <<disk_vars, curve, cyl, first, size>>
        /\ pos0 # pos1
    BY <1>4 DEF Narrow, searching
  <2>3. method = "seekCurve" => size # 0
    BY <1>1, <2>2 DEF CurveInv
  <2>4. method' = "seekCurve" =>
          /\ OnCurve(cyl)' /\ first' = start_of(cyl)' /\ size' = track_size(cyl)'
          /\ size' # 0
    <3>1. \A c : /\ OnCurve(c)' <=> OnCurve(c)
                 /\ start_of(c)' = start_of(c) /\ track_size(c)' = track_size(c)
      BY <1>2, <2>2
    <3> QED BY <1>1, <2>2, <2>3, <3>1 DEF CurveInv, disk_vars
  <2>5. (method \in CurveMethods => Points = {c \in Cylinders : OnCurve(c) /\ c < cyl})'
    <3>1. method \in CurveMethods => Points = {c \in Cylinders : OnCurve(c) /\ c < cyl}
      BY <1>1, <2>2 DEF CurveInv
    <3>2. /\ \A c : OnCurve(c)' <=> OnCurve(c)
          /\ Points' = Points /\ Cylinders' = Cylinders /\ cyl' = cyl
          /\ (method \in CurveMethods)' <=> method \in CurveMethods
      BY <1>2, <2>2 DEF disk_vars, CurveMethods
    <3> QED BY <3>1, <3>2
  <2>6. CurveInv'
    BY <1>1, <1>2, <2>1, <2>2, <2>4, <2>5 DEF CurveInv, CurveMethods, disk_vars
  <2> QED BY <1>1, <2>1, <2>2, <2>6 DEF ReportInv
<1>5. CASE Found
  <2>1. /\ at = "search" /\ at' = "found" /\ UNCHANGED <<disk_vars, curve, cyl, search>>
        /\ ~searching /\ method # "seekCurve"
    BY <1>5 DEF Found
  <2>2. SearchSteps' /\ Times'
    BY <1>1, <2>1 DEF SearchSteps, CurveInv, Times, search
  <2>3. method \notin CurveMethods
    BY <1>1, <2>1 DEF CurveInv, CurveMethods
  <2>4. CurveInv'
    BY <1>1, <1>2, <2>1, <2>2, <2>3 DEF CurveInv, CurveMethods, disk_vars
  <2>5. WholeTracks /\ size > 2 /\ method # "wr" => Shortest(mintime)
    BY <1>1, <2>1, SearchReports
  <2>6. /\ WholeTracks' <=> WholeTracks
        /\ size' = size /\ method' = method /\ mintime' = mintime
    BY <1>2, <2>1 DEF WholeTracks, search, disk_vars
  <2> QED BY <1>1, <2>1, <2>2, <2>4, <2>5, <2>6 DEF ReportInv, Shortest
<1>6. CASE \/ SeekCurveSkip \/ SeekCurveSearch \/ SeekCurvePoint \/ SeekCurveSeek \/ SeekCurveEnd
  <2>1. SearchSteps' /\ CurveInv'
    BY <1>6, CurveSteps
  <2>2. at' = "found" => method' \in CurveMethods
    <3>1. at' = "found" => at = "curve" /\ method' = method
      BY <1>6 DEF SeekCurveSkip, SeekCurveSearch, SeekCurvePoint, SeekCurveSeek, SeekCurveEnd,
                  disk_vars
    <3> QED BY <1>1, <3>1 DEF CurveInv
  <2> QED BY <1>1, <2>1, <2>2 DEF ReportInv, CurveMethods
<1>7. CASE UNCHANGED searchVars
  <2>1. UNCHANGED <<disk_vars, at, cyl, search, curve>>
    BY <1>7 DEF searchVars
  <2>2. SearchSteps' /\ Times' /\ (WholeTracks' <=> WholeTracks)
    BY <1>1, <2>1 DEF SearchSteps, CurveInv, Times, search, disk_vars, WholeTracks, cylinder
  <2>3. /\ (OnCurve(cyl))' <=> OnCurve(cyl)
        /\ (start_of(cyl))' = start_of(cyl) /\ (track_size(cyl))' = track_size(cyl)
    <3>1. \A c : /\ OnCurve(c)' <=> OnCurve(c)
                 /\ start_of(c)' = start_of(c) /\ track_size(c)' = track_size(c)
      BY <1>2, <2>1
    <3> QED BY <2>1, <3>1
  <2>4. /\ (Points = {c \in Cylinders : OnCurve(c) /\ c < cyl})'
             <=> Points = {c \in Cylinders : OnCurve(c) /\ c < cyl}
        /\ (Points = {c \in Cylinders : OnCurve(c)})' <=> Points = {c \in Cylinders : OnCurve(c)}
    <3>1. /\ \A c : OnCurve(c)' <=> OnCurve(c)
          /\ Points' = Points /\ Cylinders' = Cylinders /\ cyl' = cyl
      BY <1>2, <2>1
    <3>2. /\ {c \in Cylinders : OnCurve(c) /\ c < cyl}' = {c \in Cylinders : OnCurve(c) /\ c < cyl}
          /\ {c \in Cylinders : OnCurve(c)}' = {c \in Cylinders : OnCurve(c)}
      BY <3>1
    <3> QED BY <3>1, <3>2
  <2>5. CurveInv'
    BY <1>1, <1>2, <2>1, <2>2, <2>3, <2>4 DEF CurveInv, CurveMethods, disk_vars, search
  <2> QED BY <1>1, <2>1, <2>2, <2>5 DEF ReportInv, disk_vars, search, Shortest
<1> QED
  BY <1>3, <1>4, <1>5, <1>6, <1>7 DEF SearchNext

(* On ranges of 3 to 2^20 blocks MTBRC and seekToMin report the shortest   *)
(* time, or that of the block next to it, and so does seekCurve at every   *)
(* cylinder whose size is known; of the others only the last can get a     *)
(* time from nowhere.  Until it breaks off the curve leaves out no         *)
(* cylinder it is asked for, measures none twice and keeps their order,    *)
(* for any number of cylinders and whatever mapping is loaded.  (The 20    *)
(* halvings of the loop are not enough for a longer range.)                *)
THEOREM SearchIsNearShortest ==
    ASSUME \A s \in Sizes, t \in Tracks : t * s <= MaxRange
    PROVE  SearchSpec => []NearShortest
<1>1. SearchInit(Sizes, Methods) => ReportInv
  <2> SUFFICES ASSUME SearchInit(Sizes, Methods) PROVE ReportInv
    OBVIOUS
  <2>1. SearchInv
    BY SearchBegins
  <2>2. cyl = 0 /\ curve = <<>> /\ cyl_num \in Nat \ {0} /\ cylinder <= MaxRange
    BY SearchAssumption DEF SearchInit, cylinder
  <2>3. /\ at \in {"start", "curve"} /\ start_cyl \in Int /\ maxdistance \in Int /\ prec \in 1..2
        /\ at = "curve" <=> method \in CurveMethods
    BY <2>2 DEF SearchInit, CurveMethods
  <2>4. Times
    BY SearchAssumption DEF SearchInit, Times
  <2>5. Points = {} /\ {c \in Cylinders : OnCurve(c) /\ c < cyl} = {} /\ cyl % prec = 0
    BY <2>2, <2>3 DEF Points, Cylinders
  <2>6. SizesKnown
    BY DEF SizesKnown, SearchInit, findMappingCommand, loadMapping
  <2>7. CurveInv
    BY <2>2, <2>3, <2>4, <2>5, <2>6 DEF CurveInv
  <2> QED BY <2>1, <2>3, <2>7 DEF ReportInv, SearchSteps
<1>2. ReportInv /\ [SearchNext]_searchVars => ReportInv'
  BY ReportStep
<1>3. ReportInv => NearShortest
  BY DEF ReportInv, CurveInv, CurveMethods, NearShortest, Points, Right
<1>4. QED BY <1>1, <1>2, <1>3, PTL DEF SearchSpec

(***************************************************************************)
(* The trace player                                                        *)
(***************************************************************************)
(* Which commands take data to the disk (a bucket command has none of its  *)
(* own), and which bring data back.                                        *)
LEMMA CommandFacts ==
    /\ \A a, k : ReadXCmd(a, k).op = "R" /\ ~ReadXCmd(a, k).info.in_data
    /\ \A a, k : WriteXCmd(a, k).op = "W" /\ ~WriteXCmd(a, k).info.in_data
    /\ \A a : SeekXCmd(a).op = "S" /\ ~SeekXCmd(a).info.in_data
    /\ ModeSenseCmd.op = "sense" /\ ~ModeSenseCmd.info.in_data /\ ModeSenseCmd.info.result_data
    /\ \A p : /\ ModeSelectCmd(p).op = "select" /\ ModeSelectCmd(p).info.in_data
              /\ ModeSelectCmd(p).page = p
<1>1. /\ \A a, c, d, e : ~scsi_cmd_info(a, 0, c, d, e).in_data
      /\ \A a, b, d, e : b > 0 => scsi_cmd_info(a, b, FALSE, d, e).in_data
      /\ \A a, b, c, d : d > 0 => scsi_cmd_info(a, b, c, d, FALSE).result_data
  <2>1. \A a, b, c, d, e :
          /\ scsi_cmd_info(a, b, c, d, e).in_data = (~c /\ b > 0)
          /\ scsi_cmd_info(a, b, c, d, e).result_data = (~e /\ d > 0)
    BY Zenon DEF scsi_cmd_info
  <2>2. \A a, c, d, e : ~scsi_cmd_info(a, 0, c, d, e).in_data
    <3> TAKE a, c, d, e
    <3>1. scsi_cmd_info(a, 0, c, d, e).in_data = (~c /\ 0 > 0)
      BY <2>1
    <3>2. ~(0 > 0)
      OBVIOUS
    <3> QED BY <3>1, <3>2, Zenon
  <2>3. \A a, b, d, e : b > 0 => scsi_cmd_info(a, b, FALSE, d, e).in_data
    BY <2>1, Zenon
  <2>4. \A a, b, c, d : d > 0 => scsi_cmd_info(a, b, c, d, FALSE).result_data
    BY <2>1, Zenon
  <2> QED BY <2>2, <2>3, <2>4
<1>2. \A a, k : ReadXCmd(a, k).op = "R" /\ ~ReadXCmd(a, k).info.in_data
  <2>1. \A a, k : ReadXCmd(a, k).info = scsi_cmd_info(10, 0, FALSE, k * BLOCK_SIZE, TRUE)
    BY Zenon DEF ReadXCmd
  <2>3. \A a, k : ~ReadXCmd(a, k).info.in_data
    BY <1>1, <2>1, Zenon
  <2>4. \A a, k : ReadXCmd(a, k).op = "R"
    BY DEF ReadXCmd
  <2> QED BY <2>3, <2>4
<1>3. \A a, k : WriteXCmd(a, k).op = "W" /\ ~WriteXCmd(a, k).info.in_data
  BY DEF WriteXCmd, scsi_cmd_info
<1>4. \A a : SeekXCmd(a).op = "S" /\ ~SeekXCmd(a).info.in_data
  <2>1. \A a : SeekXCmd(a).info = scsi_cmd_info(10, 0, FALSE, 0, FALSE)
    BY Zenon DEF SeekXCmd
  <2>3. \A a : ~SeekXCmd(a).info.in_data
    BY <1>1, <2>1, Zenon
  <2>4. \A a : SeekXCmd(a).op = "S"
    BY DEF SeekXCmd
  <2> QED BY <2>3, <2>4
<1>5. ModeSenseCmd.op = "sense" /\ ~ModeSenseCmd.info.in_data /\ ModeSenseCmd.info.result_data
  <2> DEFINE L == MODE_PAGE_REPLY_HEADER_LEN + getPageSize
  <2>1. ModeSenseCmd.info = scsi_cmd_info(6, 0, FALSE, L, FALSE)
    BY Zenon DEF ModeSenseCmd
  <2>2. L > 0
    BY DEF MODE_PAGE_REPLY_HEADER_LEN, getPageSize
  <2> HIDE DEF L
  <2>3. ~ModeSenseCmd.info.in_data /\ ModeSenseCmd.info.result_data
    BY <1>1, <2>1, <2>2, Zenon
  <2>4. ModeSenseCmd.op = "sense"
    BY DEF ModeSenseCmd
  <2> QED BY <2>3, <2>4
<1>6. \A p : /\ ModeSelectCmd(p).op = "select" /\ ModeSelectCmd(p).info.in_data
            /\ ModeSelectCmd(p).page = p
  <2> DEFINE L == MODE_PAGE_REPLY_HEADER_LEN + getPageSize
  <2>1. \A p : ModeSelectCmd(p).info = scsi_cmd_info(6, L, FALSE, 0, FALSE)
    BY Zenon DEF ModeSelectCmd
  <2>2. L > 0
    BY DEF MODE_PAGE_REPLY_HEADER_LEN, getPageSize
  <2> HIDE DEF L
  <2>3. \A p : ModeSelectCmd(p).info.in_data
    BY <1>1, <2>1, <2>2, Zenon
  <2>4. \A p : ModeSelectCmd(p).op = "select" /\ ModeSelectCmd(p).page = p
    BY DEF ModeSelectCmd
  <2> QED BY <2>3, <2>4
<1> QED BY <1>2, <1>3, <1>4, <1>5, <1>6

(* What the actions hand to handleCmd. *)
LEMMA Handled ==
    /\ SeekLine => cmd' = SeekXCmd(arg(1)) /\ pc' \in {"write", "thrown"}
    /\ Chunk => \/ /\ \E k : cmd' = ReadXCmd(rem.start, k) \/ cmd' = WriteXCmd(rem.start, k)
                   /\ line' = line
                   /\ pc' \in {"write", "thrown"}
                \/ cmd' = cmd /\ line' = line + 1 /\ pc' = "next_line"
    /\ Sense => cmd' = ModeSenseCmd /\ pc' \in {"write", "thrown"}
    /\ Change => cmd' = ModeSelectCmd(page_to_select) /\ pc' \in {"write", "thrown"}
BY DEF SeekLine, Chunk, Sense, Change, handleCmd

(* doRead waits only for the command it has just written: a busy driver    *)
(* makes doWrite fail, and nothing but a read takes a reply.               *)
ReplyInv ==
    /\ RepliesMatch
    /\ pc = "read" => sg.state # "idle" /\ sg.id = serial
    /\ pc \in {"write", "read"} => cmd.op \in {"R", "W", "S", "sense", "select"}

(* The reply doRead takes is that of the command just written, whatever    *)
(* the trace and however many reads were interrupted before (doWrite).     *)
THEOREM RepliesAreTheirOwn == Spec => []RepliesMatch
<1>1. Init => ReplyInv
  BY DEF Init, ReplyInv, RepliesMatch
<1>2. ReplyInv /\ [Next]_vars => ReplyInv'
  <2> SUFFICES ASSUME ReplyInv, [Next]_vars PROVE ReplyInv'
    OBVIOUS
  <2>1. CASE TimeLine \/ ArithmeticLine \/ PrintLine \/ OtherLine \/ EndOfFile
    BY <2>1 DEF TimeLine, ArithmeticLine, PrintLine, OtherLine, EndOfFile, AtLine, NextLine, exit,
                device, ReplyInv, RepliesMatch, store
  <2>2. CASE SeekLine \/ TransferLine \/ Chunk \/ NextChunk
    <3>1. pc' # "read"
      BY <2>2 DEF SeekLine, TransferLine, Chunk, NextChunk, handleCmd
    <3>2. SeekLine => cmd'.op = "S"
      BY Handled, CommandFacts
    <3>3. Chunk /\ pc' = "write" => cmd'.op \in {"R", "W"}
      BY Handled, CommandFacts
    <3>4. TransferLine \/ NextChunk => pc' # "write"
      BY DEF TransferLine, NextChunk
    <3>5. taken' = taken
      BY <2>2 DEF SeekLine, TransferLine, Chunk, NextChunk
    <3> QED BY <2>2, <3>1, <3>2, <3>3, <3>4, <3>5 DEF ReplyInv, RepliesMatch
  <2>3. CASE CacheLine \/ Sense \/ Change \/ NextCache
    <3>1. pc' # "read"
      BY <2>3 DEF CacheLine, Sense, Change, NextCache, handleCmd
    <3>2. Sense \/ Change => cmd'.op \in {"sense", "select"}
      BY Handled, CommandFacts
    <3>3. CacheLine \/ NextCache => pc' # "write"
      BY DEF CacheLine, NextCache
    <3>4. taken' = taken
      BY <2>3 DEF CacheLine, Sense, Change, NextCache
    <3> QED BY <2>3, <3>1, <3>2, <3>3, <3>4 DEF ReplyInv, RepliesMatch
  <2>4. CASE doWrite
    <3>1. CASE write_accepted
      BY <2>4, <3>1 DEF doWrite, write_accepted, ReplyInv, RepliesMatch
    <3>2. CASE write_busy \/ write_failed
      <4>1. pc' \notin {"write", "read"}
        BY <2>4, <3>2 DEF doWrite, write_busy, write_failed, Return, ReplyInv
      <4> QED BY <2>4, <4>1 DEF doWrite, ReplyInv, RepliesMatch
    <3> QED BY <2>4, <3>1, <3>2 DEF doWrite
  <2>5. CASE doRead
    <3>1. pc = "read" /\ pc' \notin {"write", "read"}
      BY <2>5 DEF doRead, Return, ReplyInv
    <3> QED BY <2>5, <3>1 DEF doRead, read_reply, read_interrupted, ReplyInv, RepliesMatch
  <2>6. CASE Serve
    <3>1. sg'.state = "reply" /\ sg'.id = sg.id
      BY <2>6 DEF Serve
    <3> QED BY <2>6, <3>1 DEF Serve, ReplyInv, RepliesMatch
  <2>7. CASE UNCHANGED vars
    BY <2>7 DEF vars, player, ReplyInv, RepliesMatch
  <2> QED BY <2>1, <2>2, <2>3, <2>4, <2>5, <2>6, <2>7 DEF Next
<1>3. ReplyInv => RepliesMatch
  BY DEF ReplyInv
<1> QED BY <1>1, <1>2, <1>3, PTL DEF Spec

(***************************************************************************)
(* A B line, when no command fails: the caches before the one at hand are  *)
(* switched; the page that is changed is the page the disk has, for nobody *)
(* else writes it between the mode sense and the mode select; between      *)
(* lines, all three caches are as the last B line says.                    *)
(***************************************************************************)
Page ==
    [RCD : BOOLEAN, WCE : BOOLEAN, DISC : BOOLEAN, ABPF : BOOLEAN, DRA : BOOLEAN,
     rest : {RestOfPage}]

(* Page p has the cache as a B line with number k says. *)
Switched(p, cache, k) ==
    CASE cache = 0 -> ~p.RCD <=> asked(k, 0)
      [] cache = 1 -> p.WCE <=> asked(k, 1)
      [] cache = 2 -> ~p.ABPF <=> asked(k, 2)

(* The player is at a B line, or in a command of it; in a command of an R  *)
(* or W line.                                                              *)
Handling(ops) == pc \in {"write", "read"} /\ cmd.op \in ops
Switching == pc \in {"sense", "change", "next_cache"} \/ Handling({"sense", "select"})
Transferring == pc \in {"chunk", "next_chunk"} \/ Handling({"R", "W"})

(* Line i is the last B line before the current one. *)
LastB(i) == /\ i \in 1..line - 1
            /\ trace[i].op = "B"
            /\ \A j \in i + 1..line - 1 : trace[j].op # "B"
Before == \A i \in 1..line - 1 : LastB(i) => \A c \in 0..2 : Switched(page, c, trace[i].arg[1])

(* Page p as it has to be once the cache at hand is switched. *)
Selected(p) == p \in Page /\ \A c \in 0..which : Switched(p, c, arg(1))

Commands ==
    \/ cmd = ModeSenseCmd
    \/ cmd.op = "select" /\ cmd.info.in_data
    \/ cmd.op \in {"R", "W", "S"} /\ ~cmd.info.in_data

Shape ==
    /\ trace \in Traces
    /\ line \in 1..Len(trace) + 1
    /\ faults \in Nat
    /\ pc = "end" => line > Len(trace)
    /\ pc \in {"write", "read"} => Commands
    /\ Transferring => line <= Len(trace) /\ trace[line].op # "B"
    /\ Switching => line <= Len(trace) /\ trace[line].op = "B" /\ which \in 0..2

Fine ==
    /\ page \in Page
    /\ pc # "read" => sg.state = "idle"
    /\ pc = "read" => sg.state = "reply" \/ (sg.state = "sent" /\ sg.cmd = cmd)
    /\ ~Switching /\ pc # "thrown" => Before
    /\ Switching => \A c \in 0..which - 1 : Switched(page, c, arg(1))
    /\ Handling({"sense"}) /\ sg.state = "reply" => sg.page = page
    /\ pc = "change" => cachepage = page
    /\ Handling({"select"}) => Selected(IF sg.state = "reply" THEN page ELSE cmd.page)
    /\ pc = "next_cache" => Selected(page)

SwitchInv == Shape /\ (faults = 0 => Fine)

LEMMA TraceShape ==
    ASSUME trace \in Traces
    PROVE  Len(trace) \in Nat
BY SizesAssumption

(* A step outside of B lines, on to the next line or not.                  *)
LEMMA Elsewhere ==
    ASSUME SwitchInv, ~Switching, ~Switching', pc \notin {"read", "thrown"}, pc' # "read",
           UNCHANGED <<trace, page, sg, faults>>,
           \/ line' = line
           \/ line' = line + 1 /\ line <= Len(trace) /\ trace[line].op # "B",
           pc' = "write" => Commands', pc' = "end" => line' > Len(trace),
           Transferring' => line' <= Len(trace) /\ trace[line'].op # "B"
    PROVE  SwitchInv'
<1>1. Len(trace) \in Nat /\ line \in 1..Len(trace) + 1
  BY TraceShape DEF SwitchInv, Shape
<1>2. Shape'
  BY <1>1 DEF SwitchInv, Shape
<1>3. ASSUME Fine PROVE Before'
  <2>1. ASSUME NEW i, i \in 1..line' - 1, LastB(i)'
        PROVE  i \in 1..line - 1 /\ LastB(i)
    <3>1. i # line \/ line' = line
      BY <1>1, <2>1 DEF LastB
    <3> QED BY <1>1, <2>1, <3>1 DEF LastB
  <2> QED BY <1>3, <2>1 DEF Fine, Before, Switched
<1>4. ASSUME Fine PROVE Fine'
  BY <1>3, <1>4 DEF Fine, Handling, Switching
<1> QED BY <1>2, <1>4 DEF SwitchInv

(* The lines that send no command, and the chunks of the others.           *)
LEMMA LinesKeep ==
    ASSUME SwitchInv,
           \/ TimeLine \/ ArithmeticLine \/ PrintLine \/ OtherLine \/ EndOfFile
           \/ SeekLine \/ TransferLine \/ Chunk \/ NextChunk
    PROVE  SwitchInv'
<1>1. CASE TimeLine \/ ArithmeticLine \/ PrintLine \/ OtherLine \/ EndOfFile
  <2>1. /\ pc = "next_line" /\ pc' \in {"next_line", "exit", "end"}
        /\ UNCHANGED <<trace, page, sg, faults>>
        /\ \/ line' = line
           \/ line' = line + 1 /\ line <= Len(trace) /\ trace[line].op # "B"
        /\ pc' = "end" => line' > Len(trace)
    BY <1>1 DEF TimeLine, ArithmeticLine, PrintLine, OtherLine, EndOfFile, AtLine, NextLine, exit,
                device, store
  <2> QED BY <2>1, Elsewhere DEF Switching, Transferring, Handling
<1>2. CASE SeekLine
  <2>1. /\ pc = "next_line" /\ pc' \in {"write", "thrown"} /\ cmd' = SeekXCmd(arg(1))
        /\ UNCHANGED <<trace, page, sg, faults>>
        /\ line' = line + 1 /\ line <= Len(trace) /\ trace[line].op # "B"
    BY <1>2, Handled DEF SeekLine, AtLine
  <2>2. cmd'.op = "S" /\ ~cmd'.info.in_data
    BY <2>1, CommandFacts
  <2> QED BY <2>1, <2>2, Elsewhere DEF Switching, Transferring, Handling, Commands
<1>3. CASE TransferLine \/ NextChunk
  <2>1. /\ pc \in {"next_line", "next_chunk"} /\ pc' = "chunk"
        /\ UNCHANGED <<trace, line, page, sg, faults>>
        /\ line <= Len(trace) /\ trace[line].op # "B"
    BY <1>3 DEF TransferLine, NextChunk, AtLine, SwitchInv, Shape, Transferring
  <2> QED BY <2>1, Elsewhere DEF Switching, Transferring, Handling
<1>4. CASE Chunk
  <2>1. /\ pc = "chunk" /\ UNCHANGED <<trace, page, sg, faults>>
        /\ line <= Len(trace) /\ trace[line].op # "B"
    BY <1>4 DEF Chunk, SwitchInv, Shape, Transferring
  <2>2. CASE cmd' = cmd /\ line' = line + 1 /\ pc' = "next_line"
    BY <2>1, <2>2, Elsewhere DEF Switching, Transferring, Handling
  <2>3. CASE /\ \E k : cmd' = ReadXCmd(rem.start, k) \/ cmd' = WriteXCmd(rem.start, k)
             /\ line' = line
             /\ pc' \in {"write", "thrown"}
    <3>1. cmd'.op \in {"R", "W"} /\ ~cmd'.info.in_data
      BY <2>3, CommandFacts
    <3> QED BY <2>1, <2>3, <3>1, Elsewhere DEF Switching, Transferring, Handling, Commands
  <2> QED BY <1>4, <2>2, <2>3, Handled
<1> QED BY <1>1, <1>2, <1>3, <1>4

(* The change of setCache: the cache is switched, no other bit moves.      *)
LEMMA ChangeSwitches ==
    ASSUME NEW p \in Page, NEW cache \in 0..2, NEW k,
           \A c \in 0..cache - 1 : Switched(p, c, k)
    PROVE  LET q == changed(p, cache, asked(k, cache))
           IN  q \in Page /\ \A c \in 0..cache : Switched(q, c, k)
<1>1. asked(k, cache) \in BOOLEAN
  BY DEF asked
<1> DEFINE b == asked(k, cache)
           q == changed(p, cache, b)
<1>2. CASE cache = 0
  <2>1. q = [p EXCEPT !.RCD = ~b]
    BY <1>2 DEF changed, setReadCache
  <2>2. q \in Page /\ (~q.RCD <=> b)
    BY <1>1, <2>1 DEF Page
  <2> QED BY <1>2, <2>2 DEF Switched
<1>3. CASE cache = 1
  <2>1. q = [p EXCEPT !.WCE = b]
    BY <1>3 DEF changed, setWriteCache
  <2>2. q \in Page /\ q.RCD = p.RCD /\ (q.WCE <=> b)
    BY <1>1, <2>1 DEF Page
  <2>3. ~p.RCD <=> asked(k, 0)
    BY <1>3 DEF Switched
  <2> QED BY <1>3, <2>2, <2>3 DEF Switched
<1>4. CASE cache = 2
  <2>1. q = [p EXCEPT !.DISC = ~b, !.ABPF = ~b, !.DRA = ~b]
    BY <1>4 DEF changed, setAbortPrefetch
  <2>2. q \in Page /\ q.RCD = p.RCD /\ q.WCE = p.WCE /\ (~q.ABPF <=> b)
    BY <1>1, <2>1 DEF Page
  <2>3. (~p.RCD <=> asked(k, 0)) /\ (p.WCE <=> asked(k, 1))
    BY <1>4 DEF Switched
  <2> QED BY <1>4, <2>2, <2>3 DEF Switched
<1> QED BY <1>2, <1>3, <1>4

LEMMA SwitchLines ==
    ASSUME SwitchInv, CacheLine \/ Sense \/ Change \/ NextCache
    PROVE  SwitchInv'
<1>1. Len(trace) \in Nat /\ line \in 1..Len(trace) + 1 /\ faults \in Nat
  BY TraceShape DEF SwitchInv, Shape
<1>2. CASE CacheLine
  <2>1. /\ pc = "next_line" /\ pc' = "sense" /\ which' = 0
        /\ UNCHANGED <<trace, line, page, sg, faults, cmd>>
        /\ line <= Len(trace) /\ trace[line].op = "B"
    BY <1>2 DEF CacheLine, AtLine
  <2>2. Shape'
    BY <2>1 DEF SwitchInv, Shape, Switching, Transferring, Handling
  <2>3. Fine => Fine'
    BY <2>1 DEF Fine, Switching, Handling
  <2> QED BY <2>1, <2>2, <2>3 DEF SwitchInv
<1>3. CASE Sense
  <2>1. /\ pc = "sense" /\ pc' \in {"write", "thrown"} /\ cmd' = ModeSenseCmd
        /\ UNCHANGED <<trace, line, which, page, sg, faults>>
        /\ cmd'.op = "sense"
    BY <1>3, Handled, CommandFacts DEF Sense
  <2>2. Shape'
    BY <2>1 DEF SwitchInv, Shape, Switching, Transferring, Handling, Commands
  <2>3. Fine => Fine'
    BY <2>1 DEF Fine, Switching, Handling, arg
  <2> QED BY <2>1, <2>2, <2>3 DEF SwitchInv
<1>4. CASE Change
  <2>1. /\ pc = "change" /\ pc' \in {"write", "thrown"} /\ cmd' = ModeSelectCmd(page_to_select)
        /\ UNCHANGED <<trace, line, which, page, sg, faults>>
        /\ cmd'.op = "select" /\ cmd'.info.in_data /\ cmd'.page = page_to_select
    BY <1>4, Handled, CommandFacts DEF Change
  <2>2. Shape'
    BY <2>1 DEF SwitchInv, Shape, Switching, Transferring, Handling, Commands
  <2>3. ASSUME Fine PROVE Fine'
    <3>1. which \in 0..2 /\ page \in Page /\ \A c \in 0..which - 1 : Switched(page, c, arg(1))
      BY <2>1, <2>3 DEF Fine, SwitchInv, Shape, Switching
    <3>2. page_to_select = changed(page, which, asked(arg(1), which))
      BY <2>1, <2>3 DEF Fine, page_to_select
    <3>3. Selected(page_to_select)
      BY <3>1, <3>2, ChangeSwitches DEF Selected
    <3>4. Selected(cmd.page)'
      BY <2>1, <3>3 DEF Selected, arg
    <3>5. sg'.state # "reply" /\ pc' # "read"
      BY <2>1, <2>3 DEF Fine
    <3> QED BY <2>1, <2>3, <3>4, <3>5 DEF Fine, Switching, Handling, arg
  <2> QED BY <2>1, <2>2, <2>3 DEF SwitchInv
<1>5. CASE NextCache
  <2>1. /\ pc = "next_cache" /\ UNCHANGED <<trace, page, sg, faults, cmd>>
        /\ line <= Len(trace) /\ trace[line].op = "B" /\ which \in 0..2
    BY <1>5 DEF NextCache, SwitchInv, Shape, Switching
  <2>2. CASE which < 2
    <3>1. which' = which + 1 /\ pc' = "sense" /\ line' = line
      BY <1>5, <2>2 DEF NextCache
    <3>2. Shape'
      BY <2>1, <2>2, <3>1 DEF SwitchInv, Shape, Switching, Transferring, Handling
    <3>3. Fine => Fine'
      BY <2>1, <3>1 DEF Fine, Switching, Handling, Selected, arg
    <3> QED BY <2>1, <3>2, <3>3 DEF SwitchInv
  <2>3. CASE ~(which < 2)
    <3>1. which' = which /\ which = 2 /\ pc' = "next_line" /\ line' = line + 1
      BY <1>5, <2>1, <2>3 DEF NextCache
    <3>2. Shape'
      BY <1>1, <2>1, <3>1 DEF SwitchInv, Shape, Switching, Transferring, Handling
    <3>3. ASSUME Fine PROVE Before'
      <4>1. \A c \in 0..2 : Switched(page, c, trace[line].arg[1])
        BY <2>1, <3>1, <3>3 DEF Fine, Selected, arg
      <4>2. ASSUME NEW i, LastB(i)' PROVE i = line
        BY <1>1, <2>1, <3>1, <4>2 DEF LastB
      <4> QED BY <2>1, <4>1, <4>2 DEF Before
    <3>4. Fine => Fine'
      BY <2>1, <3>1, <3>3 DEF Fine, Switching, Handling
    <3> QED BY <2>1, <3>2, <3>4 DEF SwitchInv
  <2> QED BY <2>2, <2>3
<1> QED BY <1>2, <1>3, <1>4, <1>5

(* Back from handleCmd: what the caller of each command goes on with.      *)
LEMMA ReturnGoesOn ==
    ASSUME SwitchInv, Return, pc \in {"write", "read"},
           UNCHANGED <<trace, line, which, page, cmd>>, faults' \in Nat,
           faults' = 0 => faults = 0,
           faults' = 0 /\ Fine => pc = "read" /\ sg.state = "reply" /\ sg'.state = "idle",
           faults' = 0 /\ Fine /\ cmd.op = "sense" => cachepage' = sg.page
    PROVE  SwitchInv'
<1>1. cmd.op \in {"R", "W", "S", "sense", "select"} /\ Commands
  BY CommandFacts DEF SwitchInv, Shape, Commands
<1>2. pc' \notin {"write", "read", "thrown", "end"}
  BY <1>1 DEF Return
<1>3. /\ Switching' <=> Switching
      /\ Transferring' => Transferring
      /\ pc' = "change" <=> cmd.op = "sense"
      /\ pc' = "next_cache" <=> cmd.op = "select"
  BY <1>1, <1>2 DEF Return, Switching, Transferring, Handling
<1>4. Shape'
  BY <1>2, <1>3 DEF SwitchInv, Shape
<1>5. ASSUME faults' = 0, Fine PROVE Fine'
  <2>1. sg.state = "reply" /\ sg'.state = "idle"
    BY <1>5
  <2>2. Before' <=> Before
    BY DEF Before, LastB
  <2>3. Switching => \A c \in 0..which' - 1 : Switched(page', c, arg(1)')
    BY <1>5 DEF Fine, arg
  <2>4. pc' = "change" => cachepage' = page'
    BY <1>3, <1>5 DEF Fine, Handling
  <2>5. pc' = "next_cache" => Selected(page)'
    <3>1. pc' = "next_cache" => Selected(page)
      BY <1>3, <1>5, <2>1 DEF Fine, Handling
    <3> QED BY <3>1 DEF Selected, arg
  <2> QED BY <1>2, <1>3, <1>5, <2>1, <2>2, <2>3, <2>4, <2>5 DEF Fine, Handling
<1> QED BY <1>4, <1>5 DEF SwitchInv

LEMMA WriteKeeps ==
    ASSUME SwitchInv, doWrite
    PROVE  SwitchInv'
<1>1. /\ pc = "write" /\ faults \in Nat
      /\ UNCHANGED <<trace, line, which, page, cmd>>
  BY DEF doWrite, SwitchInv, Shape
<1>2. CASE write_accepted
  <2>1. pc' = "read" /\ sg' = [state |-> "sent", id |-> serial, cmd |-> cmd] /\ faults' = faults
    BY <1>2 DEF write_accepted
  <2>2. sg'.state = "sent" /\ sg'.cmd = cmd
    BY <2>1
  <2>3. Shape'
    BY <1>1, <2>1 DEF SwitchInv, Shape, Switching, Transferring, Handling, Commands
  <2>4. ASSUME Fine PROVE Fine'
    <3>1. sg.state # "reply"
      BY <1>1, <2>4 DEF Fine
    <3>2. Selected(cmd.page)' <=> Selected(cmd.page)
      BY <1>1 DEF Selected, arg
    <3>3. Before' <=> Before
      BY <1>1 DEF Before, LastB
    <3> QED BY <1>1, <2>1, <2>2, <2>4, <3>1, <3>2, <3>3 DEF Fine, Switching, Handling, arg
  <2> QED BY <2>1, <2>3, <2>4 DEF SwitchInv
<1>3. CASE write_busy \/ write_failed
  <2>1. faults' \in Nat /\ Return /\ (faults' = 0 => faults = 0 /\ write_busy)
    BY <1>1, <1>3 DEF write_busy, write_failed
  <2>2. faults' = 0 => ~Fine
    BY <1>1, <2>1 DEF write_busy, Fine
  <2> QED BY <1>1, <2>1, <2>2, ReturnGoesOn
<1> QED BY <1>2, <1>3 DEF doWrite

LEMMA ReadKeeps ==
    ASSUME SwitchInv, doRead
    PROVE  SwitchInv'
<1>1. /\ pc = "read" /\ faults \in Nat /\ Return
      /\ UNCHANGED <<trace, line, which, page, cmd>>
  BY DEF doRead, SwitchInv, Shape
<1>2. faults' \in Nat /\ (faults' = 0 => faults = 0 /\ read_reply)
  BY <1>1 DEF doRead, read_reply, read_interrupted
<1>3. faults' = 0 => sg.state = "reply" /\ sg'.state = "idle"
  BY <1>2 DEF read_reply, Idle
<1>4. cmd.op = "sense" => cmd.info.result_data
  BY <1>1, CommandFacts DEF SwitchInv, Shape, Commands
<1>5. faults' = 0 /\ cmd.op = "sense" => cachepage' = sg.page
  BY <1>2, <1>4 DEF read_reply
<1> QED BY <1>1, <1>2, <1>3, <1>5, ReturnGoesOn

(* The disk serves the command the player waits for.                       *)
LEMMA ServeKeeps ==
    ASSUME SwitchInv, Serve
    PROVE  SwitchInv'
<1>1. /\ sg.state = "sent" /\ UNCHANGED <<trace, line, pc, which, cachepage, cmd>>
      /\ faults \in Nat
  BY DEF Serve, SwitchInv, Shape
<1>2. faults' \in Nat /\ (faults' = 0 => faults = 0)
  BY <1>1 DEF Serve
<1>3. Shape'
  BY <1>1, <1>2 DEF SwitchInv, Shape, Switching, Transferring, Handling, Commands
<1>4. ASSUME faults' = 0, Fine PROVE Fine'
  <2>1. pc = "read" /\ sg.cmd = cmd
    BY <1>1, <1>4 DEF Fine
  <2>2. /\ page' = IF cmd.info.in_data THEN cmd.page ELSE page
        /\ sg' = [state |-> "reply", id |-> sg.id, page |-> page]
    BY <1>1, <1>4, <2>1 DEF Serve
  <2>3. sg'.state = "reply" /\ sg'.page = page
    BY <2>2
  <2>4. Commands
    BY <2>1 DEF SwitchInv, Shape
  <2>5. CASE cmd.op = "select"
    <3>1. page' = cmd.page /\ Selected(cmd.page) /\ which \in 0..2
      BY <1>1, <1>4, <2>1, <2>2, <2>4, <2>5, CommandFacts
         DEF Fine, Handling, Commands, SwitchInv, Shape, Switching
    <3>2. page' \in Page /\ \A c \in 0..which : Switched(page', c, arg(1))
      BY <3>1 DEF Selected
    <3>3. \A c \in 0..which - 1 : Switched(page', c, arg(1))
      BY <3>1, <3>2
    <3>4. Selected(page)'
      BY <1>1, <3>2 DEF Selected, arg
    <3> QED BY <1>1, <2>1, <2>3, <2>5, <3>2, <3>3, <3>4 DEF Fine, Switching, Handling, arg
  <2>6. CASE cmd.op # "select"
    <3>1. page' = page
      BY <2>2, <2>4, <2>6, CommandFacts DEF Commands
    <3>2. Before' <=> Before
      BY <1>1, <3>1 DEF Before, LastB
    <3> QED BY <1>1, <1>4, <2>1, <2>3, <2>6, <3>1, <3>2 DEF Fine, Switching, Handling, arg
  <2> QED BY <2>5, <2>6
<1> QED BY <1>2, <1>3, <1>4 DEF SwitchInv

(* After a trace without failures the disk has its three caches as the     *)
(* last B line says and the rest of its caching page as it was, whatever   *)
(* the trace does besides (executeTraceFile, setCache).                    *)
THEOREM CachesSwitched == Spec => []CachesAsAsked
<1>1. Init => SwitchInv
  <2> SUFFICES ASSUME Init PROVE SwitchInv
    OBVIOUS
  <2>1. /\ trace \in Traces /\ Len(trace) \in Nat /\ line = 1 /\ pc = "next_line" /\ faults = 0
        /\ sg.state = "idle" /\ page \in Page
    BY TraceShape, SizesAssumption DEF Init, Idle, Page
  <2>2. Before
    BY <2>1 DEF Before
  <2> QED BY <2>1, <2>2 DEF SwitchInv, Shape, Fine, Switching, Transferring, Handling
<1>2. SwitchInv /\ [Next]_vars => SwitchInv'
  <2> SUFFICES ASSUME SwitchInv, [Next]_vars PROVE SwitchInv'
    OBVIOUS
  <2>1. CASE UNCHANGED vars
    BY <2>1 DEF vars, player, SwitchInv, Shape, Fine, Switching, Transferring, Handling, Commands,
                Before, LastB, Selected, arg
  <2> QED BY <2>1, LinesKeep, SwitchLines, WriteKeeps, ReadKeeps, ServeKeeps DEF Next
<1>3. SwitchInv => CachesAsAsked
  <2> SUFFICES ASSUME SwitchInv, pc = "end", faults = 0,
                      NEW i \in 1..Len(trace), trace[i].op = "B",
                      \A j \in i + 1..Len(trace) : trace[j].op # "B"
               PROVE  /\ ~page.RCD <=> asked(trace[i].arg[1], 0)
                      /\ page.WCE <=> asked(trace[i].arg[1], 1)
                      /\ ~page.ABPF <=> asked(trace[i].arg[1], 2)
                      /\ page.rest = RestOfPage
    BY DEF CachesAsAsked
  <2>1. line = Len(trace) + 1 /\ Len(trace) \in Nat
    BY TraceShape DEF SwitchInv, Shape
  <2>2. page \in Page /\ Before
    BY DEF SwitchInv, Fine, Switching, Handling
  <2>3. \A c \in 0..2 : Switched(page, c, trace[i].arg[1])
    BY <2>1, <2>2 DEF Before, LastB
  <2>4. /\ ~page.RCD <=> asked(trace[i].arg[1], 0)
        /\ page.WCE <=> asked(trace[i].arg[1], 1)
        /\ ~page.ABPF <=> asked(trace[i].arg[1], 2)
    <3>1. Switched(page, 0, trace[i].arg[1]) /\ Switched(page, 1, trace[i].arg[1])
          /\ Switched(page, 2, trace[i].arg[1])
      BY <2>3
    <3> QED BY <3>1 DEF Switched
  <2> QED BY <2>2, <2>4 DEF Page
<1> QED BY <1>1, <1>2, <1>3, PTL DEF Spec
=============================================================================
