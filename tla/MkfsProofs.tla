----------------------------- MODULE MkfsProofs -----------------------------
(***************************************************************************)
(* Proofs about Mkfs, for any sizes of the structures in layout.h, any     *)
(* device and older image, any inode count and any number of crashes: the  *)
(* plan fits, and an image that a mount accepts is complete.               *)
(*                                                                         *)
(* The first part is the arithmetic of the plan, which is why planning a   *)
(* second time for the rounded inode count, as every mount does, finds the *)
(* same regions. The second shows that what mkfs writes, taken together,   *)
(* keeps the rules of layout.h. The third takes the steps one by one.      *)
(***************************************************************************)
EXTENDS Mkfs, FiniteSetTheorems, WellFoundedInduction, TLAPS

-----------------------------------------------------------------------------
(* Division *)

\* A product of a positive number is at least the other factor.
LEMMA Product ==
  ASSUME NEW b \in Nat \ {0}, NEW q \in Nat \ {0}
  PROVE  b * q \in Nat /\ b * q >= b
OBVIOUS

\* The multiples of a number grow.
LEMMA Multiples ==
  ASSUME NEW b \in Nat \ {0}, NEW p \in Nat, NEW q \in Nat
  PROVE  /\ b * p \in Nat /\ b * q \in Nat
         /\ p <= q => b * q >= b * p
         /\ p < q => b * q >= b * p + b
<1>1. b * p \in Nat /\ b * q \in Nat
  OBVIOUS
<1>2. CASE p = q
  BY <1>1, <1>2
<1>3. CASE p < q
  <2>1. PICK y \in Nat \ {0} : q = p + y
    <3>1. q - p \in Nat \ {0} /\ q = p + (q - p)
      BY <1>3
    <3> QED BY <3>1
  <2>2. b * q = b * p + b * y
    BY <2>1
  <2>3. b * y \in Nat /\ b * y >= b
    BY <2>1, Product
  <2> QED BY <1>1, <2>2, <2>3
<1>4. CASE p > q
  BY <1>1, <1>4
<1> QED BY <1>2, <1>3, <1>4

\* Quotient and remainder.
LEMMA Division ==
  ASSUME NEW a \in Nat, NEW b \in Nat \ {0}
  PROVE  a \div b \in Nat /\ a % b \in 0..(b - 1) /\ a = b * (a \div b) + (a % b)
OBVIOUS

\* There is only one of each.
LEMMA Quotient ==
  ASSUME NEW a \in Nat, NEW b \in Nat \ {0}, NEW q \in Nat, NEW r \in 0..(b - 1), a = b * q + r
  PROVE  a \div b = q /\ a % b = r
<1> PICK x \in Nat, y \in 0..(b - 1) : x = a \div b /\ y = a % b /\ a = b * x + y
  BY Division
<1>1. b * (x - q) = r - y
  OBVIOUS
<1>2. CASE x > q
  <2>1. b * (x - q) >= b
    BY <1>2, Product
  <2> QED BY <2>1, <1>1
<1>3. CASE q > x
  <2>1. b * (q - x) >= b
    BY <1>3, Product
  <2>2. b * (q - x) = y - r
    BY <1>1
  <2> QED BY <2>1, <2>2
<1>4. CASE x = q
  BY <1>4
<1> QED BY <1>2, <1>3, <1>4

\* CeilDiv rounds up, and a multiple not at all.
LEMMA Ceiling ==
  ASSUME NEW a \in Nat, NEW b \in Nat \ {0}
  PROVE  /\ CeilDiv(a, b) \in Nat /\ b * CeilDiv(a, b) >= a
         /\ a # 0 => CeilDiv(a, b) # 0
<1> PICK n \in Nat : n = a + b - 1
  OBVIOUS
<1> PICK x \in Nat, y \in 0..(b - 1) : x = n \div b /\ n = b * x + y
  BY Division
<1>1. CeilDiv(a, b) = x
  BY DEF CeilDiv
<1>2. a # 0 => x # 0
  OBVIOUS
<1>3. b * x >= a
  OBVIOUS
<1> QED BY <1>1, <1>2, <1>3

\* Of a multiple nothing is rounded up.
LEMMA CeilingOfMultiple ==
  ASSUME NEW k \in Nat, NEW b \in Nat \ {0}
  PROVE  CeilDiv(b * k, b) = k /\ CeilDiv(k * b, b) = k /\ (b * k) \div b = k
<1> PICK p \in Nat : p = b * k
  OBVIOUS
<1>1. p \div b = k
  BY Quotient
<1>2. (p + b - 1) \div b = k
  <2>1. p + b - 1 = b * k + (b - 1)
    OBVIOUS
  <2> QED BY <2>1, Quotient, p + b - 1 \in Nat
<1>3. k * b = p
  OBVIOUS
<1> QED BY <1>1, <1>2, <1>3 DEF CeilDiv

\* The larger of two.
LEMMA LargerOf ==
  ASSUME NEW a \in Nat, NEW b \in Nat
  PROVE  Max({a, b}) = IF a >= b THEN a ELSE b
<1>1. \A x \in {a, b} : (\A y \in {a, b} : x >= y) => x = IF a >= b THEN a ELSE b
  OBVIOUS
<1>2. \E x \in {a, b} : \A y \in {a, b} : x >= y
  OBVIOUS
<1> QED BY <1>1, <1>2 DEF Max

-----------------------------------------------------------------------------
(* The plan *)

\* The sizes of layout.h.
LEMMA Sizes ==
  /\ {BLOCK_SIZE, WORD_BITS, WORDS_PER_BLOCK, DIRECT_PTRS, PTRS_PER_BLOCK, BLOCKS_PER_INODE, UINT32_MAX}
        \subseteq Nat \ {0}
  /\ {INODES_PER_BLOCK, DIRENTS_PER_BLOCK} \subseteq Nat \ {0, 1}
  /\ BITS_PER_BLOCK \in Nat \ {0}
<1>1. WORD_BITS \in Nat \ {0} /\ WORDS_PER_BLOCK \in Nat \ {0}
  BY LayoutAssumption
<1>2. BITS_PER_BLOCK \in Nat \ {0}
  BY <1>1, Product DEF BITS_PER_BLOCK
<1> QED BY <1>2, LayoutAssumption

\* blocks_for leaves room for every bit.
LEMMA BlocksFor ==
  ASSUME NEW n \in Nat
  PROVE  blocks_for(n) \in Nat /\ n <= blocks_for(n) * BITS_PER_BLOCK /\ (n # 0 => blocks_for(n) # 0)
<1>1. BITS_PER_BLOCK \in Nat \ {0}
  BY Sizes
<1>2. PICK c \in Nat : c = CeilDiv(n, BITS_PER_BLOCK) /\ BITS_PER_BLOCK * c >= n /\ (n # 0 => c # 0)
  BY <1>1, Ceiling
<1>3. c * BITS_PER_BLOCK = BITS_PER_BLOCK * c
  BY <1>1
<1> QED BY <1>1, <1>2, <1>3 DEF blocks_for

\* The plan with k blocks of inodes, and whether it fits.
PlanOf(n, k) ==
    LET c == INODES_PER_BLOCK * k IN
    [magic |-> MAGIC, block_size |-> BLOCK_SIZE, total_blocks |-> n,
     inode_count |-> c, inode_bitmap_start |-> 1,
     data_bitmap_start |-> 1 + blocks_for(c),
     inode_table_start |-> 1 + blocks_for(c) + blocks_for(n),
     data_start |-> 1 + blocks_for(c) + blocks_for(n) + k,
     root_inode |-> ROOT_INODE, clean_unmount |-> 1, last_checkpoint_lsn |-> 0]
Fitting(n, k) == /\ INODES_PER_BLOCK * k <= UINT32_MAX
                 /\ 1 + blocks_for(INODES_PER_BLOCK * k) + blocks_for(n) + k < n

\* What plan_layout answers: the number of inodes is rounded to a whole number of
\* blocks, and the rest follows.
LEMMA PlanShape ==
  ASSUME NEW n \in Nat, NEW m \in Nat
  PROVE  \E k \in Nat \ {0} :
           /\ m # 0 => k = CeilDiv(m, INODES_PER_BLOCK)
           /\ plan_layout(n, m) = IF Fitting(n, k) THEN PlanOf(n, k) ELSE Refused
<1>1. INODES_PER_BLOCK \in Nat \ {0} /\ BLOCKS_PER_INODE \in Nat \ {0} /\ UINT32_MAX \in Nat
  BY Sizes
<1> PICK i \in Nat \ {0} : i = INODES_PER_BLOCK
  BY <1>1
<1> DEFINE asked == IF m # 0 THEN m ELSE n \div BLOCKS_PER_INODE
<1>2. asked \in Nat
  BY <1>1, Division
<1>3. PICK q \in Nat : q = CeilDiv(asked, i) /\ (asked # 0 => q # 0)
  BY <1>2, Ceiling
<1> DEFINE k == IF q = 0 THEN 1 ELSE q
<1>4. k \in Nat \ {0} /\ (m # 0 => k = CeilDiv(m, INODES_PER_BLOCK))
  BY <1>3
<1>5. PICK c \in Nat : c = i * k
  BY <1>4
<1>6. Max({CeilDiv(asked, i) * i, i}) = c
  <2>1. q * i \in Nat
    OBVIOUS
  <2>2. Max({q * i, i}) = IF q * i >= i THEN q * i ELSE i
    BY <2>1, LargerOf
  <2>3. CASE q = 0
    BY <2>2, <2>3, <1>3, <1>5
  <2>4. CASE q # 0
    <3>1. i * q >= i /\ i * q = q * i
      BY <2>4, Product
    <3> QED BY <3>1, <2>2, <2>4, <1>3, <1>5
  <2> QED BY <2>3, <2>4
<1>7. c \div i = k
  BY <1>4, <1>5, CeilingOfMultiple
<1>8. blocks_for(c) \in Nat /\ blocks_for(n) \in Nat
  BY BlocksFor
<1> HIDE DEF k
<1>9. plan_layout(n, m) = IF c > UINT32_MAX \/ 1 + blocks_for(c) + blocks_for(n) + k >= n
                          THEN Refused ELSE PlanOf(n, k)
  BY <1>6, <1>7, <1>5 DEF plan_layout, PlanOf
<1>10. plan_layout(n, m) = IF Fitting(n, k) THEN PlanOf(n, k) ELSE Refused
  BY <1>9, <1>8, <1>5, <1>4, <1>1 DEF Fitting
<1> QED BY <1>10, <1>4

\* A plan is not the refusal.
LEMMA PlanNotRefused ==
  ASSUME NEW n \in Nat, NEW k \in Nat
  PROVE  PlanOf(n, k) # Refused
BY DEF PlanOf, Refused, MAGIC

\* Planning again for the inodes a plan has gives the same plan.
LEMMA Replan ==
  ASSUME NEW n \in Nat, NEW m \in Nat, plan_layout(n, m) # Refused
  PROVE  \E k \in Nat \ {0} :
           /\ Fitting(n, k) /\ plan_layout(n, m) = PlanOf(n, k)
           /\ INODES_PER_BLOCK * k \in Nat \ {0} /\ PlanOf(n, k).inode_count = INODES_PER_BLOCK * k
           /\ plan_layout(n, INODES_PER_BLOCK * k) = PlanOf(n, k)
<1>1. PICK k \in Nat \ {0} : plan_layout(n, m) = IF Fitting(n, k) THEN PlanOf(n, k) ELSE Refused
  BY PlanShape
<1>2. INODES_PER_BLOCK \in Nat \ {0}
  BY Sizes
<1>3. PICK c \in Nat \ {0} : c = INODES_PER_BLOCK * k
  BY <1>2, Product
<1>4. CeilDiv(c, INODES_PER_BLOCK) = k
  BY <1>2, <1>3, CeilingOfMultiple
<1>5. plan_layout(n, c) = IF Fitting(n, k) THEN PlanOf(n, k) ELSE Refused
  BY <1>4, PlanShape
<1>6. PlanOf(n, k).inode_count = c
  BY <1>3 DEF PlanOf
<1> QED BY <1>1, <1>3, <1>5, <1>6

\* What the invariant says of a plan.
LEMMA PlannedShape ==
  ASSUME NEW n \in Nat, NEW s, Planned(s, n)
  PROVE  \E k \in Nat \ {0} : Fitting(n, k) /\ s = PlanOf(n, k)
BY Replan DEF Planned

\* What plan_layout makes is planned.
LEMMA PlanIsPlanned ==
  ASSUME NEW n \in Nat, NEW m \in Nat, plan_layout(n, m) # Refused
  PROVE  Planned(plan_layout(n, m), n)
BY Replan DEF Planned

\* The regions of a plan: one after the other, each with a place for what it holds.
LEMMA Regions ==
  ASSUME NEW n \in Nat, NEW k \in Nat \ {0}, Fitting(n, k), NEW s, s = PlanOf(n, k)
  PROVE  /\ s.magic = MAGIC /\ s.block_size = BLOCK_SIZE /\ s.total_blocks = n
         /\ s.root_inode = ROOT_INODE
         /\ s.inode_count \in Nat /\ s.inode_count >= 2 /\ s.inode_count = INODES_PER_BLOCK * k
         /\ blocks_for(s.inode_count) \in Nat \ {0} /\ blocks_for(n) \in Nat \ {0}
         /\ s.inode_bitmap_start = 1
         /\ s.data_bitmap_start = 1 + blocks_for(s.inode_count)
         /\ s.inode_table_start = s.data_bitmap_start + blocks_for(n)
         /\ s.data_start = s.inode_table_start + k
         /\ s.data_bitmap_start \in Nat /\ s.inode_table_start \in Nat
         /\ s.data_start \in 3..(n - 1)
<1>1. INODES_PER_BLOCK \in Nat \ {0, 1}
  BY Sizes
<1>2. PICK c \in Nat : c = INODES_PER_BLOCK * k /\ c >= INODES_PER_BLOCK
  BY <1>1, Product
<1>3. n # 0
  <2>1. blocks_for(c) \in Nat /\ blocks_for(n) \in Nat
    BY BlocksFor
  <2> QED BY <2>1, <1>2 DEF Fitting
<1>4. blocks_for(c) \in Nat \ {0} /\ blocks_for(n) \in Nat \ {0}
  BY <1>1, <1>2, <1>3, BlocksFor
<1>5. s.inode_count = c
  BY <1>2 DEF PlanOf
<1>6. /\ s.magic = MAGIC /\ s.block_size = BLOCK_SIZE /\ s.total_blocks = n
      /\ s.root_inode = ROOT_INODE
      /\ s.inode_bitmap_start = 1
      /\ s.data_bitmap_start = 1 + blocks_for(c)
      /\ s.inode_table_start = 1 + blocks_for(c) + blocks_for(n)
      /\ s.data_start = 1 + blocks_for(c) + blocks_for(n) + k
  BY <1>2 DEF PlanOf
<1>7. 1 + blocks_for(c) + blocks_for(n) + k < n
  BY <1>2 DEF Fitting
<1> QED BY <1>1, <1>2, <1>4, <1>5, <1>6, <1>7

\* Every mount accepts a plan.
LEMMA PlanValid ==
  ASSUME NEW n \in Nat, NEW s, Planned(s, n)
  PROVE  validate_superblock(s, n)
<1>1. PICK k \in Nat \ {0} : Fitting(n, k) /\ s = PlanOf(n, k)
  BY PlannedShape
<1>2. s.magic = MAGIC /\ s.block_size = BLOCK_SIZE /\ s.total_blocks = n /\ s.root_inode = ROOT_INODE
  BY <1>1, Regions
<1>3. plan_layout(s.total_blocks, s.inode_count) = s /\ s # Refused
  BY <1>2 DEF Planned
<1> QED BY <1>2, <1>3 DEF validate_superblock

\* The blocks of the inode table.
LEMMA TableBlocks ==
  ASSUME NEW n \in Nat, NEW k \in Nat \ {0}, Fitting(n, k), NEW s, s = PlanOf(n, k),
         NEW id \in 0..(s.inode_count - 1)
  PROVE  /\ inode_block(s, id) \in s.inode_table_start..(s.data_start - 1)
         /\ inode_offset(id) \in 0..(INODES_PER_BLOCK - 1)
         /\ id <= ROOT_INODE => inode_block(s, id) = s.inode_table_start /\ inode_offset(id) = id
         /\ inode_block(s, id) = s.inode_table_start /\ inode_offset(id) = ROOT_INODE => id = ROOT_INODE
         /\ id = s.inode_count - 1 => inode_block(s, id) = s.data_start - 1
<1> PICK i \in Nat \ {0, 1} : i = INODES_PER_BLOCK
  BY Sizes
<1>1. /\ s.inode_count \in Nat /\ s.inode_count = i * k /\ s.inode_table_start \in Nat
      /\ s.data_start = s.inode_table_start + k
  BY Regions
<1>2. id \in Nat /\ id < i * k
  BY <1>1
<1>0. id \in Nat /\ i \in Nat \ {0}
  BY <1>2
<1>3. PICK q \in Nat, r \in 0..(i - 1) : q = id \div i /\ r = id % i /\ id = i * q + r
  <2>1. id \div i \in Nat /\ id % i \in 0..(i - 1) /\ id = i * (id \div i) + (id % i)
    BY <1>0, Division
  <2> QED BY <2>1
<1>4. q < k
  <2> SUFFICES ASSUME q >= k PROVE FALSE
    OBVIOUS
  <2>1. PICK x \in Nat : q = k + x
    OBVIOUS
  <2>2. i * q = i * k + i * x /\ i * x \in Nat
    BY <2>1
  <2> QED BY <2>2, <1>2, <1>3
<1>5. id <= 1 => q = 0 /\ r = id
  <2>1. SUFFICES ASSUME id <= 1 PROVE q = 0 /\ r = id
    OBVIOUS
  <2>2. id = i * 0 + id /\ id \in 0..(i - 1)
    BY <2>1, <1>2
  <2>3. id \div i = 0 /\ id % i = id
    BY <2>2, <1>0, Quotient, 0 \in Nat
  <2> QED BY <2>3, <1>3
<1>6. q = 0 /\ r = 1 => id = 1
  BY <1>3
<1>7. id = i * k - 1 => q = k - 1
  <2>1. SUFFICES ASSUME id = i * k - 1 PROVE q = k - 1
    OBVIOUS
  <2>2. id = i * (k - 1) + (i - 1)
    BY <2>1
  <2>3. id \div i = k - 1
    BY <2>2, <1>0, Quotient, k - 1 \in Nat, i - 1 \in 0..(i - 1)
  <2> QED BY <2>3, <1>3
<1> QED BY <1>1, <1>3, <1>4, <1>5, <1>6, <1>7 DEF inode_block, inode_offset, ROOT_INODE

-----------------------------------------------------------------------------
(* Bitmaps on the disk *)

\* Where bit i of a bitmap is: in word w of block k.
LEMMA WordOf ==
  ASSUME NEW n \in Nat, NEW i \in 0..(n - 1)
  PROVE  LET k == i \div BITS_PER_BLOCK
             w == (i % BITS_PER_BLOCK) \div WORD_BITS
         IN  /\ k \in 0..(blocks_for(n) - 1) /\ w \in 0..(WORDS_PER_BLOCK - 1)
             /\ k * WORDS_PER_BLOCK + w \in Words(n) /\ i % WORD_BITS \in Bits
             /\ (k * WORDS_PER_BLOCK + w) * WORD_BITS + (i % WORD_BITS) = i
<1> PICK B \in Nat \ {0}, P \in Nat \ {0}, f \in Nat :
        B = WORD_BITS /\ P = WORDS_PER_BLOCK /\ BITS_PER_BLOCK = B * P /\ f = blocks_for(n)
        /\ n <= f * (B * P) /\ B * P \in Nat \ {0}
  <2>1. WORD_BITS \in Nat \ {0} /\ WORDS_PER_BLOCK \in Nat \ {0} /\ BITS_PER_BLOCK \in Nat \ {0}
    BY Sizes
  <2>2. blocks_for(n) \in Nat /\ n <= blocks_for(n) * BITS_PER_BLOCK
    BY BlocksFor
  <2> QED BY <2>1, <2>2 DEF BITS_PER_BLOCK
<1> PICK T \in Nat \ {0} : T = B * P
  OBVIOUS
<1>1. PICK k \in Nat, r \in 0..(T - 1) : k = i \div T /\ r = i % T /\ i = T * k + r
  <2>1. i \div T \in Nat /\ i % T \in 0..(T - 1) /\ i = T * (i \div T) + (i % T)
    BY Division, i \in Nat
  <2> QED BY <2>1
<1>2. PICK w \in Nat, z \in 0..(B - 1) : w = r \div B /\ r = B * w + z
  <2>1. r \div B \in Nat /\ r % B \in 0..(B - 1) /\ r = B * (r \div B) + (r % B)
    BY Division, r \in Nat
  <2> QED BY <2>1
<1>3. k < f
  <2> SUFFICES ASSUME k >= f PROVE FALSE
    OBVIOUS
  <2>1. PICK x \in Nat : x = k - f
    OBVIOUS
  <2>2. T * k = f * T + T * x /\ T * x \in Nat
    BY <2>1
  <2> QED BY <2>2, <1>1
<1>4. w < P
  <2> SUFFICES ASSUME w >= P PROVE FALSE
    OBVIOUS
  <2>1. PICK x \in Nat : w = P + x
    OBVIOUS
  <2>2. B * w = B * P + B * x /\ B * x \in Nat
    BY <2>1
  <2> QED BY <2>2, <1>1, <1>2
<1>5. PICK v \in Nat : v = k * P + w
  OBVIOUS
<1>6. i = B * v + z
  <2>1. B * v = B * (k * P) + B * w
    BY <1>5
  <2>2. B * (k * P) = T * k
    OBVIOUS
  <2>3. PICK x \in Nat, y \in Nat, u \in Nat : x = B * v /\ y = T * k /\ u = B * w
    OBVIOUS
  <2>4. x = y + u /\ i = y + r /\ r = u + z
    BY <2>1, <2>2, <2>3, <1>1, <1>2
  <2>5. i = x + z
    BY <2>4
  <2> QED BY <2>3, <2>5
<1>7. i % B = z
  BY <1>6, Quotient, i \in Nat
<1>8. v \in 0..(f * P - 1)
  <2>1. PICK x \in Nat : x = f - k - 1
    BY <1>3
  <2>2. f * P = k * P + P + x * P /\ x * P \in Nat
    BY <2>1
  <2> QED BY <2>2, <1>4, <1>5
<1>9. v * B = B * v
  OBVIOUS
<1>10. /\ k \in 0..(f - 1) /\ w \in 0..(P - 1) /\ k * P + w \in 0..(f * P - 1)
       /\ i % B \in 0..(B - 1) /\ (k * P + w) * B + (i % B) = i
  <2>1. v * B + (i % B) = i
    BY <1>6, <1>7, <1>9
  <2>2. i % B \in 0..(B - 1)
    BY <1>7
  <2>3. k * P + w \in 0..(f * P - 1)
    BY <1>5, <1>8
  <2>4. (k * P + w) * B + (i % B) = i
    BY <1>5, <2>1
  <2> QED BY <1>3, <1>4, <2>2, <2>3, <2>4
<1>11. k = i \div BITS_PER_BLOCK /\ w = (i % BITS_PER_BLOCK) \div WORD_BITS
  BY <1>1, <1>2
<1> QED BY <1>10, <1>11 DEF Words, Bits

\* A bitmap that is stored reads back: bit i is set exactly if it was marked.
LEMMA BitStored ==
  ASSUME NEW d, NEW start \in Nat, NEW n \in Nat, NEW S, NEW i \in 0..(n - 1),
         Stored(d, start, Marked(n, S), n)
  PROVE  Bit(d, start, i) <=> i \in S
<1> DEFINE k == i \div BITS_PER_BLOCK
           w == (i % BITS_PER_BLOCK) \div WORD_BITS
           v == k * WORDS_PER_BLOCK + w
<1>1. /\ k \in 0..(blocks_for(n) - 1) /\ w \in 0..(WORDS_PER_BLOCK - 1)
      /\ v \in Words(n) /\ i % WORD_BITS \in Bits
      /\ v * WORD_BITS + (i % WORD_BITS) = i
  BY WordOf
<1> HIDE DEF k, w
<1>2. d[start + k] = BitsBlock(block_words(Marked(n, S), k))
  BY <1>1 DEF Stored
<1>3. AsBits(d[start + k]) = block_words(Marked(n, S), k)
  BY <1>2 DEF AsBits, BitsBlock
<1>4. block_words(Marked(n, S), k)[w] = Marked(n, S)[v]
  BY <1>1 DEF block_words
<1>5. Marked(n, S)[v] = {b \in Bits : v * WORD_BITS + b \in S}
  BY <1>1 DEF Marked
<1> HIDE DEF v
<1>6. Bit(d, start, i) <=> i % WORD_BITS \in AsBits(d[start + k])[w]
  BY DEF Bit, k, w
<1> QED BY <1>1, <1>3, <1>4, <1>5, <1>6

-----------------------------------------------------------------------------
(* A complete image keeps the rules *)

\* The fields of the root's inode.
LEMMA RootFields ==
  ASSUME NEW block
  PROVE  /\ RootInode(block).id = ROOT_INODE /\ RootInode(block).mode = "dir"
         /\ RootInode(block).link_count = 2 /\ RootInode(block).size = BLOCK_SIZE
         /\ RootInode(block).block_count = 1
         /\ RootInode(block).single_indirect = 0 /\ RootInode(block).double_indirect = 0
         /\ \A i \in 1..DIRECT_PTRS : RootInode(block).direct[i] = IF i = 1 THEN block ELSE 0
BY DEF RootInode, ZeroInode

\* Its one pointer is the one to its block.
LEMMA RootOwns ==
  ASSUME NEW d, NEW s, NEW block \in Nat \ {0}, s.data_start = block, s.total_blocks \in Nat
  PROVE  Owns(d, s, RootInode(block)) = {<<"data", 0, block>>}
<1> DEFINE ino == RootInode(block)
           none == PtrsOn(d, s, 0)
           A == {<<"data", i - 1, ino.direct[i]>> : i \in 1..DIRECT_PTRS}
           B == {<<"single", 0, 0>>, <<"double", 0, 0>>}
           C == {<<"data", DIRECT_PTRS + j - 1, none[j]>> : j \in 1..PTRS_PER_BLOCK}
           D == {<<"second", j, none[j]>> : j \in 1..PTRS_PER_BLOCK}
           E == {<<"data", DIRECT_PTRS + j * PTRS_PER_BLOCK + k - 1, PtrsOn(d, s, none[j])[k]>>
                    : j, k \in 1..PTRS_PER_BLOCK}
<1>1. none = [j \in 1..PTRS_PER_BLOCK |-> 0]
  <2>1. 0 \notin Region(s)
    BY DEF Region
  <2> QED BY <2>1 DEF PtrsOn
<1>2. /\ ino.single_indirect = 0 /\ ino.double_indirect = 0
      /\ \A i \in 1..DIRECT_PTRS : ino.direct[i] = IF i = 1 THEN block ELSE 0
  BY RootFields
<1>3. Owns(d, s, ino) = {p \in A \cup B \cup C \cup D \cup E : p[3] # 0}
  <2> HIDE DEF ino
  <2> QED BY <1>2 DEF Owns
<1> HIDE DEF ino, none
<1>4. \A p \in A : p[3] # 0 <=> p = <<"data", 0, block>>
  BY <1>2
<1>5. \A p \in B \cup C \cup D : p[3] = 0
  BY <1>1
<1>6. \A p \in E : p[3] = 0
  <2>1. \A j, k \in 1..PTRS_PER_BLOCK : PtrsOn(d, s, none[j])[k] = 0
    <3>1. \A j \in 1..PTRS_PER_BLOCK : PtrsOn(d, s, none[j]) = none
      BY <1>1 DEF none
    <3> QED BY <3>1, <1>1
  <2> QED BY <2>1
<1>7. <<"data", 0, block>> \in A
  <2>1. 1 \in 1..DIRECT_PTRS
    BY Sizes
  <2>2. <<"data", 1 - 1, ino.direct[1]>> \in A
    BY <2>1
  <2> QED BY <2>1, <2>2, <1>2
<1>8. <<"data", 0, block>>[3] # 0
  OBVIOUS
<1> HIDE DEF A, B, C, D, E
<1> QED BY <1>3, <1>4, <1>5, <1>6, <1>7, <1>8 DEF ino

\* The slots of the root: "." and "..", and no other.
RootSlots == {[dir |-> ROOT_INODE, slot |-> i - 1, e |-> RootEntries[i]] : i \in 1..DIRENTS_PER_BLOCK}

\* The slots of the root directory: ".", ".." and free ones.
LEMMA RootSlotsAre ==
  LET dot == [dir |-> ROOT_INODE, slot |-> 0, e |-> make_entry(".", ROOT_INODE, "dir")]
      dots == [dir |-> ROOT_INODE, slot |-> 1, e |-> make_entry("..", ROOT_INODE, "dir")]
  IN  /\ dot \in RootSlots /\ dots \in RootSlots /\ dot # dots
      /\ \A n \in RootSlots \ {dot, dots} : n.slot >= 2 /\ n.e = ZeroEntry /\ n.e.inode_id = 0
<1>1. {1, 2} \subseteq 1..DIRENTS_PER_BLOCK
  BY Sizes
<1>2. \A i \in 1..DIRENTS_PER_BLOCK :
        RootEntries[i] = IF i = 1 THEN make_entry(".", ROOT_INODE, "dir")
                         ELSE IF i = 2 THEN make_entry("..", ROOT_INODE, "dir") ELSE ZeroEntry
  BY DEF RootEntries
<1> DEFINE dot == [dir |-> ROOT_INODE, slot |-> 0, e |-> make_entry(".", ROOT_INODE, "dir")]
           dots == [dir |-> ROOT_INODE, slot |-> 1, e |-> make_entry("..", ROOT_INODE, "dir")]
           at(i) == [dir |-> ROOT_INODE, slot |-> i - 1, e |-> RootEntries[i]]
<1>3. at(1) = dot /\ at(2) = dots
  BY <1>1, <1>2
<1>4. dot \in RootSlots /\ dots \in RootSlots
  BY <1>1, <1>3 DEF RootSlots
<1>5. dot.slot = 0 /\ dots.slot = 1
  OBVIOUS
<1>6. ASSUME NEW n \in RootSlots, n # dot, n # dots
      PROVE  n.slot >= 2 /\ n.e = ZeroEntry /\ n.e.inode_id = 0
  <2>1. PICK i \in 1..DIRENTS_PER_BLOCK : n = at(i)
    BY DEF RootSlots
  <2>2. i # 1 /\ i # 2
    BY <2>1, <1>3, <1>6
  <2>3. n.slot = i - 1 /\ n.e = ZeroEntry
    BY <2>1, <2>2, <1>2
  <2>4. DIRENTS_PER_BLOCK \in Nat
    BY Sizes
  <2>5. i - 1 >= 2
    BY <2>2, <2>4
  <2>6. ZeroEntry.inode_id = 0
    BY DEF ZeroEntry
  <2>7. n.slot >= 2
    BY <2>3, <2>5
  <2> QED BY <2>3, <2>6, <2>7
<1> QED BY <1>4, <1>5, <1>6

\* The entries found on the disk are those of the root directory's block.
LEMMA RootEntriesOn ==
  ASSUME NEW d, NEW s, NEW block \in Region(s), d[block] = DirBlock(RootEntries)
  PROVE  EntriesOn(d, s, ROOT_INODE, {<<"data", 0, block>>}) = RootSlots
<1>1. AsEntries(d[block]) = RootEntries
  BY DEF AsEntries, DirBlock
<1>2. \A i \in 1..DIRENTS_PER_BLOCK : 0 * DIRENTS_PER_BLOCK + i - 1 = i - 1
  BY Sizes
<1>3. {q \in {<<"data", 0, block>>} : q[1] = "data" /\ q[3] \in Region(s)} = {<<"data", 0, block>>}
  OBVIOUS
<1> DEFINE slots(p) == {[dir |-> ROOT_INODE, slot |-> p[2] * DIRENTS_PER_BLOCK + i - 1,
                         e |-> AsEntries(d[p[3]])[i]] : i \in 1..DIRENTS_PER_BLOCK}
<1>4. EntriesOn(d, s, ROOT_INODE, {<<"data", 0, block>>}) = UNION {slots(p) : p \in {<<"data", 0, block>>}}
  BY <1>3 DEF EntriesOn
<1>5. slots(<<"data", 0, block>>) = RootSlots
  BY <1>1, <1>2 DEF RootSlots
<1> HIDE DEF slots
<1>6. UNION {slots(p) : p \in {<<"data", 0, block>>}} = slots(<<"data", 0, block>>)
  OBVIOUS
<1> QED BY <1>4, <1>5, <1>6

\* The directory rules, of a tree that is only the root.
LEMMA RootDirectory ==
  ASSUME NEW inodes, inodes[ROOT_INODE].mode = "dir", inodes[ROOT_INODE].link_count = 2
  PROVE  EntryRules({ROOT_INODE}, inodes, RootSlots) /\ TreeRules({ROOT_INODE}, inodes, RootSlots)
<1> DEFINE dot == [dir |-> ROOT_INODE, slot |-> 0, e |-> make_entry(".", ROOT_INODE, "dir")]
           dots == [dir |-> ROOT_INODE, slot |-> 1, e |-> make_entry("..", ROOT_INODE, "dir")]
<1>1. /\ dot \in RootSlots /\ dots \in RootSlots /\ dot # dots
      /\ \A n \in RootSlots \ {dot, dots} : n.slot >= 2 /\ n.e = ZeroEntry /\ n.e.inode_id = 0
  BY RootSlotsAre
<1>2. /\ dot.dir = ROOT_INODE /\ dot.slot = 0 /\ dot.e = [inode_id |-> ROOT_INODE, name |-> ".", type |-> "dir"]
      /\ dots.dir = ROOT_INODE /\ dots.slot = 1 /\ dots.e.name = ".." /\ dots.e.type = "dir"
      /\ dots.e.inode_id = ROOT_INODE /\ dot.e.inode_id = ROOT_INODE
  BY DEF make_entry
<1> HIDE DEF dot, dots
<1>3. Real(RootSlots) = {}
  BY <1>1, <1>2 DEF Real
<1>4. {n \in RootSlots : n.e.inode_id = ROOT_INODE} = {dot, dots}
  BY <1>1, <1>2 DEF ROOT_INODE
<1>5. Cardinality({dot, dots}) = 2
  <2>1. IsFiniteSet({dot}) /\ Cardinality({dot}) = 1
    BY FS_Singleton
  <2>2. Cardinality({dot} \cup {dots}) = Cardinality({dot}) + 1
    BY <2>1, <1>1, FS_AddElement
  <2>3. {dot, dots} = {dot} \cup {dots}
    OBVIOUS
  <2> QED BY <2>1, <2>2, <2>3
<1>6. EntryRules({ROOT_INODE}, inodes, RootSlots)
  BY <1>1, <1>2, <1>3 DEF EntryRules, ROOT_INODE
<1>7. Cardinality({n \in Real(RootSlots) : n.e.inode_id = ROOT_INODE}) = 0
  <2>1. {n \in Real(RootSlots) : n.e.inode_id = ROOT_INODE} = {}
    BY <1>3
  <2> QED BY <2>1, FS_EmptySet
<1>8. TreeRules({ROOT_INODE}, inodes, RootSlots)
  <2>1. \A r \in SUBSET {ROOT_INODE} : ROOT_INODE \in r => r = {ROOT_INODE}
    OBVIOUS
  <2> QED BY <2>1, <1>4, <1>5, <1>7 DEF TreeRules
<1> QED BY <1>6, <1>8

\* The inode table of a complete image holds the root and nothing else.
LEMMA InodesOn ==
  ASSUME NEW n \in Nat, NEW k \in Nat \ {0}, Fitting(n, k), NEW s, s = PlanOf(n, k),
         NEW d, RootStored(d, s), NEW id \in 0..(s.inode_count - 1)
  PROVE  InodeOn(d, s, id) = IF id = ROOT_INODE THEN RootInode(s.data_start) ELSE ZeroInode
<1> DEFINE b == inode_block(s, id)
           i == inode_offset(id)
<1>1. /\ b \in s.inode_table_start..(s.data_start - 1) /\ i \in 0..(INODES_PER_BLOCK - 1)
      /\ id <= ROOT_INODE => b = s.inode_table_start /\ i = id
      /\ b = s.inode_table_start /\ i = ROOT_INODE => id = ROOT_INODE
  BY TableBlocks
<1>2. inode_offset(ROOT_INODE) = ROOT_INODE /\ ROOT_INODE \in Nat /\ ROOT_INODE <= ROOT_INODE
  <2>1. s.inode_count \in Nat /\ s.inode_count >= 2
    BY Regions
  <2>2. ROOT_INODE \in 0..(s.inode_count - 1)
    BY <2>1 DEF ROOT_INODE
  <2>3. ROOT_INODE <= ROOT_INODE
    BY DEF ROOT_INODE
  <2>4. inode_offset(ROOT_INODE) = ROOT_INODE
    BY <2>2, <2>3, TableBlocks
  <2> QED BY <2>3, <2>4 DEF ROOT_INODE
<1> HIDE DEF b, i
<1>3. d[b] = IF b = s.inode_table_start THEN InodeBlock(RootInodes(s.data_start)) ELSE ZeroBlock
  BY <1>1 DEF RootStored
<1>4. CASE b = s.inode_table_start
  <2>1. AsInodes(d[b]) = RootInodes(s.data_start)
    BY <1>3, <1>4 DEF AsInodes, InodeBlock
  <2>2. RootInodes(s.data_start)[i] = IF i = ROOT_INODE THEN RootInode(s.data_start) ELSE ZeroInode
    BY <1>1, <1>2 DEF RootInodes
  <2>3. i = ROOT_INODE <=> id = ROOT_INODE
    BY <1>1, <1>2, <1>4
  <2> QED BY <2>1, <2>2, <2>3 DEF InodeOn, b, i
<1>5. CASE b # s.inode_table_start
  <2>1. d[b] = ZeroBlock
    BY <1>3, <1>5
  <2>2. AsInodes(ZeroBlock)[i] = ZeroInode
    BY <1>1 DEF AsInodes, ZeroBlock
  <2>3. id # ROOT_INODE
    BY <1>1, <1>2, <1>5
  <2> QED BY <2>1, <2>2, <2>3 DEF InodeOn, b, i
<1> QED BY <1>4, <1>5

\* The rules of inodes and blocks, for the root alone.
LEMMA RootTable ==
  ASSUME NEW n \in Nat, NEW k \in Nat \ {0}, Fitting(n, k), NEW s, s = PlanOf(n, k),
         NEW inodes, DOMAIN inodes = 0..(s.inode_count - 1),
         \A id \in DOMAIN inodes :
            inodes[id] = IF id = ROOT_INODE THEN RootInode(s.data_start) ELSE ZeroInode,
         NEW owns, owns[ROOT_INODE] = {<<"data", 0, s.data_start>>}
  PROVE  InodeRules({ROOT_INODE}, inodes, owns)
<1>1. s.inode_count \in Nat /\ s.inode_count >= 2
  BY Regions
<1>2. inodes[ROOT_INODE] = RootInode(s.data_start)
  BY <1>1 DEF ROOT_INODE
<1>3. Cardinality(owns[ROOT_INODE]) = 1
  BY FS_Singleton
<1>4. InFile(owns[ROOT_INODE]) = {0}
  <2> DEFINE t == <<"data", 0, s.data_start>>
  <2>1. t[1] = "data" /\ t[2] = 0
    OBVIOUS
  <2> HIDE DEF t
  <2>2. {q \in {t} : q[1] = "data"} = {t}
    BY <2>1
  <2>3. {p[2] : p \in {t}} = {0}
    BY <2>1
  <2>4. owns[ROOT_INODE] = {t}
    BY DEF t
  <2> QED BY <2>2, <2>3, <2>4 DEF InFile
<1> PICK z \in Nat \ {0}, m \in Nat \ {0} : z = BLOCK_SIZE /\ m = MAX_FILE_BLOCKS
  <2> PICK x \in Nat \ {0}, y \in Nat \ {0} : x = DIRECT_PTRS /\ y = PTRS_PER_BLOCK
    BY Sizes
  <2>1. y * y \in Nat
    OBVIOUS
  <2>2. x + y + y * y \in Nat \ {0}
    BY <2>1
  <2>3. BLOCK_SIZE \in Nat \ {0}
    BY Sizes
  <2> QED BY <2>2, <2>3 DEF MAX_FILE_BLOCKS
<1>5. z <= m * z
  BY Product
<1>6. z % z = 0 /\ z \div z = 1 /\ CeilDiv(z, z) = 1
  <2>1. z = z * 1 + 0
    OBVIOUS
  <2>2. z \div z = 1 /\ z % z = 0
    BY <2>1, Quotient, 0 \in 0..(z - 1)
  <2>3. CeilDiv(z * 1, z) = 1
    BY CeilingOfMultiple
  <2> QED BY <2>2, <2>3
<1>7. \A id \in DOMAIN inodes \ {ROOT_INODE} : inodes[id] = ZeroInode
  OBVIOUS
<1>8. 0..(1 - 1) = {0}
  OBVIOUS
<1> DEFINE r == inodes[ROOT_INODE]
<1>9. r.id = ROOT_INODE /\ r.mode = "dir" /\ r.link_count = 2 /\ r.size = z /\ r.block_count = 1
  BY <1>2, RootFields
<1> HIDE DEF r
<1>10. /\ r.id = ROOT_INODE /\ r.mode \in {"file", "dir"} /\ r.link_count >= 1
       /\ r.block_count = Cardinality(owns[ROOT_INODE])
       /\ r.size <= m * z
       /\ \A i \in {0} : i < CeilDiv(r.size, z)
       /\ r.size > 0 /\ r.size % z = 0
       /\ {0} = 0..(r.size \div z - 1)
  BY <1>3, <1>5, <1>6, <1>8, <1>9
<1> QED BY <1>4, <1>7, <1>10 DEF InodeRules, r

\* The data bitmap marks the metadata and the root's block, which is all there is.
LEMMA RootBlocks ==
  ASSUME NEW n \in Nat, NEW k \in Nat \ {0}, Fitting(n, k), NEW s, s = PlanOf(n, k),
         NEW d, BitmapsStored(d, s), NEW owns, owns[ROOT_INODE] = {<<"data", 0, s.data_start>>}
  PROVE  BlockRules(d, s, {ROOT_INODE}, owns)
<1>1. /\ s.total_blocks = n /\ s.data_start \in 3..(n - 1) /\ s.data_bitmap_start \in Nat
  BY Regions
<1>2. \A b \in 0..(n - 1) : Bit(d, s.data_bitmap_start, b) <=> b \in 0..s.data_start
  <2> TAKE b \in 0..(n - 1)
  <2>1. Stored(d, s.data_bitmap_start, Marked(n, 0..s.data_start), n)
    BY <1>1 DEF BitmapsStored
  <2> QED BY <2>1, <1>1, BitStored
<1>3. s.data_start \in Region(s)
  BY <1>1 DEF Region
<1>4. \A b \in 0..(n - 1) : b \in 0..s.data_start <=> b < s.data_start \/ s.data_start = b
  BY <1>1
<1> DEFINE t == <<"data", 0, s.data_start>>
<1>5. t[3] = s.data_start /\ owns[ROOT_INODE] = {t}
  OBVIOUS
<1> HIDE DEF t
<1>6. \A id \in {ROOT_INODE} : \A p \in owns[id] :
        /\ p[3] \in Region(s)
        /\ \A x \in {ROOT_INODE} : \A q \in owns[x] : q[3] = p[3] => x = id /\ q = p
  BY <1>3, <1>5
<1>7. \A b \in 0..(n - 1) : s.data_start = b <=> \E id \in {ROOT_INODE} : \E p \in owns[id] : p[3] = b
  BY <1>5
<1>8. \A b \in 0..(n - 1) :
        Bit(d, s.data_bitmap_start, b)
            <=> b < s.data_start \/ \E id \in {ROOT_INODE} : \E p \in owns[id] : p[3] = b
  BY <1>2, <1>4, <1>7
<1> QED BY <1>1, <1>6, <1>8 DEF BlockRules

\* A complete image keeps every rule of layout.h, and holds the root only.
LEMMA WholeIsConsistent ==
  ASSUME NEW d, Cardinality(DOMAIN d) \in Nat, Whole(d)
  PROVE  /\ Consistent(d)
         /\ {id \in 0..(AsSuper(d[0]).inode_count - 1) : Bit(d, AsSuper(d[0]).inode_bitmap_start, id)}
              = {0, ROOT_INODE}
<1> DEFINE s == AsSuper(d[0])
<1> PICK n \in Nat : n = Cardinality(DOMAIN d)
  OBVIOUS
<1>1. d[0] = SuperBlock(s, 0) /\ Planned(s, n) /\ BitmapsStored(d, s) /\ RootStored(d, s)
  BY DEF Whole, Written
<1> HIDE DEF s
<1>2. PICK k \in Nat \ {0} : Fitting(n, k) /\ s = PlanOf(n, k)
  BY <1>1, PlannedShape
<1>3. /\ s.inode_count \in Nat /\ s.inode_count >= 2 /\ s.inode_bitmap_start = 1
      /\ s.total_blocks = n /\ s.data_start \in 3..(n - 1)
  BY <1>2, Regions
<1>4. \A id \in 0..(s.inode_count - 1) : Bit(d, s.inode_bitmap_start, id) <=> id \in {0, ROOT_INODE}
  <2> TAKE id \in 0..(s.inode_count - 1)
  <2>1. Stored(d, s.inode_bitmap_start, Marked(s.inode_count, {0, ROOT_INODE}), s.inode_count)
    BY <1>1 DEF BitmapsStored
  <2> QED BY <2>1, <1>3, BitStored
<1> DEFINE inodes == [id \in 0..(s.inode_count - 1) |-> InodeOn(d, s, id)]
           used == {id \in 1..(s.inode_count - 1) : Bit(d, s.inode_bitmap_start, id)}
           owns == [id \in used |-> Owns(d, s, inodes[id])]
           dirs == {x \in used : inodes[x].mode = "dir"}
           entries == UNION {EntriesOn(d, s, id, owns[id]) : id \in dirs}
<1>5. used = {ROOT_INODE}
  BY <1>3, <1>4 DEF ROOT_INODE
<1>6. DOMAIN inodes = 0..(s.inode_count - 1)
  OBVIOUS
<1>7. \A id \in DOMAIN inodes : inodes[id] = IF id = ROOT_INODE THEN RootInode(s.data_start) ELSE ZeroInode
  BY <1>1, <1>2, InodesOn
<1>8. inodes[ROOT_INODE] = RootInode(s.data_start)
  <2>1. ROOT_INODE \in DOMAIN inodes
    BY <1>3, <1>6 DEF ROOT_INODE
  <2> HIDE DEF inodes
  <2> QED BY <2>1, <1>7
<1>9. owns[ROOT_INODE] = {<<"data", 0, s.data_start>>}
  <2>1. owns[ROOT_INODE] = Owns(d, s, inodes[ROOT_INODE])
    BY <1>5
  <2>2. Owns(d, s, RootInode(s.data_start)) = {<<"data", 0, s.data_start>>}
    BY <1>3, RootOwns
  <2> HIDE DEF owns, inodes
  <2> QED BY <2>1, <2>2, <1>8
<1> HIDE DEF inodes, owns
<1>10. inodes[ROOT_INODE].mode = "dir" /\ inodes[ROOT_INODE].link_count = 2
  BY <1>8, RootFields
<1>11. entries = RootSlots
  <2>1. dirs = {ROOT_INODE}
    BY <1>5, <1>10
  <2>2. s.data_start \in Region(s)
    BY <1>3 DEF Region
  <2>3. d[s.data_start] = DirBlock(RootEntries)
    BY <1>1 DEF RootStored
  <2>4. EntriesOn(d, s, ROOT_INODE, {<<"data", 0, s.data_start>>}) = RootSlots
    BY <2>2, <2>3, RootEntriesOn
  <2> HIDE DEF dirs
  <2> QED BY <2>1, <2>4, <1>9
<1> HIDE DEF entries, used
<1>12. InodeRules(used, inodes, owns)
  BY <1>2, <1>5, <1>6, <1>7, <1>9, RootTable
<1>13. BlockRules(d, s, used, owns)
  BY <1>1, <1>2, <1>5, <1>9, RootBlocks
<1>14. EntryRules(used, inodes, entries) /\ TreeRules(used, inodes, entries)
  BY <1>5, <1>10, <1>11, RootDirectory
<1>15. Bit(d, s.inode_bitmap_start, 0)
  BY <1>3, <1>4
<1>16. validate_superblock(s, Cardinality(DOMAIN d))
  BY <1>1, PlanValid
<1>17. d[0].rest = 0
  <2>1. SuperBlock(s, 0).rest = 0
    BY DEF SuperBlock
  <2> QED BY <2>1, <1>1
<1>18. {id \in 0..(s.inode_count - 1) : Bit(d, s.inode_bitmap_start, id)} = {0, ROOT_INODE}
  BY <1>3, <1>4 DEF ROOT_INODE
<1>19. Consistent(d)
  BY <1>12, <1>13, <1>14, <1>15, <1>16, <1>17 DEF Consistent, s, used, inodes, owns, entries
<1> QED BY <1>18, <1>19 DEF s

-----------------------------------------------------------------------------
(* The allocator's search *)

\* A set of numbers that is not empty has a least one.
LEMMA LeastOf ==
  ASSUME NEW S \in SUBSET Nat, S # {}
  PROVE  Min(S) \in S /\ \A y \in S : Min(S) <= y
<1>1. IsWellFoundedOn(OpToRel(<, Nat), Nat) BY NatLessThanWellFounded
<1>2. PICK x \in S : \A y \in S : ~(<<y, x>> \in OpToRel(<, Nat)) BY <1>1, WFMin
<1>3. \A y \in S : x <= y
  <2> SUFFICES ASSUME NEW y \in S, y < x PROVE FALSE
    OBVIOUS
  <2>1. <<y, x>> \in OpToRel(<, Nat) BY DEF OpToRel
  <2> QED BY <1>2, <2>1
<1> QED BY <1>3 DEF Min

\* The lowest clear bit of the first word that is not full is the lowest clear
\* bit of the map, if it is not past its end; a map whose only clear bits are past its
\* end, in the last word it uses or in the words behind, is full
\* (Bitmap::find_first_free in src/bitmap.cpp).
THEOREM FirstFreeIsExact ==
  ASSUME NEW nbits \in Nat, NEW map \in [Words(nbits) -> SUBSET Bits]
  PROVE  FirstFreeExact(map, nbits)
<1> PICK W \in Nat \ {0} : W = WORD_BITS /\ Bits = 0..(W - 1)
  BY LayoutAssumption DEF Bits
<1> DEFINE free == {b \in 0..(nbits - 1) : ~is_set(map, b)}
           open == {w \in DOMAIN map : map[w] # Bits}
<1>1. ASSUME NEW b \in 0..(nbits - 1)
      PROVE  b \div W \in Words(nbits)
  <2> PICK P \in Nat \ {0}, f \in Nat : P = WORDS_PER_BLOCK /\ f = blocks_for(nbits) /\ nbits <= f * BITS_PER_BLOCK
    BY Sizes, BlocksFor
  <2>0. b \in Nat /\ b < nbits
    OBVIOUS
  <2> PICK q \in Nat, r \in 0..(W - 1) : q = b \div W /\ b = W * q + r
    <3>1. b \div W \in Nat /\ b % W \in 0..(W - 1) /\ b = W * (b \div W) + (b % W)
      BY <2>0, Division
    <3> QED BY <3>1
  <2> PICK n \in Nat : n = f * P
    OBVIOUS
  <2>1. f * BITS_PER_BLOCK = W * n
    BY DEF BITS_PER_BLOCK
  <2>2. q < n
    <3> SUFFICES ASSUME q >= n PROVE FALSE
      OBVIOUS
    <3>2. W * q >= W * n /\ W * q \in Nat /\ W * n \in Nat
      BY Multiples
    <3>3. PICK x \in Nat, z \in Nat : x = W * n /\ z = W * q
      BY <3>2
    <3>4. nbits <= x /\ b >= x
      BY <3>2, <3>3, <2>1
    <3> QED BY <3>4, <2>0
  <2> QED BY <2>2 DEF Words
<1>2. ASSUME NEW b \in free
      PROVE  b \div W \in open /\ b % W \in Bits \ map[b \div W] /\ b = (b \div W) * W + (b % W)
  <2>1. b % W \notin map[b \div W] /\ b \in 0..(nbits - 1)
    BY DEF is_set
  <2>0. b \in Nat
    BY <2>1
  <2>2. b \div W \in Nat /\ b % W \in 0..(W - 1) /\ b = W * (b \div W) + (b % W)
    BY <2>0, Division
  <2>3. b \div W \in DOMAIN map
    BY <2>1, <1>1
  <2>4. W * (b \div W) = (b \div W) * W
    BY <2>2
  <2> QED BY <2>1, <2>2, <2>3, <2>4
<1>3. CASE open = {}
  <2>1. free = {}
    BY <1>2, <1>3
  <2> QED BY <1>3, <2>1 DEF FirstFreeExact, find_first_free
<1>4. CASE open # {}
  <2>1. open \in SUBSET Nat
    BY DEF Words
  <2>2. PICK w \in Nat : w = Min(open) /\ w \in open /\ \A v \in open : w <= v
    <3> HIDE DEF open
    <3> QED BY <1>4, <2>1, LeastOf
  <2>3. Bits \ map[w] \in SUBSET Nat /\ Bits \ map[w] # {}
    <3>1. map[w] \subseteq Bits /\ map[w] # Bits
      BY <2>2
    <3>2. Bits \subseteq Nat
      OBVIOUS
    <3> QED BY <3>1, <3>2
  <2>4. PICK c \in 0..(W - 1) : c = Min(Bits \ map[w]) /\ c \in Bits \ map[w] /\ \A e \in Bits \ map[w] : c <= e
    BY <2>3, LeastOf
  <2>5. PICK i \in Nat : i = w * W + c /\ i = W * w + c
    OBVIOUS
  <2>6. i \div W = w /\ i % W = c
    BY <2>5, Quotient
  <2>7. find_first_free(map, nbits) = IF i >= nbits THEN NoBit ELSE i
    BY <1>4, <2>2, <2>4, <2>5 DEF find_first_free
  <2>8. ASSUME NEW b \in free PROVE i <= b
    <3>0. b \in Nat
      OBVIOUS
    <3> PICK q \in Nat, r \in 0..(W - 1) : q = b \div W /\ r = b % W /\ b = W * q + r
      <4>1. b \div W \in Nat /\ b % W \in 0..(W - 1) /\ b = W * (b \div W) + (b % W)
        BY <3>0, Division
      <4> QED BY <4>1
    <3>1. q \in open /\ r \in Bits \ map[q]
      BY <1>2
    <3>2. w <= q
      BY <3>1, <2>2
    <3>3. CASE q = w
      <4>1. c <= r
        BY <3>1, <3>3, <2>4
      <4>2. PICK x \in Nat : x = W * w
        OBVIOUS
      <4> QED BY <4>1, <4>2, <3>3, <2>5
    <3>4. CASE q > w
      <4>1. W * q >= W * w + W /\ W * q \in Nat /\ W * w \in Nat
        BY <3>4, Multiples
      <4>2. PICK x \in Nat, z \in Nat : x = W * w /\ z = W * q
        BY <4>1
      <4> QED BY <4>1, <4>2, <2>5
    <3> QED BY <3>2, <3>3, <3>4
  <2>9. CASE i >= nbits
    <3>1. free = {}
      BY <2>8, <2>9
    <3> QED BY <2>7, <2>9, <3>1 DEF FirstFreeExact
  <2>10. CASE i < nbits
    <3>1. i \in free
      BY <2>10, <2>6, <2>4 DEF is_set
    <3>2. free \in SUBSET Nat /\ free # {}
      BY <3>1
    <3>3. PICK m : m = Min(free) /\ m \in free /\ \A y \in free : m <= y
      <4> HIDE DEF free
      <4> QED BY <3>2, LeastOf
    <3>4. m = i
      BY <3>1, <3>3, <2>8
    <3> QED BY <2>7, <2>10, <3>1, <3>3, <3>4 DEF FirstFreeExact
  <2> QED BY <2>9, <2>10
<1> QED BY <1>3, <1>4

-----------------------------------------------------------------------------
(* The steps of mkfs *)

\* store() changes the blocks of the bitmap, and no other.
LEMMA StoreAt ==
  ASSUME NEW d, NEW start \in Nat, NEW n \in Nat, NEW words, DOMAIN words = Words(n),
         NEW b \in DOMAIN d, b \in Nat
  PROVE  store(d, start, words)[b] = IF b \in start..(start + blocks_for(n) - 1)
                                     THEN BitsBlock(block_words(words, b - start)) ELSE d[b]
<1> PICK P \in Nat \ {0}, f \in Nat : P = WORDS_PER_BLOCK /\ f = blocks_for(n)
  BY Sizes, BlocksFor
<1>1. ASSUME b >= start
      PROVE  (b - start) * P \in 0..(f * P - 1) <=> b - start < f
  <2> PICK x \in Nat : x = b - start
    BY <1>1
  <2>1. CASE x < f
    <3>1. PICK y \in Nat \ {0} : y = f - x
      BY <2>1
    <3>2. f * P = x * P + P * y /\ P * y >= P
      BY <3>1, Product
    <3>3. x * P \in Nat
      OBVIOUS
    <3> QED BY <3>2, <3>3, <2>1
  <2>2. CASE x >= f
    <3>1. PICK y \in Nat : y = x - f
      BY <2>2
    <3>2. x * P = f * P + y * P /\ y * P \in Nat /\ f * P \in Nat
      BY <3>1
    <3> QED BY <3>2, <2>2
  <2> QED BY <2>1, <2>2
<1>2. DOMAIN words = 0..(f * P - 1)
  BY DEF Words
<1>3. b >= start /\ (b - start) * P \in DOMAIN words <=> b \in start..(start + f - 1)
  <2>1. CASE b >= start
    BY <2>1, <1>1, <1>2
  <2>2. CASE ~(b >= start)
    BY <2>2
  <2> QED BY <2>1, <2>2
<1>4. store(d, start, words)[b] = IF b >= start /\ (b - start) * P \in DOMAIN words
                                  THEN BitsBlock(block_words(words, b - start)) ELSE d[b]
  BY DEF store
<1> QED BY <1>3, <1>4

\* What PlanFits says of a plan.
LEMMA PlanRoom ==
  ASSUME NEW n \in Nat, NEW s, Planned(s, n)
  PROVE  /\ validate_superblock(s, n)
         /\ s.inode_count <= blocks_for(s.inode_count) * BITS_PER_BLOCK
         /\ s.total_blocks <= (s.inode_table_start - s.data_bitmap_start) * BITS_PER_BLOCK
         /\ s.inode_bitmap_start + blocks_for(s.inode_count) = s.data_bitmap_start
         /\ inode_block(s, 0) = s.inode_table_start
         /\ inode_block(s, s.inode_count - 1) = s.data_start - 1
         /\ s.data_start \in 0..(n - 1)
<1>1. PICK k \in Nat \ {0} : Fitting(n, k) /\ s = PlanOf(n, k)
  BY PlannedShape
<1>2. /\ s.inode_count \in Nat /\ s.inode_count >= 2 /\ s.inode_bitmap_start = 1
      /\ s.total_blocks = n /\ s.data_start \in 3..(n - 1)
      /\ s.data_bitmap_start \in Nat /\ s.inode_table_start = s.data_bitmap_start + blocks_for(n)
      /\ s.data_bitmap_start = 1 + blocks_for(s.inode_count)
      /\ blocks_for(s.inode_count) \in Nat /\ blocks_for(n) \in Nat
  BY <1>1, Regions
<1>3. inode_block(s, 0) = s.inode_table_start
  BY <1>1, <1>2, TableBlocks, 0 \in 0..(s.inode_count - 1), 0 <= ROOT_INODE DEF ROOT_INODE
<1>4. inode_block(s, s.inode_count - 1) = s.data_start - 1
  BY <1>1, <1>2, TableBlocks, s.inode_count - 1 \in 0..(s.inode_count - 1)
<1>5. s.inode_count <= blocks_for(s.inode_count) * BITS_PER_BLOCK /\ n <= blocks_for(n) * BITS_PER_BLOCK
  BY <1>2, BlocksFor
<1>6. s.inode_table_start - s.data_bitmap_start = blocks_for(n)
  BY <1>2
<1> QED BY <1>2, <1>3, <1>4, <1>5, <1>6, PlanValid

\* A step that leaves the device as large as it was, and what it says of the plan.
LEMMA SameDevice ==
  ASSUME TypeOK, PhaseInv, DOMAIN disk' = DOMAIN disk, DOMAIN durable' = DOMAIN disk,
         disk' = [b \in DOMAIN disk |-> disk'[b]], durable' = [b \in DOMAIN disk |-> durable'[b]],
         damaged' \in 0..MaxDamage, crashes' \in 0..MaxCrash,
         pc' \in {"idle", "wiped", "table", "bitmaps", "root", "written", "synced", "super"},
         pc' # "idle" => sb' # Refused,
         sb' # Refused => Planned(sb', device_blocks)
  PROVE  TypeOK' /\ PlanFits' /\ (sb' # Refused => Planned(sb', device_blocks'))
<1>1. device_blocks' = device_blocks
  BY DEF device_blocks
<1>2. TypeOK'
  BY <1>1 DEF TypeOK
<1>3. PlanFits'
  <2> SUFFICES ASSUME sb' # Refused PROVE PlanFits'
    BY DEF PlanFits
  <2> PICK n \in Nat : n = device_blocks
    BY DEF TypeOK
  <2> PICK s : s = sb'
    OBVIOUS
  <2>1. Planned(s, n)
    OBVIOUS
  <2>2. /\ validate_superblock(s, n)
        /\ s.inode_count <= blocks_for(s.inode_count) * BITS_PER_BLOCK
        /\ s.total_blocks <= (s.inode_table_start - s.data_bitmap_start) * BITS_PER_BLOCK
        /\ s.inode_bitmap_start + blocks_for(s.inode_count) = s.data_bitmap_start
        /\ inode_block(s, 0) = s.inode_table_start
        /\ inode_block(s, s.inode_count - 1) = s.data_start - 1
        /\ s.data_start \in 0..(n - 1)
    BY <2>1, PlanRoom
  <2>3. DOMAIN disk' = 0..(n - 1)
    BY DEF TypeOK
  <2> QED BY <2>2, <2>3, <1>1 DEF PlanFits
<1> QED BY <1>1, <1>2, <1>3

\* The first image is one of those given.
LEMMA InitInv == Init => Inv
<1> SUFFICES ASSUME Init PROVE Inv
  OBVIOUS
<1>1. disk \in Images /\ durable = disk /\ sb = Refused /\ pc = "idle" /\ damaged = 0 /\ crashes = 0
  BY DEF Init
<1>2. /\ IsFiniteSet(DOMAIN disk) /\ DOMAIN disk # {} /\ DOMAIN disk = 0..(device_blocks - 1)
      /\ disk = [b \in DOMAIN disk |-> disk[b]]
  BY <1>1, ImagesAssumption DEF device_blocks
<1>3. device_blocks \in Nat \ {0}
  <2>1. device_blocks \in Nat /\ device_blocks # 0
    BY <1>2, FS_CardinalityType, FS_EmptySet DEF device_blocks
  <2> QED BY <2>1
<1>4. TypeOK
  BY <1>1, <1>2, <1>3, CountsAssumption DEF TypeOK
<1>5. PlanFits
  BY <1>1 DEF PlanFits
<1>6. PhaseInv
  BY <1>1 DEF PhaseInv, Sound
<1> QED BY <1>4, <1>5, <1>6 DEF Inv

\* Wipe: a plan, and block 0 is gone, or nothing happens.
LEMMA WipeStep ==
  ASSUME Inv, NEW m \in InodeCounts, Wipe(m)
  PROVE  Inv'
<1> USE DEF Inv
<1>1. /\ pc = "idle" /\ damaged = 0 /\ sb' = plan_layout(device_blocks, m)
      /\ durable' = durable /\ damaged' = damaged /\ crashes' = crashes
      /\ IF sb' = Refused THEN disk' = disk /\ pc' = pc
         ELSE disk' = [disk EXCEPT ![0] = ZeroBlock] /\ pc' = "wiped"
  BY DEF Wipe
<1>2. m \in Nat /\ device_blocks \in Nat
  BY CountsAssumption DEF TypeOK
<1>3. sb' # Refused => Planned(sb', device_blocks)
  BY <1>1, <1>2, PlanIsPlanned
<1>4. /\ DOMAIN disk' = DOMAIN disk /\ DOMAIN durable' = DOMAIN disk
      /\ disk' = [b \in DOMAIN disk |-> disk'[b]] /\ durable' = [b \in DOMAIN disk |-> durable'[b]]
  <2>1. CASE sb' = Refused
    BY <1>1, <2>1 DEF TypeOK
  <2>2. CASE sb' # Refused
    BY <1>1, <2>2 DEF TypeOK
  <2> QED BY <2>1, <2>2
<1>5. TypeOK' /\ PlanFits' /\ (sb' # Refused => Planned(sb', device_blocks'))
  <2>1. /\ damaged' \in 0..MaxDamage /\ crashes' \in 0..MaxCrash
        /\ pc' \in {"idle", "wiped", "table", "bitmaps", "root", "written", "synced", "super"}
        /\ pc' # "idle" => sb' # Refused
    BY <1>1 DEF TypeOK
  <2> QED BY <2>1, <1>3, <1>4, SameDevice
<1>6. PhaseInv'
  <2>1. durable = disk /\ Sound(disk)
    BY <1>1 DEF PhaseInv
  <2>2. CASE sb' = Refused
    BY <2>1, <2>2, <1>1 DEF PhaseInv
  <2>3. CASE sb' # Refused
    BY <2>1, <2>3, <1>1, <1>5 DEF PhaseInv
  <2> QED BY <2>2, <2>3
<1> QED BY <1>5, <1>6

\* A sync that moves on within mkfs or ends it.
LEMMA SyncStep ==
  ASSUME Inv, Sync("wiped", "table") \/ Sync("written", "synced") \/ Sync("super", "idle")
  PROVE  Inv'
<1> USE DEF Inv
<1>1. /\ disk' = disk /\ durable' = disk /\ sb' = sb /\ damaged' = damaged /\ crashes' = crashes
      /\ \/ pc = "wiped" /\ pc' = "table"
         \/ pc = "written" /\ pc' = "synced"
         \/ pc = "super" /\ pc' = "idle"
  BY DEF Sync
<1>2. TypeOK' /\ PlanFits' /\ (sb' # Refused => Planned(sb', device_blocks'))
  <2>1. /\ DOMAIN disk' = DOMAIN disk /\ DOMAIN durable' = DOMAIN disk
        /\ disk' = [b \in DOMAIN disk |-> disk'[b]] /\ durable' = [b \in DOMAIN disk |-> durable'[b]]
    BY <1>1 DEF TypeOK
  <2>2. /\ damaged' \in 0..MaxDamage /\ crashes' \in 0..MaxCrash
        /\ pc' \in {"idle", "wiped", "table", "bitmaps", "root", "written", "synced", "super"}
        /\ pc' # "idle" => sb' # Refused
        /\ sb' # Refused => Planned(sb', device_blocks)
    BY <1>1 DEF TypeOK, PhaseInv
  <2> QED BY <2>1, <2>2, SameDevice
<1>3. sb # Refused /\ damaged = 0 /\ Planned(sb, device_blocks) /\ 0 \in DOMAIN disk
  BY <1>1 DEF TypeOK, PhaseInv
<1>4. PhaseInv'
  <2>1. CASE pc = "wiped" /\ pc' = "table"
    <3>1. disk[0] = ZeroBlock
      <4>1. disk = [durable EXCEPT ![0] = ZeroBlock] /\ 0 \in DOMAIN durable
        BY <2>1, <1>3 DEF PhaseInv, TypeOK
      <4> QED BY <4>1
    <3> QED BY <3>1, <2>1, <1>1, <1>2, <1>3 DEF PhaseInv
  <2>2. CASE pc = "written" /\ pc' = "synced"
    BY <2>2, <1>1, <1>2, <1>3 DEF PhaseInv
  <2>3. CASE pc = "super" /\ pc' = "idle"
    <3>1. disk = [durable EXCEPT ![0] = SuperBlock(sb, 0)] /\ 0 \in DOMAIN durable /\ Written(disk, sb)
      BY <2>3, <1>3 DEF PhaseInv, TypeOK
    <3>2. disk[0] = SuperBlock(sb, 0)
      BY <3>1
    <3>3. AsSuper(disk[0]) = sb
      BY <3>2 DEF AsSuper, SuperBlock
    <3>4. Whole(disk)
      BY <3>1, <3>2, <3>3, <1>3 DEF Whole, device_blocks
    <3>5. Sound(disk)
      BY <3>4 DEF Sound
    <3> QED BY <3>5, <2>3, <1>1, <1>2, <1>3 DEF PhaseInv
  <2> QED BY <1>1, <2>1, <2>2, <2>3
<1> QED BY <1>2, <1>4

\* A write within mkfs: the device is the same, and so is all but the disk.
LEMMA WriteSame ==
  ASSUME Inv, NEW new, NEW from, NEW to, Write(new, from, to), from # "idle",
         DOMAIN new = DOMAIN disk, new = [b \in DOMAIN disk |-> new[b]],
         to \in {"idle", "wiped", "table", "bitmaps", "root", "written", "synced", "super"}
  PROVE  /\ TypeOK' /\ PlanFits' /\ (sb' # Refused => Planned(sb', device_blocks'))
         /\ pc = from /\ pc' = to /\ disk' = new /\ durable' = durable /\ sb' = sb
         /\ damaged' = 0 /\ damaged = 0 /\ sb # Refused
<1> USE DEF Inv
<1>1. /\ pc = from /\ pc' = to /\ disk' = new
      /\ durable' = durable /\ sb' = sb /\ damaged' = damaged /\ crashes' = crashes
  BY DEF Write
<1>2. /\ DOMAIN disk' = DOMAIN disk /\ DOMAIN durable' = DOMAIN disk
      /\ disk' = [b \in DOMAIN disk |-> disk'[b]] /\ durable' = [b \in DOMAIN disk |-> durable'[b]]
  BY <1>1 DEF TypeOK
<1>3. /\ damaged' \in 0..MaxDamage /\ crashes' \in 0..MaxCrash
      /\ pc' \in {"idle", "wiped", "table", "bitmaps", "root", "written", "synced", "super"}
      /\ pc' # "idle" => sb' # Refused
      /\ sb' # Refused => Planned(sb', device_blocks)
  BY <1>1 DEF TypeOK, PhaseInv
<1>4. damaged = 0 /\ sb # Refused
  BY <1>1 DEF TypeOK, PhaseInv
<1> QED BY <1>1, <1>2, <1>3, <1>4, SameDevice

\* Where the regions of a plan are.
LEMMA PlanAreas ==
  ASSUME NEW n \in Nat, NEW s, Planned(s, n)
  PROVE  /\ s.inode_count \in Nat /\ s.total_blocks = n
         /\ blocks_for(s.inode_count) \in Nat \ {0} /\ blocks_for(n) \in Nat \ {0}
         /\ s.inode_bitmap_start = 1
         /\ s.data_bitmap_start = 1 + blocks_for(s.inode_count)
         /\ s.inode_table_start = s.data_bitmap_start + blocks_for(n)
         /\ s.data_start \in 3..(n - 1) /\ s.inode_table_start < s.data_start
         /\ inode_block(s, ROOT_INODE) = s.inode_table_start
<1>1. PICK k \in Nat \ {0} : Fitting(n, k) /\ s = PlanOf(n, k)
  BY PlannedShape
<1>2. /\ s.inode_count \in Nat /\ s.inode_count >= 2
      /\ blocks_for(s.inode_count) \in Nat \ {0} /\ blocks_for(n) \in Nat \ {0}
      /\ s.inode_bitmap_start = 1 /\ s.total_blocks = n
      /\ s.data_bitmap_start = 1 + blocks_for(s.inode_count)
      /\ s.inode_table_start = s.data_bitmap_start + blocks_for(n)
      /\ s.data_start = s.inode_table_start + k
      /\ s.inode_table_start \in Nat
      /\ s.data_start \in 3..(n - 1)
  BY <1>1, Regions
<1>3. ROOT_INODE \in 0..(s.inode_count - 1) /\ ROOT_INODE <= ROOT_INODE
  BY <1>2 DEF ROOT_INODE
<1>4. inode_block(s, ROOT_INODE) = s.inode_table_start
  BY <1>1, <1>3, TableBlocks
<1> QED BY <1>2, <1>4

\* Where the regions of the plan are, on this device.
LEMMA PlanOnDevice ==
  ASSUME TypeOK, PhaseInv, sb # Refused
  PROVE  /\ sb.inode_count \in Nat /\ sb.total_blocks \in Nat
         /\ blocks_for(sb.inode_count) \in Nat \ {0} /\ blocks_for(sb.total_blocks) \in Nat \ {0}
         /\ sb.inode_bitmap_start = 1
         /\ sb.data_bitmap_start = 1 + blocks_for(sb.inode_count)
         /\ sb.inode_table_start = sb.data_bitmap_start + blocks_for(sb.total_blocks)
         /\ sb.data_start \in Nat /\ sb.inode_table_start < sb.data_start
         /\ inode_block(sb, ROOT_INODE) = sb.inode_table_start
         /\ 0..sb.data_start \subseteq DOMAIN disk /\ DOMAIN disk \subseteq Nat
<1> PICK n \in Nat : n = device_blocks /\ DOMAIN disk = 0..(n - 1)
  BY DEF TypeOK
<1> PICK s : s = sb
  OBVIOUS
<1>1. Planned(s, n)
  BY DEF PhaseInv
<1>2. /\ s.inode_count \in Nat /\ s.total_blocks = n
      /\ blocks_for(s.inode_count) \in Nat \ {0} /\ blocks_for(n) \in Nat \ {0}
      /\ s.inode_bitmap_start = 1
      /\ s.data_bitmap_start = 1 + blocks_for(s.inode_count)
      /\ s.inode_table_start = s.data_bitmap_start + blocks_for(n)
      /\ s.data_start \in 3..(n - 1) /\ s.inode_table_start < s.data_start
      /\ inode_block(s, ROOT_INODE) = s.inode_table_start
  BY <1>1, PlanAreas
<1>3. 0..s.data_start \subseteq DOMAIN disk /\ DOMAIN disk \subseteq Nat
  BY <1>2
<1> QED BY <1>2, <1>3

\* The inode table is zeroed, and block 0 still is.
LEMMA ZeroTableStep ==
  ASSUME Inv, ZeroTable
  PROVE  Inv'
<1> USE DEF Inv
<1> DEFINE new == [b \in DOMAIN disk |->
                    IF b \in sb.inode_table_start..(sb.data_start - 1) THEN ZeroBlock ELSE disk[b]]
<1>1. Write(new, "table", "bitmaps")
  BY DEF ZeroTable
<1>2. DOMAIN new = DOMAIN disk /\ new = [b \in DOMAIN disk |-> new[b]]
  OBVIOUS
<1>3. /\ TypeOK' /\ PlanFits' /\ (sb' # Refused => Planned(sb', device_blocks'))
      /\ pc = "table" /\ pc' = "bitmaps" /\ disk' = new /\ durable' = durable /\ sb' = sb
      /\ damaged' = 0 /\ sb # Refused
  <2> HIDE DEF new
  <2> QED BY <1>1, <1>2, WriteSame
<1>4. /\ sb.data_start \in Nat /\ sb.inode_table_start \in Nat
      /\ 0..sb.data_start \subseteq DOMAIN disk
  BY <1>3, PlanOnDevice
<1>5. new[0] = ZeroBlock
  BY <1>3, <1>4 DEF PhaseInv
<1>6. TableZeroed(new, sb)
  BY <1>4 DEF TableZeroed
<1> HIDE DEF new
<1>7. PhaseInv'
  BY <1>3, <1>5, <1>6 DEF PhaseInv
<1> QED BY <1>3, <1>7

\* The bitmaps come before the inode table and do not overlap each other.
LEMMA WriteBitmapsStep ==
  ASSUME Inv, WriteBitmaps
  PROVE  Inv'
<1> USE DEF Inv
<1> DEFINE inodes == Marked(sb.inode_count, {0, ROOT_INODE})
           blocks == Marked(sb.total_blocks, 0..sb.data_start)
           first == store(disk, sb.inode_bitmap_start, inodes)
           new == store(first, sb.data_bitmap_start, blocks)
<1>1. Write(new, "bitmaps", "root")
  BY DEF WriteBitmaps
<1>2. /\ DOMAIN new = DOMAIN disk /\ new = [b \in DOMAIN disk |-> new[b]] /\ DOMAIN first = DOMAIN disk
  BY DEF store
<1>3. /\ TypeOK' /\ PlanFits' /\ (sb' # Refused => Planned(sb', device_blocks'))
      /\ pc = "bitmaps" /\ pc' = "root" /\ disk' = new /\ durable' = durable /\ sb' = sb
      /\ damaged' = 0 /\ sb # Refused
  <2> HIDE DEF new
  <2> QED BY <1>1, <1>2, WriteSame
<1> PICK c \in Nat, t \in Nat, x \in Nat \ {0}, y \in Nat \ {0} :
        /\ c = sb.inode_count /\ t = sb.total_blocks
        /\ x = blocks_for(c) /\ y = blocks_for(t)
        /\ sb.inode_bitmap_start = 1 /\ sb.data_bitmap_start = 1 + x
        /\ sb.inode_table_start = 1 + x + y
        /\ sb.data_start \in Nat /\ 1 + x + y < sb.data_start
        /\ 0..sb.data_start \subseteq DOMAIN disk /\ DOMAIN disk \subseteq Nat
  BY <1>3, PlanOnDevice
<1>4. DOMAIN inodes = Words(c) /\ DOMAIN blocks = Words(t)
  BY DEF Marked
<1>5. \A b \in DOMAIN disk : first[b] = IF b \in 1..(1 + x - 1)
                                      THEN BitsBlock(block_words(inodes, b - 1)) ELSE disk[b]
  <2> HIDE DEF inodes
  <2> QED BY <1>4, StoreAt
<1>6. \A b \in DOMAIN disk : new[b] = IF b \in (1 + x)..((1 + x) + y - 1)
                                    THEN BitsBlock(block_words(blocks, b - (1 + x))) ELSE first[b]
  <2> HIDE DEF first, blocks
  <2> QED BY <1>2, <1>4, StoreAt, 1 + x \in Nat
<1> HIDE DEF new, first
<1>7. new[0] = ZeroBlock
  <2>1. 0 \in DOMAIN disk /\ disk[0] = ZeroBlock
    BY <1>3 DEF PhaseInv
  <2> QED BY <2>1, <1>5, <1>6
<1>8. TableZeroed(new, sb)
  <2>1. TableZeroed(disk, sb)
    BY <1>3 DEF PhaseInv
  <2> SUFFICES ASSUME NEW b \in sb.inode_table_start..(sb.data_start - 1) PROVE new[b] = ZeroBlock
    BY DEF TableZeroed
  <2>2. b \in DOMAIN disk /\ b \in Nat /\ b >= 1 + x + y
    OBVIOUS
  <2>3. b \notin 1..(1 + x - 1) /\ b \notin (1 + x)..((1 + x) + y - 1)
    BY <2>2
  <2>4. disk[b] = ZeroBlock
    BY <2>1 DEF TableZeroed
  <2> QED BY <2>2, <2>3, <2>4, <1>5, <1>6
<1>9. Stored(new, 1, inodes, c)
  <2> SUFFICES ASSUME NEW j \in 0..(x - 1) PROVE new[1 + j] = BitsBlock(block_words(inodes, j))
    BY DEF Stored
  <2>1. /\ 1 + j \in DOMAIN disk /\ 1 + j \in 1..(1 + x - 1) /\ (1 + j) - 1 = j
        /\ 1 + j \notin (1 + x)..((1 + x) + y - 1)
    OBVIOUS
  <2> QED BY <2>1, <1>5, <1>6
<1>10. Stored(new, 1 + x, blocks, t)
  <2> SUFFICES ASSUME NEW j \in 0..(y - 1) PROVE new[(1 + x) + j] = BitsBlock(block_words(blocks, j))
    BY DEF Stored
  <2>1. /\ (1 + x) + j \in DOMAIN disk /\ (1 + x) + j \in (1 + x)..((1 + x) + y - 1)
        /\ ((1 + x) + j) - (1 + x) = j
    OBVIOUS
  <2> QED BY <2>1, <1>6
<1>11. BitmapsStored(new, sb)
  BY <1>9, <1>10 DEF BitmapsStored
<1>12. PhaseInv'
  BY <1>3, <1>7, <1>8, <1>11 DEF PhaseInv
<1> QED BY <1>3, <1>12

\* Below the inode table nothing of what the root needs is written.
LEMMA WriteRootStep ==
  ASSUME Inv, WriteRoot
  PROVE  Inv'
<1> USE DEF Inv
<1> DEFINE ib == inode_block(sb, ROOT_INODE)
           new == [disk EXCEPT ![sb.data_start] = DirBlock(RootEntries),
                               ![ib] = InodeBlock(RootInodes(sb.data_start))]
<1>1. Write(new, "root", "written")
  BY DEF WriteRoot
<1>2. DOMAIN new = DOMAIN disk /\ new = [b \in DOMAIN disk |-> new[b]]
  BY DEF TypeOK
<1>3. /\ TypeOK' /\ PlanFits' /\ (sb' # Refused => Planned(sb', device_blocks'))
      /\ pc = "root" /\ pc' = "written" /\ disk' = new /\ durable' = durable /\ sb' = sb
      /\ damaged' = 0 /\ sb # Refused
  <2> HIDE DEF new
  <2> QED BY <1>1, <1>2, WriteSame
<1> PICK c \in Nat, t \in Nat, x \in Nat \ {0}, y \in Nat \ {0} :
        /\ c = sb.inode_count /\ t = sb.total_blocks
        /\ x = blocks_for(c) /\ y = blocks_for(t)
        /\ sb.inode_bitmap_start = 1 /\ sb.data_bitmap_start = 1 + x
        /\ sb.inode_table_start = 1 + x + y
        /\ sb.data_start \in Nat /\ 1 + x + y < sb.data_start
        /\ 0..sb.data_start \subseteq DOMAIN disk /\ DOMAIN disk \subseteq Nat
        /\ ib = sb.inode_table_start
  BY <1>3, PlanOnDevice
<1>4. /\ new[sb.data_start] = DirBlock(RootEntries)
      /\ new[1 + x + y] = InodeBlock(RootInodes(sb.data_start))
      /\ \A b \in DOMAIN disk : b # sb.data_start /\ b # 1 + x + y => new[b] = disk[b]
  <2>1. sb.data_start \in DOMAIN disk /\ 1 + x + y \in DOMAIN disk /\ sb.data_start # 1 + x + y
    OBVIOUS
  <2> QED BY <2>1
<1> HIDE DEF new, ib
<1>5. new[0] = ZeroBlock
  <2>1. 0 \in DOMAIN disk /\ disk[0] = ZeroBlock /\ 0 # sb.data_start /\ 0 # 1 + x + y
    BY <1>3 DEF PhaseInv
  <2> QED BY <2>1, <1>4
<1>6. RootStored(new, sb)
  <2>1. TableZeroed(disk, sb)
    BY <1>3 DEF PhaseInv
  <2>2. ASSUME NEW b \in sb.inode_table_start..(sb.data_start - 1)
        PROVE  new[b] = IF b = sb.inode_table_start THEN InodeBlock(RootInodes(sb.data_start)) ELSE ZeroBlock
    <3>1. b \in DOMAIN disk /\ b # sb.data_start
      OBVIOUS
    <3>2. disk[b] = ZeroBlock
      BY <2>1 DEF TableZeroed
    <3> QED BY <3>1, <3>2, <1>4
  <2> QED BY <2>2, <1>4 DEF RootStored
<1>7. BitmapsStored(new, sb)
  <2>1. BitmapsStored(disk, sb)
    BY <1>3 DEF PhaseInv
  <2>2. ASSUME NEW b \in 1..(x + y) PROVE new[b] = disk[b]
    <3>1. b \in DOMAIN disk /\ b # sb.data_start /\ b # 1 + x + y
      OBVIOUS
    <3> QED BY <3>1, <1>4
  <2> PICK iw, bw : /\ iw = Marked(sb.inode_count, {0, ROOT_INODE})
                    /\ bw = Marked(sb.total_blocks, 0..sb.data_start)
    OBVIOUS
  <2>3. Stored(new, 1, iw, c)
    <3> SUFFICES ASSUME NEW j \in 0..(x - 1) PROVE new[1 + j] = BitsBlock(block_words(iw, j))
      BY DEF Stored
    <3>1. Stored(disk, 1, iw, c)
      BY <2>1 DEF BitmapsStored
    <3>2. disk[1 + j] = BitsBlock(block_words(iw, j))
      BY <3>1 DEF Stored
    <3>3. 1 + j \in 1..(x + y)
      OBVIOUS
    <3> QED BY <3>2, <3>3, <2>2
  <2>4. Stored(new, 1 + x, bw, t)
    <3> SUFFICES ASSUME NEW j \in 0..(y - 1) PROVE new[(1 + x) + j] = BitsBlock(block_words(bw, j))
      BY DEF Stored
    <3>1. Stored(disk, 1 + x, bw, t)
      BY <2>1 DEF BitmapsStored
    <3>2. disk[(1 + x) + j] = BitsBlock(block_words(bw, j))
      BY <3>1 DEF Stored
    <3>3. (1 + x) + j \in 1..(x + y)
      OBVIOUS
    <3> QED BY <3>2, <3>3, <2>2
  <2> QED BY <2>3, <2>4 DEF BitmapsStored
<1>8. Written(new, sb)
  BY <1>6, <1>7 DEF Written
<1>9. PhaseInv'
  BY <1>3, <1>5, <1>8 DEF PhaseInv
<1> QED BY <1>3, <1>9

\* The superblock is block 0, in no region of the plan.
LEMMA WriteSuperStep ==
  ASSUME Inv, WriteSuper
  PROVE  Inv'
<1> USE DEF Inv
<1> DEFINE new == [disk EXCEPT ![0] = SuperBlock(sb, 0)]
<1>1. Write(new, "synced", "super")
  BY DEF WriteSuper
<1>2. DOMAIN new = DOMAIN disk /\ new = [b \in DOMAIN disk |-> new[b]]
  BY DEF TypeOK
<1>3. /\ TypeOK' /\ PlanFits' /\ (sb' # Refused => Planned(sb', device_blocks'))
      /\ pc = "synced" /\ pc' = "super" /\ disk' = new /\ durable' = durable /\ sb' = sb
      /\ damaged' = 0 /\ sb # Refused
  <2> HIDE DEF new
  <2> QED BY <1>1, <1>2, WriteSame
<1>4. /\ sb.inode_bitmap_start = 1 /\ sb.data_bitmap_start \in Nat \ {0}
      /\ sb.inode_table_start \in Nat \ {0} /\ sb.data_start \in Nat \ {0}
      /\ blocks_for(sb.inode_count) \in Nat /\ blocks_for(sb.total_blocks) \in Nat
  <2>1. /\ blocks_for(sb.inode_count) \in Nat \ {0} /\ blocks_for(sb.total_blocks) \in Nat \ {0}
        /\ sb.inode_bitmap_start = 1
        /\ sb.data_bitmap_start = 1 + blocks_for(sb.inode_count)
        /\ sb.inode_table_start = sb.data_bitmap_start + blocks_for(sb.total_blocks)
        /\ sb.data_start \in Nat /\ sb.inode_table_start < sb.data_start
    BY <1>3, PlanOnDevice
  <2> QED BY <2>1
<1>5. \A b : b # 0 => new[b] = disk[b]
  OBVIOUS
<1> HIDE DEF new
<1>6. Written(disk, sb)
  BY <1>3 DEF PhaseInv
<1>7. RootStored(new, sb)
  <2>1. ASSUME NEW b \in sb.inode_table_start..(sb.data_start - 1) PROVE b # 0
    BY <1>4
  <2> QED BY <2>1, <1>4, <1>5, <1>6 DEF Written, RootStored
<1>8. ASSUME NEW start \in Nat \ {0}, NEW words, NEW n, blocks_for(n) \in Nat, Stored(disk, start, words, n)
      PROVE  Stored(new, start, words, n)
  <2> SUFFICES ASSUME NEW j \in 0..(blocks_for(n) - 1) PROVE new[start + j] = BitsBlock(block_words(words, j))
    BY DEF Stored
  <2>1. disk[start + j] = BitsBlock(block_words(words, j))
    BY <1>8 DEF Stored
  <2>2. start + j # 0
    BY <1>8
  <2> QED BY <2>1, <2>2, <1>5
<1>9. BitmapsStored(new, sb)
  BY <1>4, <1>6, <1>8, 1 \in Nat \ {0} DEF Written, BitmapsStored
<1>10. Written(new, sb)
  BY <1>7, <1>9 DEF Written
<1>11. PhaseInv'
  <2>1. new = [durable EXCEPT ![0] = SuperBlock(sb, 0)] /\ durable[0] = ZeroBlock
    BY <1>3 DEF PhaseInv, new
  <2> QED BY <2>1, <1>3, <1>10 DEF PhaseInv
<1> QED BY <1>3, <1>11

\* A crash: the superblock of the plan is there only once all else is durable.
LEMMA CrashStep ==
  ASSUME Inv, Crash
  PROVE  Inv'
<1> USE DEF Inv
<1>1. /\ pc # "idle" /\ pc' = "idle" /\ crashes < MaxCrash /\ crashes' = crashes + 1
      /\ durable' = disk' /\ sb' = sb /\ damaged' = damaged
  BY DEF Crash
<1>2. PICK new, torn :
        /\ 0 \notin torn
        /\ disk' = [b \in DOMAIN disk |-> IF b \in new THEN disk[b]
                                          ELSE IF b \in torn THEN DataBlock ELSE durable[b]]
        /\ \A b \in torn : disk[b] # durable[b]
  BY DEF Crash
<1>3. TypeOK' /\ PlanFits' /\ (sb' # Refused => Planned(sb', device_blocks'))
  <2>1. /\ DOMAIN disk' = DOMAIN disk /\ DOMAIN durable' = DOMAIN disk
        /\ disk' = [b \in DOMAIN disk |-> disk'[b]] /\ durable' = [b \in DOMAIN disk |-> durable'[b]]
    BY <1>1, <1>2
  <2>2. /\ damaged' \in 0..MaxDamage /\ crashes' \in 0..MaxCrash
        /\ pc' \in {"idle", "wiped", "table", "bitmaps", "root", "written", "synced", "super"}
        /\ pc' # "idle" => sb' # Refused
        /\ sb' # Refused => Planned(sb', device_blocks)
    BY <1>1, CountsAssumption DEF TypeOK, PhaseInv
  <2> QED BY <2>1, <2>2, SameDevice
<1>4. 0 \in DOMAIN disk /\ damaged = 0 /\ sb # Refused /\ Planned(sb, device_blocks)
  BY <1>1 DEF TypeOK, PhaseInv
<1>5. disk'[0] = disk[0] \/ disk'[0] = durable[0]
  BY <1>2, <1>4
<1>6. ASSUME \A b \in DOMAIN disk \ {0} : disk[b] = durable[b], 0 \notin new
      PROVE  disk' = durable
  <2>1. \A b \in DOMAIN disk : disk'[b] = durable[b]
    BY <1>2, <1>6
  <2> QED BY <2>1, <1>2 DEF TypeOK
<1>7. ASSUME \A b \in DOMAIN disk \ {0} : disk[b] = durable[b], 0 \in new
      PROVE  disk' = disk
  <2>1. \A b \in DOMAIN disk : disk'[b] = disk[b]
    BY <1>2, <1>7
  <2> QED BY <2>1, <1>2 DEF TypeOK
<1>8. Sound(disk')
  <2>1. CASE pc = "wiped"
    <3>1. disk = [durable EXCEPT ![0] = ZeroBlock] /\ Sound(durable) /\ DOMAIN durable = DOMAIN disk
      BY <2>1 DEF PhaseInv, TypeOK
    <3>2. \A b \in DOMAIN disk \ {0} : disk[b] = durable[b]
      BY <3>1
    <3>3. CASE 0 \in new
      <4>1. disk'[0] = ZeroBlock
        BY <3>1, <3>3, <1>2, <1>4
      <4> QED BY <4>1 DEF Sound
    <3>4. CASE 0 \notin new
      BY <3>1, <3>2, <3>4, <1>6
    <3> QED BY <3>3, <3>4
  <2>2. CASE pc \in {"table", "bitmaps", "root", "written", "synced"}
    <3>1. disk'[0] = ZeroBlock
      BY <2>2, <1>5 DEF PhaseInv
    <3> QED BY <3>1 DEF Sound
  <2>3. CASE pc = "super"
    <3>1. /\ disk = [durable EXCEPT ![0] = SuperBlock(sb, 0)] /\ DOMAIN durable = DOMAIN disk
          /\ durable[0] = ZeroBlock /\ Written(disk, sb)
      BY <2>3 DEF PhaseInv, TypeOK
    <3>2. \A b \in DOMAIN disk \ {0} : disk[b] = durable[b]
      BY <3>1
    <3>3. CASE 0 \in new
      <4>1. disk' = disk
        BY <3>2, <3>3, <1>7
      <4>2. disk[0] = SuperBlock(sb, 0)
        BY <3>1, <1>4
      <4>3. AsSuper(disk[0]) = sb
        BY <4>2 DEF AsSuper, SuperBlock
      <4>4. Whole(disk)
        BY <4>2, <4>3, <3>1, <1>4 DEF Whole, device_blocks
      <4> QED BY <4>1, <4>4 DEF Sound
    <3>4. CASE 0 \notin new
      <4>1. disk'[0] = ZeroBlock
        <5>1. disk' = durable
          BY <3>2, <3>4, <1>6
        <5> QED BY <5>1, <3>1
      <4> QED BY <4>1 DEF Sound
    <3> QED BY <3>3, <3>4
  <2> QED BY <2>1, <2>2, <2>3, <1>1 DEF TypeOK
<1>9. PhaseInv'
  BY <1>1, <1>3, <1>4, <1>8 DEF PhaseInv
<1> QED BY <1>3, <1>9

\* Damage is to an image at rest.
LEMMA DamageStep ==
  ASSUME Inv, NEW b \in DOMAIN disk, Damage(b)
  PROVE  Inv'
<1> USE DEF Inv
<1>1. /\ pc = "idle" /\ damaged < MaxDamage /\ damaged' = damaged + 1 /\ durable' = disk'
      /\ sb' = sb /\ pc' = pc /\ crashes' = crashes
  BY DEF Damage
<1>2. PICK c : disk' = [disk EXCEPT ![b] = c]
  BY DEF Damage
<1>3. damaged' \in 0..MaxDamage /\ damaged' # 0
  BY <1>1, CountsAssumption DEF TypeOK
<1>4. TypeOK' /\ PlanFits' /\ (sb' # Refused => Planned(sb', device_blocks'))
  <2>1. /\ DOMAIN disk' = DOMAIN disk /\ DOMAIN durable' = DOMAIN disk
        /\ disk' = [x \in DOMAIN disk |-> disk'[x]] /\ durable' = [x \in DOMAIN disk |-> durable'[x]]
    BY <1>1, <1>2 DEF TypeOK
  <2>2. /\ crashes' \in 0..MaxCrash
        /\ pc' \in {"idle", "wiped", "table", "bitmaps", "root", "written", "synced", "super"}
        /\ pc' # "idle" => sb' # Refused
        /\ sb' # Refused => Planned(sb', device_blocks)
    BY <1>1 DEF TypeOK, PhaseInv
  <2> QED BY <2>1, <2>2, <1>3, SameDevice
<1>5. PhaseInv'
  BY <1>1, <1>3, <1>4 DEF PhaseInv
<1> QED BY <1>4, <1>5

\* Every step keeps the invariant.
LEMMA InductiveInv == Inv /\ [Next]_vars => Inv'
<1> SUFFICES ASSUME Inv, [Next]_vars PROVE Inv'
  OBVIOUS
<1>1. CASE \E n \in InodeCounts : Wipe(n)
  BY <1>1, WipeStep
<1>2. CASE Sync("wiped", "table") \/ Sync("written", "synced") \/ Sync("super", "idle")
  BY <1>2, SyncStep
<1>3. CASE ZeroTable
  BY <1>3, ZeroTableStep
<1>4. CASE WriteBitmaps
  BY <1>4, WriteBitmapsStep
<1>5. CASE WriteRoot
  BY <1>5, WriteRootStep
<1>6. CASE WriteSuper
  BY <1>6, WriteSuperStep
<1>7. CASE Crash
  BY <1>7, CrashStep
<1>8. CASE \E b \in DOMAIN disk : Damage(b)
  BY <1>8, DamageStep
<1>9. CASE UNCHANGED vars
  BY <1>9 DEF vars, Inv, TypeOK, PlanFits, PhaseInv, device_blocks
<1> QED BY <1>1, <1>2, <1>3, <1>4, <1>5, <1>6, <1>7, <1>8, <1>9 DEF Next

\* mkfs (src/mkfs.cpp), with a crash after any of its writes and damage to what
\* it leaves: the plan fits the device and every step leaves what the next needs.
THEOREM Invariant == Spec => []Inv
<1> QED BY InitInv, InductiveInv, PTL DEF Spec

\* "It is either complete or obviously unformatted" (src/mkfs.cpp): wherever a
\* crash stops mkfs, and over whatever image it ran, a superblock that a mount
\* accepts is the older one, its image untouched, or heads a complete image.
THEOREM CompleteOrUnformatted == Spec => []AllOrNothing
<1>1. Inv => AllOrNothing
  <2> SUFFICES ASSUME Inv, pc = "idle", damaged = 0, disk \notin Images,
                      validate_superblock(AsSuper(disk[0]), device_blocks)
               PROVE  /\ Consistent(disk)
                      /\ LET sup == AsSuper(disk[0])
                         IN  {id \in 0..(sup.inode_count - 1) : Bit(disk, sup.inode_bitmap_start, id)}
                               = {0, ROOT_INODE}
    BY DEF AllOrNothing
  <2>1. disk[0] = ZeroBlock \/ Whole(disk)
    BY DEF Inv, PhaseInv, Sound
  <2>2. disk[0] # ZeroBlock
    <3> SUFFICES ASSUME disk[0] = ZeroBlock PROVE FALSE
      OBVIOUS
    <3>1. AsSuper(disk[0]) = Refused
      BY DEF AsSuper, ZeroBlock
    <3> QED BY <3>1 DEF validate_superblock, Refused, MAGIC
  <2>3. Whole(disk)
    BY <2>1, <2>2
  <2> QED BY <2>3, WholeIsConsistent DEF Inv, TypeOK, device_blocks
<1> QED BY <1>1, Invariant, PTL
=============================================================================
