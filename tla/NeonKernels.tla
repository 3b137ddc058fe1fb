---------------------------- MODULE NeonKernels -----------------------------
(***************************************************************************)
(* bitpack_neon.rs, function by function: for every bit width the kernel   *)
(* that unpacks whole blocks, the staging variant of it that hands each    *)
(* block to a sink, and the public functions that decide how many blocks   *)
(* the kernel may run and what is done with its values.  vshlq by -s is    *)
(* written as a right shift by s.  The widths 22..31 instantiate two       *)
(* macros; 32 is a copy.  The last three tables are the aarch64 arms of    *)
(* the dispatchers.                                                        *)
(***************************************************************************)
EXTENDS KernelShape

neon_wide_u32_unchecked(w, offsets, shifts, stride) ==
    Kernel(w, stride, Gathered(4, offsets, shifts))
neon_wide_u32_kernel(w, offsets, shifts, stride) ==
    Unpack(neon_wide_u32_unchecked(w, offsets, shifts, stride),
           DropOne(offsets[8] + 4))
neon_wide_u64_unchecked(w, offsets, shifts, stride) ==
    Kernel(w, stride, Gathered(8, offsets, shifts))
neon_wide_u64_kernel(w, offsets, shifts, stride) ==
    Unpack(neon_wide_u64_unchecked(w, offsets, shifts, stride),
           DropOne(offsets[8] + 8))

(* ---- bit width 1 *)
unpack_neon_bw1_unchecked ==
    Kernel(1, 4, TestedBits(4, <<0, 1, 2, 3, 4, 5, 6, 7>>))
unpack_neon_bw1_into_staging == unpack_neon_bw1_unchecked
unpack_indices_into_neon_bw1 == Unpack(unpack_neon_bw1_unchecked, Exact)
unpack_lookup_into_neon_bw1 == Lookup(unpack_neon_bw1_into_staging, Exact, 1)

(* ---- bit width 2 *)
unpack_neon_bw2_unchecked ==
    Kernel(2, 8, Zip(2, Zip(1, Fields(8, 0), Fields(8, 2)),
                     Zip(1, Fields(8, 4), Fields(8, 6))))
unpack_neon_bw2_into_staging == unpack_neon_bw2_unchecked
unpack_indices_into_neon_bw2 == Unpack(unpack_neon_bw2_unchecked, Exact)
unpack_lookup_into_neon_bw2 == Lookup(unpack_neon_bw2_into_staging, Exact, 3)

(* ---- bit width 3 *)
unpack_neon_bw3_unchecked ==
    Kernel(3, 3, Then(Shuffled(4, 0, <<0, 0, 0, 1>>, <<0, 3, 6, 1>>),
                      Shuffled(4, 0, <<1, 1, 2, 2>>, <<4, 7, 2, 5>>)))
unpack_neon_bw3_into_staging == unpack_neon_bw3_unchecked
unpack_indices_into_neon_bw3 == Unpack(unpack_neon_bw3_unchecked, Fit(13))
unpack_lookup_into_neon_bw3 ==
    Lookup(unpack_neon_bw3_into_staging, Fit(13), 7)

(* ---- bit width 4 *)
unpack_neon_bw4_unchecked ==
    Kernel(4, 16, Zip(1, Fields(16, 0), Fields(16, 4)))
unpack_neon_bw4_into_staging == unpack_neon_bw4_unchecked
unpack_indices_into_neon_bw4 == Unpack(unpack_neon_bw4_unchecked, Exact)
unpack_lookup_into_neon_bw4 == Lookup(unpack_neon_bw4_into_staging, Exact, 15)

(* ---- bit width 5 *)
unpack_neon_bw5_unchecked ==
    Kernel(5, 5, Shuffled(2, 0, <<0, 0, 1, 1, 2, 3, 3, 4>>,
                          <<0, 5, 2, 7, 4, 1, 6, 3>>))
unpack_neon_bw5_into_staging == unpack_neon_bw5_unchecked
unpack_indices_into_neon_bw5 == Unpack(unpack_neon_bw5_unchecked, DropOne(16))
unpack_lookup_into_neon_bw5 ==
    Lookup(unpack_neon_bw5_into_staging, DropOne(16), 31)

(* ---- bit width 6 *)
unpack_neon_bw6_into_staging ==
    Kernel(6, 6, Then(Shuffled(4, 0, <<0, 0, 1, 2>>, <<0, 6, 4, 2>>),
                      Shuffled(4, 0, <<3, 3, 4, 5>>, <<0, 6, 4, 2>>)))
unpack_neon_bw6_unchecked == unpack_neon_bw6_into_staging
unpack_lookup_into_neon_bw6 ==
    Lookup(unpack_neon_bw6_into_staging, Fit(10), 63)
unpack_indices_into_neon_bw6 == Unpack(unpack_neon_bw6_unchecked, Fit(10))

(* ---- bit width 7 *)
unpack_neon_bw7_unchecked ==
    Kernel(7, 7, Then(Shuffled(4, 0, <<0, 0, 1, 2>>, <<0, 7, 6, 5>>),
                      Shuffled(4, 0, <<3, 4, 5, 6>>, <<4, 3, 2, 1>>)))
unpack_indices_into_neon_bw7 == Unpack(unpack_neon_bw7_unchecked, Fit(9))

(* ---- bit width 8 *)
unpack_neon_bw8_unchecked ==
    Kernel(8, 32, Then(Widened(8, 0, 16), Widened(8, 16, 16)))
unpack_neon_bw8_into_staging == unpack_neon_bw8_unchecked
unpack_indices_into_neon_bw8 == Unpack(unpack_neon_bw8_unchecked, Exact)
unpack_lookup_into_neon_bw8 ==
    Lookup(unpack_neon_bw8_into_staging, Exact, 255)

(* ---- bit width 9 *)
unpack_neon_bw9_unchecked ==
    Kernel(9, 9, Then(Shuffled(4, 0, <<0, 1, 2, 3>>, <<0, 1, 2, 3>>),
                      Shuffled(4, 0, <<4, 5, 6, 7>>, <<4, 5, 6, 7>>)))
unpack_indices_into_neon_bw9 == Unpack(unpack_neon_bw9_unchecked, Fit(7))

(* ---- bit width 10 *)
unpack_neon_bw10_unchecked ==
    Kernel(10, 10, Then(Shuffled(4, 0, <<0, 1, 2, 3>>, <<0, 2, 4, 6>>),
                        Shuffled(4, 0, <<5, 6, 7, 8>>, <<0, 2, 4, 6>>)))
unpack_indices_into_neon_bw10 == Unpack(unpack_neon_bw10_unchecked, Fit(6))

(* ---- bit width 11 *)
unpack_neon_bw11_unchecked ==
    Kernel(11, 11, Then(Shuffled(4, 0, <<0, 1, 2, 4>>, <<0, 3, 6, 1>>),
                        Shuffled(4, 0, <<5, 6, 8, 9>>, <<4, 7, 2, 5>>)))
unpack_indices_into_neon_bw11 == Unpack(unpack_neon_bw11_unchecked, Fit(5))

(* ---- bit width 12 *)
unpack_neon_bw12_unchecked ==
    Kernel(12, 12, Shuffled(2, 0, <<0, 1, 3, 4, 6, 7, 9, 10>>,
                            <<0, 4, 0, 4, 0, 4, 0, 4>>))
unpack_neon_bw12_into_staging == unpack_neon_bw12_unchecked
fused_predicate_neon_bw12 == unpack_neon_bw12_unchecked
unpack_indices_into_neon_bw12 ==
    Unpack(unpack_neon_bw12_unchecked, DropOne(16))
unpack_lookup_into_neon_bw12 ==
    Lookup(unpack_neon_bw12_into_staging, DropOne(16), 4095)
decode_predicate_bitmap_neon_bw12 ==
    Predicate(fused_predicate_neon_bw12, DropOne(16), 4096)

(* ---- bit width 13 *)
unpack_neon_bw13_unchecked ==
    Kernel(13, 13, Then(Shuffled(4, 0, <<0, 1, 3, 4>>, <<0, 5, 2, 7>>),
                        Shuffled(4, 0, <<6, 8, 9, 11>>, <<4, 1, 6, 3>>)))
unpack_indices_into_neon_bw13 == Unpack(unpack_neon_bw13_unchecked, Fit(3))

(* ---- bit width 14 *)
unpack_neon_bw14_unchecked ==
    Kernel(14, 14, Then(Shuffled(4, 0, <<0, 1, 3, 5>>, <<0, 6, 4, 2>>),
                        Shuffled(4, 0, <<7, 8, 10, 12>>, <<0, 6, 4, 2>>)))
unpack_neon_bw14_into_staging == unpack_neon_bw14_unchecked
decode_predicate_bitmap_neon_bw14 ==
    Predicate(unpack_neon_bw14_into_staging, DropOne(16), 16384)
unpack_indices_into_neon_bw14 ==
    Unpack(unpack_neon_bw14_unchecked, DropOne(16))
unpack_lookup_into_neon_bw14 ==
    Lookup(unpack_neon_bw14_into_staging, DropOne(16), 16383)

(* ---- bit width 15 *)
unpack_neon_bw15_unchecked ==
    Kernel(15, 15, Then(Shuffled(4, 0, <<0, 1, 3, 5>>, <<0, 7, 6, 5>>),
                        Shuffled(4, 7, <<0, 2, 4, 6>>, <<4, 3, 2, 1>>)))
unpack_neon_bw15_into_staging == unpack_neon_bw15_unchecked
decode_predicate_bitmap_neon_bw15 ==
    Predicate(unpack_neon_bw15_into_staging, DropOne(24), 32768)
unpack_indices_into_neon_bw15 ==
    Unpack(unpack_neon_bw15_unchecked, DropOne(24))
unpack_lookup_into_neon_bw15 ==
    Lookup(unpack_neon_bw15_into_staging, DropOne(24), 32767)

(* ---- bit width 16 *)
unpack_neon_bw16_unchecked == Kernel(16, 16, Widened(16, 0, 16))
unpack_neon_bw16_into_staging == unpack_neon_bw16_unchecked
decode_predicate_bitmap_neon_bw16 ==
    Predicate(unpack_neon_bw16_into_staging, DropOne(16), 65536)
unpack_indices_into_neon_bw16 == Unpack(unpack_neon_bw16_unchecked, Exact)
unpack_lookup_into_neon_bw16 ==
    Lookup(unpack_neon_bw16_into_staging, Exact, 65535)

(* ---- bit width 17 *)
unpack_neon_bw17_unchecked ==
    Kernel(17, 17, Then(Shuffled(4, 0, <<0, 2, 4, 6>>, <<0, 1, 2, 3>>),
                        Shuffled(4, 8, <<0, 2, 4, 6>>, <<4, 5, 6, 7>>)))
unpack_neon_bw17_into_staging == unpack_neon_bw17_unchecked
decode_predicate_bitmap_neon_bw17 ==
    Predicate(unpack_neon_bw17_into_staging, DropOne(24), 131072)
unpack_indices_into_neon_bw17 ==
    Unpack(unpack_neon_bw17_unchecked, DropOne(24))
unpack_lookup_into_neon_bw17 ==
    Lookup(unpack_neon_bw17_into_staging, DropOne(24), 131071)

(* ---- bit width 18 *)
unpack_neon_bw18_unchecked ==
    Kernel(18, 18, Then(Shuffled(4, 0, <<0, 2, 4, 6>>, <<0, 2, 4, 6>>),
                        Shuffled(4, 7, <<2, 4, 6, 8>>, <<0, 2, 4, 6>>)))
unpack_neon_bw18_into_staging == unpack_neon_bw18_unchecked
decode_predicate_bitmap_neon_bw18 ==
    Predicate(unpack_neon_bw18_into_staging, DropOne(24), 262144)
unpack_indices_into_neon_bw18 ==
    Unpack(unpack_neon_bw18_unchecked, DropOne(24))
unpack_lookup_into_neon_bw18 ==
    Lookup(unpack_neon_bw18_into_staging, DropOne(24), 262143)

(* ---- bit width 19 *)
unpack_neon_bw19_unchecked ==
    Kernel(19, 19, Then(Shuffled(4, 0, <<0, 2, 4, 7>>, <<0, 3, 6, 1>>),
                        Shuffled(4, 9, <<0, 2, 5, 7>>, <<4, 7, 2, 5>>)))
unpack_indices_into_neon_bw19 ==
    Unpack(unpack_neon_bw19_unchecked, DropOne(25))

(* ---- bit width 20 *)
unpack_neon_bw20_unchecked ==
    Kernel(20, 20, Then(Shuffled(4, 0, <<0, 2, 5, 7>>, <<0, 4, 0, 4>>),
                        Shuffled(4, 10, <<0, 2, 5, 7>>, <<0, 4, 0, 4>>)))
unpack_neon_bw20_into_staging == unpack_neon_bw20_unchecked
unpack_indices_into_neon_bw20 ==
    Unpack(unpack_neon_bw20_unchecked, DropOne(26))
unpack_lookup_into_neon_bw20 ==
    Lookup(unpack_neon_bw20_into_staging, DropOne(26), 1048575)

(* ---- bit width 21 *)
unpack_neon_bw21_unchecked ==
    Kernel(21, 21, Then(Shuffled(4, 0, <<0, 2, 5, 7>>, <<0, 5, 2, 7>>),
                        Shuffled(4, 10, <<0, 3, 5, 8>>, <<4, 1, 6, 3>>)))
unpack_neon_bw21_into_staging == unpack_neon_bw21_unchecked
unpack_indices_into_neon_bw21 ==
    Unpack(unpack_neon_bw21_unchecked, DropOne(22))
unpack_lookup_into_neon_bw21 ==
    Lookup(unpack_neon_bw21_into_staging, DropOne(22), 2097151)

(* ---- bit width 32 *)
unpack_neon_bw32_unchecked ==
    Kernel(32, 32, Then(Widened(32, 0, 16), Widened(32, 16, 16)))
unpack_indices_into_neon_bw32 == Unpack(unpack_neon_bw32_unchecked, Exact)

(* ---- bit widths 22 to 31 *)
unpack_indices_into_neon_bw22 ==
    neon_wide_u32_kernel(22, <<0, 2, 5, 8, 11, 13, 16, 19>>,
                         <<0, 6, 4, 2, 0, 6, 4, 2>>, 22)
unpack_indices_into_neon_bw23 ==
    neon_wide_u32_kernel(23, <<0, 2, 5, 8, 11, 14, 17, 20>>,
                         <<0, 7, 6, 5, 4, 3, 2, 1>>, 23)
unpack_indices_into_neon_bw24 ==
    neon_wide_u32_kernel(24, <<0, 3, 6, 9, 12, 15, 18, 21>>,
                         <<0, 0, 0, 0, 0, 0, 0, 0>>, 24)
unpack_indices_into_neon_bw25 ==
    neon_wide_u32_kernel(25, <<0, 3, 6, 9, 12, 15, 18, 21>>,
                         <<0, 1, 2, 3, 4, 5, 6, 7>>, 25)
unpack_indices_into_neon_bw26 ==
    neon_wide_u64_kernel(26, <<0, 3, 6, 9, 13, 16, 19, 22>>,
                         <<0, 2, 4, 6, 0, 2, 4, 6>>, 26)
unpack_indices_into_neon_bw27 ==
    neon_wide_u64_kernel(27, <<0, 3, 6, 10, 13, 16, 20, 23>>,
                         <<0, 3, 6, 1, 4, 7, 2, 5>>, 27)
unpack_indices_into_neon_bw28 ==
    neon_wide_u64_kernel(28, <<0, 3, 7, 10, 14, 17, 21, 24>>,
                         <<0, 4, 0, 4, 0, 4, 0, 4>>, 28)
unpack_indices_into_neon_bw29 ==
    neon_wide_u64_kernel(29, <<0, 3, 7, 10, 14, 18, 21, 25>>,
                         <<0, 5, 2, 7, 4, 1, 6, 3>>, 29)
unpack_indices_into_neon_bw30 ==
    neon_wide_u64_kernel(30, <<0, 3, 7, 11, 15, 18, 22, 26>>,
                         <<0, 6, 4, 2, 0, 6, 4, 2>>, 30)
unpack_indices_into_neon_bw31 ==
    neon_wide_u64_kernel(31, <<0, 3, 7, 11, 15, 19, 23, 27>>,
                         <<0, 7, 6, 5, 4, 3, 2, 1>>, 31)

(* ---- the arms of the dispatchers, by bit width; Scalar is `_ => {}` *)
NeonIndices ==
    <<unpack_indices_into_neon_bw1, unpack_indices_into_neon_bw2,
      unpack_indices_into_neon_bw3, unpack_indices_into_neon_bw4,
      unpack_indices_into_neon_bw5, unpack_indices_into_neon_bw6,
      unpack_indices_into_neon_bw7, unpack_indices_into_neon_bw8,
      unpack_indices_into_neon_bw9, unpack_indices_into_neon_bw10,
      unpack_indices_into_neon_bw11, unpack_indices_into_neon_bw12,
      unpack_indices_into_neon_bw13, unpack_indices_into_neon_bw14,
      unpack_indices_into_neon_bw15, unpack_indices_into_neon_bw16,
      unpack_indices_into_neon_bw17, unpack_indices_into_neon_bw18,
      unpack_indices_into_neon_bw19, unpack_indices_into_neon_bw20,
      unpack_indices_into_neon_bw21, unpack_indices_into_neon_bw22,
      unpack_indices_into_neon_bw23, unpack_indices_into_neon_bw24,
      unpack_indices_into_neon_bw25, unpack_indices_into_neon_bw26,
      unpack_indices_into_neon_bw27, unpack_indices_into_neon_bw28,
      unpack_indices_into_neon_bw29, unpack_indices_into_neon_bw30,
      unpack_indices_into_neon_bw31, unpack_indices_into_neon_bw32>>

NeonLookups ==
    <<unpack_lookup_into_neon_bw1, unpack_lookup_into_neon_bw2,
      unpack_lookup_into_neon_bw3, unpack_lookup_into_neon_bw4,
      unpack_lookup_into_neon_bw5, unpack_lookup_into_neon_bw6,
      Scalar, unpack_lookup_into_neon_bw8,
      Scalar, Scalar,
      Scalar, unpack_lookup_into_neon_bw12,
      Scalar, unpack_lookup_into_neon_bw14,
      unpack_lookup_into_neon_bw15, unpack_lookup_into_neon_bw16,
      unpack_lookup_into_neon_bw17, unpack_lookup_into_neon_bw18,
      Scalar, unpack_lookup_into_neon_bw20,
      unpack_lookup_into_neon_bw21>>

NeonPredicates ==
    [w \in {12, 14, 15, 16, 17, 18} |->
       CASE w = 12 -> decode_predicate_bitmap_neon_bw12
         [] w = 14 -> decode_predicate_bitmap_neon_bw14
         [] w = 15 -> decode_predicate_bitmap_neon_bw15
         [] w = 16 -> decode_predicate_bitmap_neon_bw16
         [] w = 17 -> decode_predicate_bitmap_neon_bw17
         [] w = 18 -> decode_predicate_bitmap_neon_bw18]
=============================================================================
