---------------------------- MODULE SimpleFlash ----------------------------
(***************************************************************************)
(* firmware/src/simple_flash.c: the driver of the on-chip flash.           *)
(*                                                                         *)
(* Flash is a function from addresses to words.  A word is the 64-bit unit *)
(* the controller programs at a time, and an address counts such units:    *)
(* byte address / 8.  Every address the firmware uses is a multiple of 8.  *)
(* The value of a word is abstract: Erased (all ones), or the piece of     *)
(* data somebody programmed there.                                         *)
(***************************************************************************)
EXTENDS Integers

CONSTANTS
    PAGE_WORDS,  \* words in a page (sector): FLASH_PAGE_SIZE = 1024 bytes
    Erased       \* the value of a word after its page was erased

FLASH_PAGE_SIZE == 8 * PAGE_WORDS

(***************************************************************************)
(* flash_simple_write rounds the byte count up to 32-bit words, and that   *)
(* up to an even number of them, before it programs pairs of them.         *)
(***************************************************************************)
Size32(size) == IF size % 4 = 0 THEN size \div 4 ELSE (size \div 4) + 1

EvenSize32(size) ==
    IF Size32(size) % 2 = 0 THEN Size32(size) ELSE Size32(size) + 1

ProgramWords(size) == EvenSize32(size) \div 2

(***************************************************************************)
(* The memory after a successful flash_simple_erase_page(address).         *)
(***************************************************************************)
Page(address) == address .. (address + PAGE_WORDS - 1)

ErasePage(mem, address) ==
    [w \in DOMAIN mem |-> IF w \in Page(address) THEN Erased ELSE mem[w]]

(***************************************************************************)
(* The memory after the controller programmed one word.  Programming can   *)
(* only turn ones into zeros; the controller refuses a word that would     *)
(* need the opposite, so a word that was accepted holds what was asked.    *)
(***************************************************************************)
ProgramWord(mem, address, word) == [mem EXCEPT ![address] = word]

(***************************************************************************)
(* flash_simple_read: size words copied from address, indexed from 0.      *)
(***************************************************************************)
ReadWords(mem, address, size) == [k \in 0 .. (size - 1) |-> mem[address + k]]
=============================================================================
