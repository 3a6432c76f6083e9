-------------------------------- MODULE Archive --------------------------------
(***************************************************************************)
(* The two read-only structures in memory that the kernel walks: the       *)
(* initramfs, a cpio archive of format newc (src/cpio.c), and the          *)
(* flattened device tree that says where it is (src/dtb.c).                *)
(*                                                                         *)
(* A file is a record of a name and its bytes, an archive a sequence of    *)
(* files at an address.  Memory maps the address of an entry to its header *)
(* and the address of a file's bytes to these.  The structure block of a   *)
(* device tree is the sequence of its 32-bit words.                        *)
(***************************************************************************)
EXTENDS Text

SIZE_OF_CPIO_HEADER == 110
Trailer == <<84>>  \* TRAILER!!!

-----------------------------------------------------------------------------
(* What cpio -H newc writes: sizes in hexadecimal, the name with its NUL   *)
(* behind the header, both parts padded to four bytes.                     *)
Pad4(n) == n + ((4 - (n % 4)) % 4)
HexDigit(n) == IF n < 10 THEN 48 + n ELSE 55 + n
Hex8(n) ==
  LET left[k \in 0 .. 8] == IF k = 0 THEN n ELSE left[k - 1] \div 16
  IN  [k \in 1 .. 8 |-> HexDigit(left[8 - k] % 16)]

\* What eight hexadecimal digits hold and an int can be.
IsSize(n) == n < Width \div 2 /\ n \div 268435456 < 16

\* An archive that newc can write and the kernel read.
IsArchive(files) ==
  /\ files \in Seq([name : Seq(Nat), data : Seq(Nat)])
  /\ \A k \in DOMAIN files :
       /\ files[k].name # Trailer
       /\ IsSize(Len(files[k].name) + 1) /\ IsSize(Len(files[k].data))

newc(base, files) ==
  LET entries == Append(files, [name |-> Trailer, data |-> <<>>])
      front(f) == Pad4(SIZE_OF_CPIO_HEADER + Len(f.name) + 1)
      offset[k \in 1 .. Len(entries)] ==
        IF k = 1 THEN base
                 ELSE offset[k - 1] + front(entries[k - 1]) + Pad4(Len(entries[k - 1].data))
      place == [k \in DOMAIN entries |-> offset[k]]
      data == [k \in DOMAIN entries |-> offset[k] + front(entries[k])]
  IN  [header |-> [a \in {place[k] : k \in DOMAIN entries} |->
                    LET f == entries[CHOOSE k \in DOMAIN entries : place[k] = a]
                    IN  [c_namesize |-> Hex8(Len(f.name) + 1),
                         c_filesize |-> Hex8(Len(f.data)), name |-> f.name]],
       bytes |-> [a \in {data[k] : k \in DOMAIN files} |->
                    files[CHOOSE k \in DOMAIN files : data[k] = a].data]]

-----------------------------------------------------------------------------
(* src/cpio.c. *)
IsHeader(mem, ptr) == ptr \in DOMAIN mem.header  \* the magic number is right

\* [mutant of FileData] the NUL of the name is forgotten
FileDataShort(ptr, header) ==
  align(ptr + SIZE_OF_CPIO_HEADER + hex2int(header.c_namesize) - 1, 4)

FileData(ptr, header) ==
  align(ptr + SIZE_OF_CPIO_HEADER + hex2int(header.c_namesize), 4)

NextHeader(ptr, header) == align(FileData(ptr, header) + hex2int(header.c_filesize), 4)

\* The address and size of the first file with this name, or <<>>.
cpio_findFile(mem, base, fileName) ==
  LET find[ptr \in Nat] ==
        LET header == mem.header[ptr] IN
        IF ~IsHeader(mem, ptr) \/ header.name = Trailer THEN <<>>
        ELSE IF header.name = fileName
          THEN <<FileData(ptr, header), hex2int(header.c_filesize)>>
          ELSE find[NextHeader(ptr, header)]
  IN  find[base]

cpio_ls(mem, base) ==
  LET ls[ptr \in Nat] ==
        LET header == mem.header[ptr] IN
        IF ~IsHeader(mem, ptr) \/ header.name = Trailer THEN <<>>
        ELSE <<header.name>> \o ls[NextHeader(ptr, header)]
  IN  ls[base]

\* What cpio_cat prints and cpio_load_program copies: size bytes from an
\* address on; -1 is a byte of something else.
Bytes(mem, file) ==
  [i \in 1 .. file[2] |-> IF file[1] \in DOMAIN mem.bytes /\ i <= Len(mem.bytes[file[1]])
                            THEN mem.bytes[file[1]][i] ELSE -1]

-----------------------------------------------------------------------------
(* src/dtb.c. *)
FDT_BEGIN_NODE == 1
FDT_END_NODE == 2
FDT_PROP == 3
FDT_NOP == 4
FDT_END == 9
HasNul(word) == word = 65  \* the last word of a node's name

InitrdStart == 7  \* the offset of the string linux,initrd-start

\* get_ramfs_addr: the address, when this is the property.
get_ramfs_addr(name, size, value, addr) ==
  IF name = InitrdStart /\ size = 4 THEN value ELSE addr

\* The word behind the name of the node that begins at ptr.
SkipName(words, ptr) ==
  1 + CHOOSE i \in ptr .. Len(words) : HasNul(words[i]) /\ \A j \in ptr .. i - 1 : ~HasNul(words[j])

\* How far the walk has come, in how many nodes, and the address so far.
At(ptr, depth, addr) == [ptr |-> ptr, depth |-> depth, addr |-> addr]

\* One round of fdt_parse_node's loop: a node calls it, any token that is
\* none of the first three returns to the caller, FDT_END too.
ReadToken(words, s) ==
  LET token == words[s.ptr]
      at(k) == words[s.ptr + k]
  IN  CASE token = FDT_PROP ->
             At(s.ptr + 3 + align(at(1), 4) \div 4, s.depth,
                get_ramfs_addr(at(2), at(1), at(3), s.addr))
        [] token = FDT_BEGIN_NODE -> At(SkipName(words, s.ptr + 1), s.depth + 1, s.addr)
        [] token = FDT_NOP -> At(s.ptr + 1, s.depth, s.addr)
        [] OTHER -> At(s.ptr + 1, s.depth - 1, s.addr)

fdt_parse_node(words, start) ==
  LET walk[s \in [ptr : Nat \ {0}, depth : Nat, addr : Nat]] ==
        IF s.depth = 0 \/ s.ptr > Len(words) THEN s.addr ELSE walk[ReadToken(words, s)]
  IN  walk[start]

\* The address found, or the one known before.
fdt_traverse(dtb, addr) ==
  IF ~dtb.magic \/ dtb.words[1] # FDT_BEGIN_NODE
    THEN addr
    ELSE fdt_parse_node(dtb.words, At(SkipName(dtb.words, 2), 1, addr))

==============================================================================
