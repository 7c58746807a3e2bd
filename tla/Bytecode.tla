------------------------------- MODULE Bytecode -------------------------------
(***************************************************************************)
(* The bytecode file: CompileCtx::compile writes it section after section  *)
(* behind a header of lengths and offsets, load_program_from_reader reads  *)
(* it back.  A program is a record of its features, types, constants, blob *)
(* and instructions; a loaded one has the header, too.                     *)
(***************************************************************************)
EXTENDS ByteFields, SequencesExt

Magic == 1         \* "MECH"
Concat(items, BytesOf(_)) == FlattenSeq([i \in DOMAIN items |-> BytesOf(items[i])])

-----------------------------------------------------------------------------
(* Writing.                                                                *)

\* ByteCodeHeader, in the order of its bytes.
Layout == <<
  <<"magic", 4>>, <<"version", 1>>, <<"mech_ver", 2>>, <<"flags", 2>>,
  <<"reg_count", 4>>, <<"instr_count", 4>>,
  <<"feature_count", 4>>, <<"feature_off", 8>>, <<"types_count", 4>>, <<"types_off", 8>>,
  <<"const_count", 4>>, <<"const_tbl_off", 8>>, <<"const_tbl_len", 8>>,
  <<"const_blob_off", 8>>, <<"const_blob_len", 8>>, <<"symbols_len", 8>>, <<"symbols_off", 8>>,
  <<"instr_off", 8>>, <<"instr_len", 8>>, <<"dict_off", 8>>, <<"dict_len", 8>>,
  <<"reserved", 4>> >>

Before[f \in 1..Len(Layout) + 1] == IF f = 1 THEN 0 ELSE Before[f - 1] + Layout[f - 1][2]
HeaderSize == Before[Len(Layout) + 1]
HeaderBytes(header) == Concat(Layout, LAMBDA f : Bytes(header[f[1]], f[2]))

FeatureBytes(features) == Bytes(Len(features), 4) \o Concat(features, LAMBDA f : Bytes(f, 8))

\* The payload of a matrix type: its element type, the number of dimensions, two of them.
TypeBytes(t) ==
  LET payload == Concat(t.element, LAMBDA e : Bytes(e, 4) \o Bytes(2, 4) \o Bytes(1, 4) \o Bytes(1, 4))
  IN Bytes(t.kind, 2) \o Bytes(0, 2) \o Bytes(1, 4) \o Bytes(Len(payload), 4) \o payload
TypesBytes(types) == Bytes(Len(types), 4) \o Concat(types, TypeBytes)

Inline == 1
ConstBytes(c) ==
  Bytes(c.type, 4) \o Bytes(Inline, 1) \o Bytes(c.align, 1) \o Bytes(0, 1) \o Bytes(0, 1)
    \o Bytes(c.offset, 8) \o Bytes(c.length, 8)

\* Operations of one to five registers have codes of their own.
ConstLoad == 1
Fixed == <<16, 32, 48, 64, 80>>
VarArg == 96
RegisterBytes(regs) == Concat(regs, LAMBDA r : Bytes(r, 4))

InstrBytes(i) ==
  IF i.op = "load" THEN Bytes(ConstLoad, 1) \o Bytes(i.dst, 4) \o Bytes(i.const, 4)
  ELSE IF i.op = "op"
    THEN Bytes(Fixed[Len(i.regs)], 1) \o Bytes(i.fxn, 8) \o RegisterBytes(i.regs)
  ELSE Bytes(VarArg, 1) \o Bytes(i.fxn, 8) \o Bytes(i.regs[1], 4) \o Bytes(Len(i.regs) - 1, 4)
         \o RegisterBytes(Tail(i.regs))

Sections(p) ==
  << FeatureBytes(p.features), TypesBytes(p.types), Concat(p.consts, ConstBytes), p.blob,
     Concat(p.instrs, InstrBytes) >>
Content(header, p) == HeaderBytes(header) \o FlattenSeq(Sections(p))
Sealed(content) == content \o Checksum(content)

\* CompileCtx::compile.  Symbols and dictionary are empty.
Header(p, registers) ==
  LET sections == Sections(p)
      length(n) == Len(sections[n])
      off(n) == HeaderSize + Len(FlattenSeq(SubSeq(sections, 1, n - 1)))
  IN [magic |-> Magic, version |-> 1, mech_ver |-> 0, flags |-> 0,
      reg_count |-> registers, instr_count |-> Len(p.instrs),
      feature_count |-> Len(p.features), feature_off |-> off(1),
      types_count |-> Len(p.types), types_off |-> off(2),
      const_count |-> Len(p.consts), const_tbl_off |-> off(3), const_tbl_len |-> length(3),
      const_blob_off |-> off(4), const_blob_len |-> length(4),
      symbols_len |-> 0, symbols_off |-> off(5), instr_off |-> off(5), instr_len |-> length(5),
      dict_off |-> off(6), dict_len |-> 0, reserved |-> 0]

Written(p, registers) == Sealed(Content(Header(p, registers), p))

\* ParsedProgram::to_bytes keeps the header it was read with.
ToBytes(p) == Sealed(Content(p.header, p))

-----------------------------------------------------------------------------
(* Reading: an item and where the next one begins.                         *)

Item(item, next) == [item |-> item, next |-> next]

\* n items one after the other; one is the item at each position.
Many(n, start, one) ==
  LET read[i \in 0..n] ==
        IF i = 0 THEN Item(<<>>, start)
        ELSE LET sofar == read[i - 1]
                 r == one[sofar.next]
             IN Item(Append(sofar.item, r.item), r.next)
  IN read[n]

Numbers(file, n, start, width) ==
  Many(n, start, [pos \in Nat |-> Item(Read(file, pos, width), pos + width)])

ReadType(file, at) ==
  LET length == Read(file, at + 8, 4)
  IN Item([kind |-> Read(file, at, 2),
           element |-> IF length = 0 THEN <<>> ELSE <<Read(file, at + 12, 4)>>],
          at + 12 + length)

ReadConst(file, at) ==
  Item([type |-> Read(file, at, 4), align |-> Read(file, at + 5, 1),
        offset |-> Read(file, at + 8, 8), length |-> Read(file, at + 16, 8)], at + 24)

Call(op, fxn, regs) == [op |-> op, fxn |-> fxn, regs |-> regs]

ReadVarArg(file, at) ==
  LET args == Numbers(file, Read(file, at + 13, 4), at + 17, 4)
  IN Item(Call("varop", Read(file, at + 1, 8), <<Read(file, at + 9, 4)>> \o args.item), args.next)

ReadFixed(file, at, n) ==
  LET regs == Numbers(file, n, at + 9, 4)
  IN Item(Call("op", Read(file, at + 1, 8), regs.item), regs.next)

Unknown == [op |-> "unknown"]

ReadInstr(file, at) ==
  LET code == Read(file, at, 1)
  IN IF code = ConstLoad
       THEN Item([op |-> "load", dst |-> Read(file, at + 1, 4), const |-> Read(file, at + 5, 4)], at + 9)
     ELSE IF code = VarArg THEN ReadVarArg(file, at)
     ELSE IF \E n \in DOMAIN Fixed : Fixed[n] = code
       THEN ReadFixed(file, at, CHOOSE n \in DOMAIN Fixed : Fixed[n] = code)
     ELSE Item(Unknown, at + 1)

\* decode_instructions: to the end of the section, at least eight bytes each.
ReadInstrs(file, start, end) ==
  LET read[i \in 0..(end - start)] ==
        IF i = 0 THEN Item(<<>>, start)
        ELSE LET sofar == read[i - 1]
                 r == ReadInstr(file, sofar.next)
             IN IF sofar.next >= end \/ Contains(sofar.item, Unknown) THEN sofar
                ELSE IF end - sofar.next < 8 THEN Item(Append(sofar.item, Unknown), end)
                ELSE Item(Append(sofar.item, r.item), r.next)
  IN read[end - start].item

Refused == [ok |-> FALSE]

MutVerified(file) == TRUE
Verified(file) == HasChecksum(file)

Loaded(file) ==
  LET at(name) == CHOOSE f \in DOMAIN Layout : Layout[f][1] = name
      header == [name \in {Layout[f][1] : f \in DOMAIN Layout} |->
                   Read(file, Before[at(name)], Layout[at(name)][2])]
      end == header.instr_off + header.instr_len
      \* a section whose count would lie beyond the file is taken as empty
      counted(offset, ReadAll(_)) == IF offset + 8 <= Len(file) THEN ReadAll(offset).item ELSE <<>>
      features(offset) == Numbers(file, Read(file, offset, 4), offset + 4, 8)
      types(offset) == Many(Read(file, offset, 4), offset + 4, [pos \in Nat |-> ReadType(file, pos)])
      consts == Many(header.const_count, header.const_tbl_off, [pos \in Nat |-> ReadConst(file, pos)])
      instrs == ReadInstrs(file, header.instr_off, end)
  IN IF ~Verified(file) \/ Len(file) < HeaderSize \/ header.magic # Magic
        \/ end > Len(file) \/ Contains(instrs, Unknown)
     THEN Refused
     ELSE [ok |-> TRUE,
           program |-> [header |-> header,
                        features |-> counted(header.feature_off, features),
                        types |-> counted(header.types_off, types),
                        consts |-> consts.item,
                        blob |-> SubSeq(file, header.const_blob_off + 1,
                                        header.const_blob_off + header.const_blob_len),
                        instrs |-> instrs]]
=============================================================================
