--------------------------- MODULE TemplateParser ---------------------------
(***************************************************************************)
(* XmlTemplateParser of src/xmlTemplateParser.hpp, from the elements of a  *)
(* document that tinyxml2 has read: [id, fields], and for each field its   *)
(* element's name and action, [type, action].  An action other than "copy" *)
(* and "delta" makes a null instruction, which the contexts would call; no *)
(* document here has one, nor a field without the attribute.               *)
(***************************************************************************)
EXTENDS Integers, SequencesExt

NoId == "no id"           \* the attribute is missing or not a number
NullTemplates == <<>>     \* nullptr, and the empty Templates

FieldTypes == {"int64", "uint64", "int32", "uint32", "string"}

\* The first position in s that satisfies Test, or the one behind its end.
FirstOr(s, Test(_)) == Min({i \in DOMAIN s : Test(s[i])} \cup {Len(s) + 1})

\* An empty action ends the template; an element of another name is skipped.
ParsedFields(fields) ==
  LET end == FirstOr(fields, LAMBDA field : field.action = "")
  IN  SelectSeq(SubSeq(fields, 1, end - 1), LAMBDA field : field.type \in FieldTypes)

\* Templates::addTemplate: of two templates with one id the later one is found.
addTemplate(templates, element) == (element.id :> ParsedFields(element.fields)) @@ templates

\* A template without an id makes the parser return nothing; one without fields
\* ends the document, and what stands behind it is not read.
parse(elements) ==
  LET end == FirstOr(elements, LAMBDA element : element.id = NoId \/ element.fields = <<>>)
  IN  IF end \in DOMAIN elements /\ elements[end].id = NoId THEN NullTemplates
      ELSE FoldLeft(addTemplate, <<>>, SubSeq(elements, 1, end - 1))
=============================================================================
