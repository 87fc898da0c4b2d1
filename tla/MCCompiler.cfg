CONSTANTS
  Programs <- AllPrograms
  Texts <- AllTexts
SPECIFICATION Spec
PROPERTIES ParsedAsMeant AcceptedAsRead SameMeaning VerdictFits TypesStay
