SPECIFICATION Fair
CONSTANTS
    Cases <- MCCases
    Sections <- MCSections
    Ranges <- MCRanges
    MaxAdds = 5
    Pcs <- MCPcs
    NamesInOrder <- MCNames
INVARIANTS ReportsRight NeverWrong LookupRight
PROPERTY SearchEnds
