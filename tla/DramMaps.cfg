SPECIFICATION Spec
CONSTANTS
    process_count = 1
    Core = {c1, c2}
    pages = 3
    tlb_size = 1
    total_page_count = 2
    min_free_pages = 1
    enable_shared_memory = FALSE
SYMMETRY CoreSymmetry
INVARIANTS PoolsExact MappingsAgree
